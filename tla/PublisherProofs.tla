--------------------------- MODULE PublisherProofs ---------------------------
(***************************************************************************)
(* Proofs about Publisher, for every value of its constants.               *)
(***************************************************************************)
EXTENDS Publisher, TLAPS

Busy(w) == at[w] \in {"open", "write", "replace"}

\* Threads belong to a process, and only a final join that expired lets the
\* main thread publish beside the loop.
Threads ==
    /\ phase = "down" => at = Off
    /\ phase # "down" => session >= 1
    /\ at["main"] # "wait"
    /\ at["main"] # "off" => phase = "last"
    /\ phase \in {"last", "leaving"} /\ ~overran => at["loop"] = "off"

\* What a writer has in hand: a snapshot, and once it opened the temporary file
\* the only handle on it. The file is torn until that snapshot is written.
Handles ==
    \A w \in Writers :
        /\ Busy(w) <=> data[w] # None
        /\ ~overran /\ at[w] \in {"write", "replace"} => handle[w] = "tmp"
        /\ ~overran /\ at[w] = "write" => file["tmp"] = Torn
        /\ ~overran /\ at[w] = "replace" => file["tmp"] = data[w]

\* The numbers: a snapshot in hand is the latest one of this session, and nothing
\* that is published for this session has its number yet.
Numbered ==
    ~overran =>
        /\ Whole(Published) => Published.session <= session
        /\ Current => Published.seq <= sequence
        /\ \A w \in Writers : Busy(w) =>
               /\ data[w].session = session /\ data[w].seq = sequence
               /\ Current => Published.seq < sequence

\* What the last snapshot is built from, what it says, and what it leaves behind.
Outcome ==
    /\ phase \in {"closing", "joining", "last", "leaving"} =>
           ~active /\ (lifecycle = "final" \/ late)
    /\ Busy("main") => ~data["main"].active /\ (data["main"].lifecycle = "final" \/ late)
    /\ ended => phase \in {"leaving", "down"}
    /\ ended /\ ~overran =>
           /\ Current /\ Published.seq = sequence /\ ~Published.active
           /\ Published.lifecycle = "final" \/ late

Inv == TypeOK /\ Threads /\ Handles /\ Numbered /\ Outcome /\ PathWhole

\* The initial state satisfies every part of the invariant.
LEMMA InitInv == Init => Inv
<1> SUFFICES ASSUME Init PROVE Inv
  OBVIOUS
<1> USE DEF Init, Off, Idle, Writers, Names
<1>1. TypeOK
  <2>1. ProcessType /\ CountersType
    BY ConstantsAssumption DEF ProcessType, CountersType, Lifecycles
  <2>2. FlagsType
    BY DEF FlagsType
  <2>3. FilesType
    BY DEF FilesType
  <2> QED
    BY <2>1, <2>2, <2>3 DEF TypeOK
<1>2. Threads /\ Handles
  BY DEF Threads, Handles, Busy
<1>3. Numbered /\ Outcome /\ PathWhole
  BY ContentsAssumption DEF Numbered, Outcome, PathWhole, Busy, Whole, Current, Published
<1> QED
  BY <1>1, <1>2, <1>3 DEF Inv

\* A step that touches neither the files nor the numbers, and that keeps what the
\* steps of publish() rely on, keeps the invariant.
LEMMA QuietSteps ==
    ASSUME Inv,
           \/ SetRunning \/ MainStops \/ AcceptStop \/ ShowStop \/ SetActive \/ ClearActive
           \/ Finish \/ StopLoop \/ Join \/ JoinExpires \/ WokenEarly \/ LoopStops
    PROVE  Inv'
<1> USE DEF process, shown, orders, numbers, files, history, SetLifecycle, Writers
<1> USE DEF SetRunning, MainStops, AcceptStop, ShowStop, SetActive, ClearActive,
            Finish, StopLoop, Join, JoinExpires, LoopEnded, WokenEarly, LoopStops
<1>1. TypeOK'
  <2>1. ProcessType'
    BY DEF Inv, TypeOK, ProcessType, Lifecycles
  <2>2. FlagsType'
    BY ZenonT(60) DEF Inv, TypeOK, FlagsType
  <2>3. CountersType'
    BY DEF Inv, TypeOK, CountersType
  <2>4. FilesType'
    BY DEF Inv, TypeOK, FilesType
  <2> QED
    BY <2>1, <2>2, <2>3, <2>4 DEF TypeOK
<1>2. Threads'
  BY DEF Inv, TypeOK, ProcessType, FlagsType, FilesType, Threads, Off
<1>3. Handles'
  BY DEF Inv, TypeOK, FilesType, FlagsType, Threads, Handles, Busy
<1>4. Numbered'
  BY DEF Inv, TypeOK, FilesType, FlagsType, Numbered, Busy, Whole, Current, Published
<1>5. Outcome'
  BY DEF Inv, TypeOK, ProcessType, FilesType, FlagsType, Threads, Outcome, Busy, Whole, Current, Published
<1>6. PathWhole'
  BY DEF Inv, PathWhole, Published
<1> QED
  BY <1>1, <1>2, <1>3, <1>4, <1>5, <1>6 DEF Inv

\* A start: its session is later than every file, so nothing that is published is
\* of it.
LEMMA StartStep ==
    ASSUME Inv, Start
    PROVE  Inv'
<1> USE DEF shown, orders, Start, Writers
<1>1. TypeOK'
  <2>1. ProcessType' /\ CountersType'
    BY ConstantsAssumption DEF Inv, TypeOK, ProcessType, CountersType
  <2>2. FlagsType' /\ FilesType'
    BY DEF Inv, TypeOK, FlagsType, FilesType
  <2> QED
    BY <2>1, <2>2 DEF TypeOK
<1>2. at = Off /\ at' = [w \in Writers |-> IF w = "loop" THEN "wait" ELSE "off"]
  BY DEF Inv, TypeOK, FilesType, Threads, Off
<1>3. Threads' /\ Handles'
  BY <1>2 DEF Inv, TypeOK, ProcessType, Threads, Handles, Busy, Off
<1>4. overran \/ ~Current'
  BY ConstantsAssumption
  DEF Inv, TypeOK, ProcessType, Numbered, Whole, Current, Published
<1>5. Numbered'
  BY <1>2, <1>4, ConstantsAssumption
  DEF Inv, TypeOK, ProcessType, FilesType, Names, Snapshots, Numbered, Busy, Whole, Published
<1>6. Outcome' /\ PathWhole'
  BY <1>2 DEF Inv, Outcome, Busy, PathWhole, Published
<1> QED
  BY <1>1, <1>3, <1>5, <1>6 DEF Inv

\* The end of the process, by itself or by a kill: the files stay.
LEMMA GoneStep ==
    ASSUME Inv, Leave \/ Kill
    PROVE  Inv'
<1> USE DEF Leave, Kill, Gone, Off, Idle, Writers
<1>1. TypeOK'
  <2>1. ProcessType' /\ CountersType'
    BY ConstantsAssumption DEF Inv, TypeOK, ProcessType, CountersType, Lifecycles
  <2>2. FlagsType' /\ FilesType'
    BY DEF Inv, TypeOK, FlagsType, FilesType
  <2> QED
    BY <2>1, <2>2 DEF TypeOK
<1>2. Threads' /\ Handles'
  BY DEF Threads, Handles, Busy
<1>3. Numbered'
  BY DEF Inv, Numbered, Busy, Whole, Current, Published
<1>4. Outcome' /\ PathWhole'
  BY DEF Inv, Outcome, Busy, Whole, Current, Published, PathWhole
<1> QED
  BY <1>1, <1>2, <1>3, <1>4 DEF Inv

\* A snapshot is built and numbered: by the loop, or by the main thread once the
\* loop is gone.
LEMMA BuildStep ==
    ASSUME Inv, LoopDue \/ LastSnapshot
    PROVE  Inv'
<1> DEFINE w == IF LoopDue THEN "loop" ELSE "main"
<1>1. w \in Writers /\ Build(w) /\ ~Busy(w) /\ phase # "down"
      /\ (w = "loop" => at["loop"] = "wait") /\ (w = "main" => phase = "last")
  BY DEF LoopDue, LastSnapshot, Writers, Busy, Inv, Threads, Off
<1>2. repeats' \in Nat /\ wake' \in BOOLEAN
  <2>1. repeats \in Nat /\ wake \in BOOLEAN
    BY DEF Inv, TypeOK, CountersType, FlagsType
  <2>2. repeats' = repeats + 1 \/ repeats' = repeats
    <3>1. CASE LoopDue
      BY <3>1 DEF LoopDue
    <3>2. CASE LastSnapshot
      BY <3>2 DEF LastSnapshot
    <3> QED
      BY <3>1, <3>2
  <2>3. wake' = FALSE \/ wake' = wake
    BY DEF LoopDue, LastSnapshot
  <2>4. repeats' \in Nat
    BY <2>1, <2>2
  <2>5. wake' \in BOOLEAN
    BY <2>1, <2>3
  <2> QED
    BY <2>4, <2>5
<1> DEFINE new == [session |-> session, seq |-> sequence + 1,
                   lifecycle |-> lifecycle, active |-> active]
<1>3. /\ data' = [data EXCEPT ![w] = new] /\ at' = [at EXCEPT ![w] = "open"]
      /\ sequence' = sequence + 1
      /\ UNCHANGED <<phase, session, ended, lifecycle, active, stopping, command, attempts,
                     stop, handle, file, faults, overran, late>>
  BY <1>1 DEF Build, NextNumber, process, shown, orders, history
<1>4. new \in Snapshots
  BY <1>1, ConstantsAssumption
  DEF Inv, TypeOK, ProcessType, FlagsType, CountersType, Threads, Snapshots
<1>5. new # None /\ new # Torn
  BY <1>4, ContentsAssumption
<1>6. \A v \in Writers \ {w} : Busy(v) => overran
  BY <1>1 DEF Inv, Threads, Busy, Writers
<1> HIDE DEF w, new
<1>7. TypeOK'
  <2>1. ProcessType' /\ CountersType'
    BY <1>2, <1>3 DEF Inv, TypeOK, ProcessType, CountersType
  <2>2. FlagsType'
    BY <1>2, <1>3 DEF Inv, TypeOK, FlagsType
  <2>3. FilesType'
    BY <1>1, <1>3, <1>4 DEF Inv, TypeOK, FilesType
  <2> QED
    BY <2>1, <2>2, <2>3 DEF TypeOK
<1>8. Threads'
  BY <1>1, <1>3 DEF Inv, TypeOK, FilesType, Threads, Writers
<1>9. Handles'
  BY <1>1, <1>3, <1>5 DEF Inv, TypeOK, FilesType, Handles, Busy
<1>10. Numbered'
  <2>1. Whole(Published) /\ Published.session = session => Published.seq \in Nat
    BY DEF Inv, TypeOK, FilesType, Whole, Published, Names, Snapshots
  <2>2. sequence \in Nat
    BY DEF Inv, TypeOK, CountersType
  <2> QED
    BY <1>1, <1>3, <1>6, <2>1, <2>2
    DEF new, Inv, TypeOK, FilesType, Numbered, Busy, Whole, Current, Published
<1>11. Outcome' /\ PathWhole'
  <2>1. ended => overran
    BY <1>1 DEF Inv, Outcome, w, LoopDue, LastSnapshot, Threads, Off
  <2>2. Busy("main")' =>
            ~data'["main"].active /\ (data'["main"].lifecycle = "final" \/ late')
    <3>1. CASE w = "main"
      BY <1>1, <1>3, <3>1 DEF new, Inv, TypeOK, FilesType, Outcome, Writers
    <3>2. CASE w # "main"
      BY <1>1, <1>3, <3>2 DEF Inv, TypeOK, FilesType, Outcome, Busy, Writers
    <3> QED
      BY <3>1, <3>2
  <2>3. Outcome'
    BY <1>3, <2>1, <2>2 DEF Inv, Outcome
  <2>4. PathWhole'
    BY <1>3 DEF Inv, PathWhole, Published
  <2> QED
    BY <2>3, <2>4
<1> QED
  BY <1>7, <1>8, <1>9, <1>10, <1>11 DEF Inv

\* A writer opens the temporary file: it is empty now, the path is untouched.
LEMMA OpenStep ==
    ASSUME Inv, NEW w \in Writers, Open(w)
    PROVE  Inv'
<1> USE DEF Open, Temporary, process, shown, orders, numbers, history
<1>1. at[w] = "open" /\ \A v \in Writers \ {w} : Busy(v) => overran
  BY DEF Inv, Threads, Busy, Writers
<1>2. TypeOK'
  <2>1. ProcessType' /\ CountersType'
    BY DEF Inv, TypeOK, ProcessType, CountersType
  <2>2. FlagsType'
    BY DEF Inv, TypeOK, FlagsType
  <2>3. FilesType'
    BY DEF Inv, TypeOK, FilesType, Names
  <2> QED
    BY <2>1, <2>2, <2>3 DEF TypeOK
<1>3. Published' = Published
  BY DEF Inv, TypeOK, FilesType, Names, Published
<1>4. Threads'
  BY <1>1 DEF Inv, TypeOK, FilesType, Threads, Off, Writers
<1>5. Handles'
  BY <1>1 DEF Inv, TypeOK, FilesType, Handles, Busy, Names
<1>6. Numbered' /\ PathWhole'
  BY <1>1, <1>3
  DEF Inv, TypeOK, FilesType, Numbered, Busy, Whole, Current, PathWhole
<1>7. Outcome'
  BY <1>1, <1>3 DEF Inv, TypeOK, FilesType, Outcome, Busy, Whole, Current
<1> QED
  BY <1>2, <1>4, <1>5, <1>6, <1>7 DEF Inv

\* A writer fills the file it has open: alone it fills the temporary one, and
\* with its own snapshot.
LEMMA WriteStep ==
    ASSUME Inv, NEW w \in Writers, Write(w)
    PROVE  Inv'
<1> USE DEF process, shown, orders, numbers, history
<1>1. at[w] = "write" /\ (\A v \in Writers \ {w} : Busy(v) => overran)
  BY DEF Write, Inv, Threads, Busy, Writers
<1>2. /\ at' = [at EXCEPT ![w] = "replace"]
      /\ UNCHANGED <<process, shown, orders, wake, stop, numbers, data, handle, history>>
  BY DEF Write
<1>3. data[w] # None
  BY <1>1 DEF Inv, Handles, Busy
<1>4. \/ file' = file
      \/ handle[w] \in Names /\ file' = [file EXCEPT ![handle[w]] = data[w]]
      \/ /\ handle[w] \in Names /\ file[handle[w]] # Torn
         /\ file' = [file EXCEPT ![handle[w]] = Torn]
  BY DEF Write
<1>5. TypeOK'
  <2>1. ProcessType' /\ CountersType'
    BY <1>2 DEF Inv, TypeOK, ProcessType, CountersType
  <2>2. FlagsType'
    BY <1>2 DEF Inv, TypeOK, FlagsType
  <2>3. FilesType'
    BY <1>1, <1>2, <1>4 DEF Inv, TypeOK, FilesType
  <2> QED
    BY <2>1, <2>2, <2>3 DEF TypeOK
<1>6. ~overran => file["tmp"]' = data[w] /\ Published' = Published
  <2>1. SUFFICES ASSUME ~overran PROVE file["tmp"]' = data[w] /\ Published' = Published
    OBVIOUS
  <2>2. handle[w] = "tmp" /\ file["tmp"] = Torn
    BY <1>1, <2>1 DEF Inv, Handles
  <2>3. file' = [file EXCEPT !["tmp"] = data[w]]
    BY <2>2 DEF Write, Names
  <2> QED
    BY <2>3 DEF Inv, TypeOK, FilesType, Names, Published
<1>7. Threads'
  BY <1>1, <1>2 DEF Inv, TypeOK, FilesType, Threads, Off, Writers
<1>8. Handles'
  BY <1>1, <1>2, <1>6 DEF Inv, TypeOK, FilesType, Handles, Busy
<1>9. Numbered' /\ PathWhole'
  BY <1>1, <1>2, <1>6
  DEF Inv, TypeOK, FilesType, Numbered, Busy, Whole, Current, PathWhole
<1>10. Outcome'
  BY <1>1, <1>2, <1>6 DEF Inv, TypeOK, FilesType, Outcome, Busy, Whole, Current
<1> QED
  BY <1>5, <1>7, <1>8, <1>9, <1>10 DEF Inv

\* The call of a writer ends without a replacement.
LEMMA WriteFailsStep ==
    ASSUME Inv, NEW w \in Writers, WriteFails(w)
    PROVE  Inv'
<1> USE DEF WriteFails, Over, shown, orders, numbers
<1> DEFINE rest == IF w = "loop" THEN "wait" ELSE "off"
<1>1. Busy(w) /\ at' = [at EXCEPT ![w] = rest]
  BY DEF Busy
<1>2. rest \in {"wait", "off"} /\ (w = "main" <=> rest = "off")
  BY DEF Writers
<1>3. (w = "main" => phase = "last") /\ (w = "loop" /\ ~overran => phase # "last")
  BY <1>1 DEF Inv, Threads, Busy, Writers
<1> HIDE DEF rest
<1>4. TypeOK'
  <2>1. ProcessType' /\ CountersType'
    BY DEF Inv, TypeOK, ProcessType, CountersType
  <2>2. FlagsType'
    BY DEF Inv, TypeOK, FlagsType
  <2>3. FilesType'
    BY <1>1, <1>2 DEF Inv, TypeOK, FilesType
  <2> QED
    BY <2>1, <2>2, <2>3 DEF TypeOK
<1>5. Threads'
  BY <1>1, <1>2, <1>3 DEF Inv, TypeOK, FilesType, Threads, Off, Writers, Busy
<1>6. Handles'
  BY <1>1, <1>2 DEF Inv, TypeOK, FilesType, Handles, Busy
<1>7. Numbered' /\ PathWhole'
  BY <1>1, <1>2
  DEF Inv, TypeOK, FilesType, Numbered, Busy, Whole, Current, Published, PathWhole
<1>8. Outcome'
  BY <1>1, <1>2, <1>3
  DEF Inv, TypeOK, FilesType, Outcome, Busy, Whole, Current, Published, Writers
<1> QED
  BY <1>4, <1>5, <1>6, <1>7, <1>8 DEF Inv

\* What the path holds after a replacement by a writer that was never disturbed:
\* its own snapshot.
LEMMA Replacement ==
    ASSUME Inv, NEW w \in Writers, Replace(w), ~overran
    PROVE  /\ data[w] \in Snapshots /\ Whole(data[w]) /\ data[w].session = session
           /\ Published' = data[w] /\ ended' = (IF w = "main" THEN TRUE ELSE ended)
           /\ \A v \in Writers \ {w} : ~Busy(v)
<1>1. at[w] = "replace" /\ Busy(w)
  BY DEF Replace, Busy
<1>2. data[w] \in Snapshots /\ data[w] # None /\ file["tmp"] = data[w]
  BY <1>1 DEF Inv, TypeOK, FilesType, Handles
<1>3. Whole(data[w]) /\ data[w].session = session
  BY <1>1, <1>2, ContentsAssumption DEF Whole, Inv, Numbered
<1>4. file' = [path |-> file["tmp"], tmp |-> None] /\ ended' = (IF w = "main" THEN TRUE ELSE ended)
  BY <1>2 DEF Replace, Over
<1>5. \A v \in Writers \ {w} : ~Busy(v)
  BY <1>1 DEF Inv, Threads, Busy, Writers
<1> QED
  BY <1>2, <1>3, <1>4, <1>5 DEF Published

\* The snapshot of a writer becomes the one at the path.
LEMMA ReplaceStep ==
    ASSUME Inv, NEW w \in Writers, Replace(w)
    PROVE  Inv'
<1> DEFINE rest == IF w = "loop" THEN "wait" ELSE "off"
           done == file["tmp"] # None
<1>1. /\ Busy(w) /\ at' = [at EXCEPT ![w] = rest] /\ data' = [data EXCEPT ![w] = None]
      /\ phase' = (IF w = "main" THEN "leaving" ELSE phase)
      /\ ended' = (IF w = "main" THEN done ELSE ended)
      /\ UNCHANGED <<session, lifecycle, active, stopping, command, attempts, wake, stop,
                     sequence, repeats, faults, overran, late>>
  BY DEF Replace, Over, Busy, shown, orders, numbers
<1>2. rest \in {"wait", "off"} /\ (w = "main" <=> rest = "off")
  BY DEF Writers
<1>3. (w = "main" => phase = "last") /\ (w = "loop" /\ ~overran => phase # "last")
  BY <1>1 DEF Inv, Threads, Busy, Writers
<1>4. TypeOK'
  <2>1. ProcessType' /\ CountersType'
    BY <1>1 DEF Inv, TypeOK, ProcessType, CountersType
  <2>2. FlagsType'
    BY <1>1 DEF Inv, TypeOK, FlagsType
  <2>3. at' \in [Writers -> {"off", "wait", "open", "write", "replace"}]
        /\ data' \in [Writers -> Snapshots \cup {None}]
    BY <1>1, <1>2 DEF Inv, TypeOK, FilesType
  <2>4. file' \in [Names -> Snapshots \cup {Torn, None}]
    BY DEF Replace, Inv, TypeOK, FilesType, Names
  <2>5. handle' \in [Writers -> Names \cup {"gone", None}]
    BY DEF Replace, Renamed, Inv, TypeOK, FilesType, Names
  <2> QED
    BY <2>1, <2>2, <2>3, <2>4, <2>5 DEF TypeOK, FilesType
<1> HIDE DEF rest, done
<1>5. Threads'
  BY <1>1, <1>2, <1>3 DEF Inv, TypeOK, FilesType, Threads, Off, Writers, Busy
<1>6. Handles'
  <2>1. \A v \in Writers : Busy(v)' <=> v # w /\ Busy(v)
    BY <1>1, <1>2 DEF Inv, TypeOK, FilesType, Busy
  <2>2. \A v \in Writers : Busy(v)' <=> data'[v] # None
    BY <1>1, <2>1 DEF Inv, TypeOK, FilesType, Handles
  <2>3. ASSUME ~overran PROVE \A v \in Writers : ~Busy(v)'
    <3>1. \A v \in Writers \ {w} : ~Busy(v)
      BY <2>3, Replacement
    <3> QED
      BY <2>1, <3>1
  <2> QED
    BY <1>1, <2>2, <2>3 DEF Handles, Busy
<1>7. CASE overran
  BY <1>1, <1>2, <1>3, <1>4, <1>5, <1>6, <1>7
  DEF Inv, TypeOK, FilesType, Numbered, PathWhole, Outcome, Busy, Writers
<1>8. CASE ~overran
  <2>1. /\ Whole(data[w]) /\ data[w].session = session
        /\ Published' = data[w] /\ ended' = (IF w = "main" THEN TRUE ELSE ended)
        /\ \A v \in Writers : ~Busy(v)'
    BY <1>1, <1>2, <1>8, Replacement DEF Inv, TypeOK, FilesType, Busy
  <2>2. data[w].seq = sequence
    BY <1>1, <1>8 DEF Inv, Numbered
  <2>3. sequence \in Nat /\ session \in Nat
    BY ConstantsAssumption DEF Inv, TypeOK, CountersType, ProcessType
  <2>4. Numbered' /\ PathWhole'
    BY <1>1, <2>1, <2>2, <2>3 DEF Numbered, Whole, Current, PathWhole
  <2>5. Outcome'
    <3>1. CASE w = "main"
      BY <1>1, <1>3, <1>8, <2>1, <2>2, <3>1 DEF Inv, Outcome, Whole, Current, Writers
    <3>2. CASE w = "loop"
      <4>1. ~ended
        BY <1>1, <1>8, <3>2 DEF Inv, Outcome, Threads, Off, Busy, Writers
      <4> QED
        BY <1>1, <2>1, <3>2, <4>1 DEF Inv, Outcome, Writers
    <3> QED
      BY <3>1, <3>2 DEF Writers
  <2> QED
    BY <1>4, <1>5, <1>6, <2>4, <2>5 DEF Inv
<1> QED
  BY <1>7, <1>8

\* Every step keeps the invariant.
LEMMA NextInv == Inv /\ [Next]_vars => Inv'
<1> SUFFICES ASSUME Inv, [Next]_vars PROVE Inv'
  OBVIOUS
<1>1. CASE Start
  BY <1>1, StartStep
<1>2. CASE \/ SetRunning \/ MainStops \/ AcceptStop \/ ShowStop \/ SetActive \/ ClearActive
           \/ Finish \/ StopLoop \/ Join \/ JoinExpires \/ WokenEarly \/ LoopStops
  BY <1>2, QuietSteps
<1>3. CASE Leave \/ Kill
  BY <1>3, GoneStep
<1>4. CASE LoopDue \/ LastSnapshot
  BY <1>4, BuildStep
<1>5. CASE \E w \in Writers : Open(w) \/ Write(w) \/ Replace(w) \/ WriteFails(w)
  BY <1>5, OpenStep, WriteStep, ReplaceStep, WriteFailsStep
<1>6. CASE UNCHANGED vars
  BY <1>6
  DEF vars, process, shown, orders, numbers, files, history, Inv, TypeOK, ProcessType,
      FlagsType, CountersType, FilesType, Threads, Handles, Numbered, Outcome, PathWhole,
      Busy, Whole, Current, Published
<1> QED
  BY <1>1, <1>2, <1>3, <1>4, <1>5, <1>6 DEF Next

\* The invariant holds in every reachable state.
THEOREM InvHolds == Spec => []Inv
<1> QED
  BY InitInv, NextInv, PTL DEF Spec

-----------------------------------------------------------------------------
\* Every variable of the publisher keeps its type.
THEOREM Typed == Spec => []TypeOK
<1>1. Inv => TypeOK
  BY DEF Inv
<1> QED
  BY <1>1, InvHolds, PTL

\* Whoever reads the path finds no torn snapshot, whatever was killed, failed or
\* started again (publish(), start()); a join that expired is the exception.
THEOREM ReadersSafe == Spec => []PathWhole
<1>1. Inv => PathWhole
  BY DEF Inv
<1> QED
  BY <1>1, InvHolds, PTL

\* A session that ended by itself leaves its own last snapshot at the path
\* (the end of run(), stop(), publish()).
THEOREM LastIsFinal == Spec => []FinalIsLast
<1>1. Inv => FinalIsLast
  BY DEF Inv, Outcome, FinalIsLast
<1> QED
  BY <1>1, InvHolds, PTL

\* Only a replacement changes what is published.
LEMMA OnlyReplace ==
    ASSUME Inv, Next, Published' # Published, ~overran'
    PROVE  \E w \in Writers : Replace(w) /\ ~overran
<1>1. CASE \E w \in Writers : Replace(w)
  <2>1. PICK w \in Writers : Replace(w)
    BY <1>1
  <2>2. overran' = overran
    BY <2>1 DEF Replace, Over
  <2> QED
    BY <2>1, <2>2
<1>2. CASE \E w \in Writers : Write(w)
  <2>1. PICK w \in Writers : Write(w)
    BY <1>2
  <2>2. ~overran /\ at[w] = "write"
    BY <2>1 DEF Write, history
  <2>3. handle[w] = "tmp"
    BY <2>2 DEF Inv, Handles
  <2> QED
    BY <2>1, <2>3 DEF Write, Inv, TypeOK, FilesType, Names, Published
<1>3. CASE \E w \in Writers : Open(w)
  BY <1>3 DEF Open, Temporary, Inv, TypeOK, FilesType, Names, Published
<1>4. CASE \E w \in Writers : WriteFails(w)
  BY <1>4 DEF WriteFails, Published
<1>5. CASE LoopDue \/ LastSnapshot
  BY <1>5 DEF LoopDue, LastSnapshot, Build, Published
<1>6. CASE Leave \/ Kill
  BY <1>6 DEF Leave, Kill, Gone, Published
<1>7. CASE \/ Start \/ SetRunning \/ MainStops \/ AcceptStop \/ ShowStop \/ SetActive
           \/ ClearActive \/ Finish \/ StopLoop \/ Join \/ JoinExpires \/ WokenEarly \/ LoopStops
  BY <1>7
  DEF Start, SetRunning, MainStops, AcceptStop, ShowStop, SetActive, ClearActive, Finish,
      StopLoop, Join, JoinExpires, WokenEarly, LoopStops, files, Published
<1> QED
  BY <1>1, <1>2, <1>3, <1>4, <1>5, <1>6, <1>7 DEF Next

\* The snapshots of a session replace each other in the order of their numbers
\* (publish(), stop(); refresh_snapshot() of the monitor compares none).
THEOREM InOrder == Spec => Forward
<1> DEFINE Step == Whole(Published) /\ Whole(Published') /\ Published.session = session /\ ~overran'
                    => Published'.seq > Published.seq
<1>1. Inv /\ [Next]_vars => [Step]_Published
  <2> SUFFICES ASSUME Inv, [Next]_vars, Published' # Published,
                      Whole(Published), Published.session = session, ~overran'
               PROVE  Published'.seq > Published.seq
    OBVIOUS
  <2>1. Next
    BY DEF vars, files, Published
  <2>2. PICK w \in Writers : Replace(w) /\ ~overran
    BY <2>1, OnlyReplace
  <2>3. Published' = data[w] /\ data[w] \in Snapshots
    BY <2>2, Replacement
  <2>4. data[w].seq = sequence /\ Published.seq < sequence
    BY <2>2 DEF Inv, Numbered, Busy, Replace, Current
  <2>5. Published.seq \in Nat /\ sequence \in Nat
    BY DEF Inv, TypeOK, FilesType, CountersType, Published, Names, Whole, Snapshots
  <2> QED
    BY <2>3, <2>4, <2>5
<1> QED
  BY <1>1, InvHolds, PTL DEF Spec, Forward
==============================================================================
