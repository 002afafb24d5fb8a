-------------------------- MODULE ProvenanceProofs --------------------------
(***************************************************************************)
(* Proofs about Provenance, for every value of its constants.              *)
(***************************************************************************)
EXTENDS Provenance, FiniteSetTheorems, SequenceTheorems, TLAPS

\* The record file as a digest chain: what makes it fail to verify for good.
Unreadable(file) == \E k \in 1..Len(file) : ~Readable(file[k])
Chained(file)    == \A k \in 2..Len(file) : file[k].prev = file[k - 1].seq
Broken(file, count, digest) ==
    \/ Unreadable(file)
    \/ Len(file) < count
    \/ ~Chained(file)
    \/ file # <<>> /\ Last(file).seq # digest

\* A file that was appended to: what could be read can, what could not cannot.
Grown(old, file) ==
    /\ Len(file) \in {Len(old), Len(old) + 1}
    /\ \A k \in 1..Len(old) : /\ Readable(old[k]) => file[k] = old[k]
                              /\ ~Readable(old[k]) => ~Readable(file[k])
                              /\ k < Len(old) => file[k] = old[k]

\* Threads: none but those of a run that is not closed, one while promotions are
\* reconciled, and none for an item whose row is complete.
Threads ==
    /\ phase \in {"down", "closing", "sealed"} => Joined
    /\ phase = "starting" =>
           /\ \A i, j \in Items : pc[i] # "idle" /\ pc[j] # "idle" => i = j
           /\ \A i \in Items : /\ pc[i] \in {"idle", "complete", "failed"}
                               /\ pc[i] # "idle" => row[i] = "promoting"
    /\ \A i \in Items : /\ pc[i] # "idle" => row[i] # "complete"
                        /\ pc[i] \in {"finalize", "complete"} => final[i]

\* Sessions: those to come are empty, the open one is not signed, and a run that was
\* started has its scope.
Ahead ==
    /\ \A s \in Sessions : s > session =>
           lines[s] = <<>> /\ summary[s] = None /\ s \notin lost /\ s \notin spoiled
    /\ phase \in {"starting", "running", "closing"} => summary[session] = None
    /\ phase # "down" => runOf[session] \in Runs
    /\ phase \in {"running", "closing", "sealed"} => scope[runOf[session]] # None
    /\ \A s \in Sessions : summary[s] # None =>
           runOf[s] \in Runs /\ scope[runOf[s]] # None

\* The writer is never behind its file, and a failure leaves a trace that no later
\* event can mend: an unreadable line, a number that is missing, or a link that is not
\* there.
Trace ==
    /\ session > 0 => Len(lines[session]) <= writer.seq
    /\ writer.prev # None => writer.prev <= writer.seq
    /\ session \in lost => Broken(lines[session], writer.seq, writer.prev)
    /\ \A s \in Sessions : s \in lost /\ summary[s] # None =>
           Broken(lines[s], summary[s].count, summary[s].digest)

\* Without a failed write the file is what the writer thinks it is.
Intact ==
    session > 0 /\ session \notin lost =>
        /\ \A k \in DOMAIN lines[session] : CheckEvent(session, k)
        /\ Len(lines[session]) = writer.seq
        /\ writer.prev = IF writer.seq = 0 THEN None ELSE writer.seq
        /\ writer.finalized = Cardinality(Finals(session))

\* Without any failure each finalized record is of an item of its own, whose row is
\* complete or about to be, and the last line of a run that is closed says how many.
Honest ==
    session > 0 /\ session \notin lost \cup spoiled =>
        /\ \A k \in Finals(session) :
               LET i == lines[session][k].item IN
               (row[i] = "complete" \/ pc[i] = "complete") /\ final[i]
        /\ \A j, k \in Finals(session) :
               lines[session][j].item = lines[session][k].item => j = k
        /\ phase = "closing" =>
               /\ lines[session] # <<>> /\ Last(lines[session]).type = "run_closed"
               /\ Last(lines[session]).complete = CompleteIn(runOf[session])

\* A row is completed after its record was written.
HasRecord(i) == \E s \in Sessions : Damaged(s) \/ \E k \in Finals(s) : lines[s][k].item = i
Recorded == \A i \in Items : row[i] = "complete" \/ pc[i] = "complete" => HasRecord(i)

Inv == /\ TypeOK /\ Threads /\ Ahead /\ Trace /\ Intact /\ Honest /\ Recorded
       /\ CleanSessionVerifies

-----------------------------------------------------------------------------

(* One call of event(): the file, and what it can still be verified for.   *)

\* Text that is appended becomes a line of its own, except after a torn line.
LEMMA ExtendedFile ==
    ASSUME NEW old \in Seq(Lines), NEW x \in Lines
    PROVE  /\ Extended(old, x) \in Seq(Lines) /\ Grown(old, Extended(old, x))
           /\ EndsTorn(old) => Unreadable(Extended(old, x))
           /\ ~EndsTorn(old) => /\ Len(Extended(old, x)) = Len(old) + 1
                                /\ Extended(old, x)[Len(old) + 1] = x
<1> DEFINE file == Extended(old, x)
<1>1. CASE ~EndsTorn(old)
  <2>1. file = Append(old, x)
    BY <1>1 DEF Extended
  <2> HIDE DEF file
  <2>2. Len(old) \in Nat
    BY LenProperties
  <2>3. /\ file \in Seq(Lines) /\ Len(file) = Len(old) + 1
        /\ \A k \in 1..Len(old) : file[k] = old[k]
        /\ file[Len(old) + 1] = x
    BY <2>1, AppendProperties
  <2>4. Grown(old, file)
    BY <2>2, <2>3 DEF Grown
  <2> QED
    BY <1>1, <2>3, <2>4 DEF file
<1>2. CASE EndsTorn(old)
  <2>1. /\ Len(old) \in Nat /\ Len(old) \in 1..Len(old) /\ old[Len(old)] = Torn
    BY <1>2, EmptySeq, LenProperties DEF EndsTorn, Last
  <2> DEFINE y == IF x = Torn THEN Torn ELSE Junk
  <2>2. y \in Lines /\ ~Readable(y)
    BY DEF Lines, Readable
  <2>3. file = [old EXCEPT ![Len(old)] = y]
    BY <1>2 DEF Extended, ReplaceAt
  <2> HIDE DEF y, file
  <2>4. /\ file \in Seq(Lines) /\ Len(file) = Len(old)
        /\ \A k \in 1..Len(old) : file[k] = IF k = Len(old) THEN y ELSE old[k]
    BY <2>1, <2>2, <2>3, ExceptSeq
  <2>5. ~Readable(old[Len(old)])
    BY <2>1 DEF Readable
  <2>6. Grown(old, file)
    BY <2>1, <2>2, <2>4, <2>5 DEF Grown
  <2>7. Unreadable(file)
    BY <2>1, <2>2, <2>4 DEF Unreadable
  <2> QED
    BY <1>2, <2>4, <2>6, <2>7 DEF file
<1> QED
  BY <1>1, <1>2

\* What a call of event() leaves in the file, by how its write went.
LEMMA AppendedFile ==
    ASSUME NEW old \in Seq(Lines), NEW r \in Records,
           NEW result \in Results("attempt_finished")
    PROVE  /\ Appended(old, r, result) \in Seq(Lines) /\ Grown(old, Appended(old, r, result))
           /\ result \in {"error", "refused"} => Appended(old, r, result) = old
           /\ result = "short" => Unreadable(Appended(old, r, result))
           /\ result \in {"ok", "unsynced"} =>
                  \/ Unreadable(old) /\ Unreadable(Appended(old, r, result))
                  \/ /\ Len(Appended(old, r, result)) = Len(old) + 1
                     /\ Appended(old, r, result)[Len(old) + 1] = r
<1> DEFINE file == Appended(old, r, result)
<1>1. /\ result \in {"error", "refused"} => file = old
      /\ result = "short" => file = Extended(old, Torn)
      /\ result \in {"ok", "unsynced"} => file = Extended(old, r)
  BY DEF Appended
<1>2. r \in Lines /\ Torn \in Lines /\ ~Readable(Torn)
  BY DEF Lines, Readable
<1>3. Len(old) \in Nat
  BY LenProperties
<1> HIDE DEF file
<1>4. CASE result \in {"error", "refused"}
  <2>1. Grown(old, old)
    BY <1>3 DEF Grown
  <2> QED
    BY <1>1, <1>4, <2>1 DEF file
<1>5. CASE result = "short"
  <2>1. file \in Seq(Lines) /\ Grown(old, file)
    BY <1>1, <1>2, <1>5, ExtendedFile
  <2>2. Unreadable(file)
    <3>1. CASE EndsTorn(old)
      BY <1>1, <1>2, <1>5, <3>1, ExtendedFile
    <3>2. CASE ~EndsTorn(old)
      <4>1. Len(file) = Len(old) + 1 /\ file[Len(old) + 1] = Torn
        BY <1>1, <1>2, <1>5, <3>2, ExtendedFile
      <4> QED
        BY <1>2, <1>3, <4>1 DEF Unreadable
    <3> QED
      BY <3>1, <3>2
  <2> QED
    BY <1>5, <2>1, <2>2 DEF file
<1>6. CASE result \in {"ok", "unsynced"}
  <2>1. file \in Seq(Lines) /\ Grown(old, file)
    BY <1>1, <1>2, <1>6, ExtendedFile
  <2>2. CASE EndsTorn(old)
    <3>1. Len(old) \in 1..Len(old) /\ ~Readable(old[Len(old)])
      BY <2>2, EmptySeq DEF EndsTorn, Last, Readable
    <3>2. Unreadable(old) /\ Unreadable(file)
      BY <1>1, <1>2, <1>6, <2>2, <3>1, ExtendedFile DEF Unreadable
    <3> QED
      BY <1>6, <2>1, <3>2 DEF file
  <2>3. CASE ~EndsTorn(old)
    <3>1. Len(file) = Len(old) + 1 /\ file[Len(old) + 1] = r
      BY <1>1, <1>2, <1>6, <2>3, ExtendedFile
    <3> QED
      BY <1>6, <2>1, <3>1 DEF file
  <2> QED
    BY <2>2, <2>3
<1> QED
  BY <1>4, <1>5, <1>6 DEF Results

\* The types of what one call leaves, and the session it is about.
LEMMA EventFacts ==
    ASSUME TypeOK, session > 0,
           NEW type \in EventTypes, NEW item \in Items \cup {None},
           NEW complete \in Nat \cup {None}, NEW result \in Results("attempt_finished"),
           Event(type, item, complete, result)
    PROVE  /\ Record(type, item, complete) \in Records
           /\ WellFormed(Record(type, item, complete))
           /\ session \in Sessions /\ lines[session] \in Seq(Lines)
           /\ lines' \in [Sessions -> Seq(Lines)] /\ WriterType'
           /\ lines'[session] =
                  Appended(lines[session], Record(type, item, complete), result)
           /\ \A s \in Sessions \ {session} : lines'[s] = lines[s]
           /\ faults' \in 0..MaxFaults /\ attempts' = attempts
           /\ lost' = IF result \in {"ok", "refused"} THEN lost ELSE lost \cup {session}
           /\ spoiled' = IF result = "refused" THEN spoiled \cup {session} ELSE spoiled
           /\ writer'.seq = IF result = "refused" THEN writer.seq ELSE writer.seq + 1
           /\ writer'.prev = IF result \in {"ok", "short"} THEN writer.seq + 1 ELSE writer.prev
           /\ writer'.finalized = IF result \in {"ok", "short"} /\ type = "finalized"
                                  THEN writer.finalized + 1 ELSE writer.finalized
<1> DEFINE r == Record(type, item, complete)
<1>1. /\ session \in Sessions /\ lines[session] \in Seq(Lines)
      /\ writer \in Writers /\ writer.finalized <= writer.seq
      /\ lines \in [Sessions -> Seq(Lines)]
  BY DEF TypeOK, ProcessType, FilesType, WriterType, Sessions
<1>2. writer.seq \in Nat /\ writer.finalized \in Nat /\ writer.prev \in Nat \cup {None}
  BY <1>1 DEF Writers
<1>3. /\ r \in Records /\ r.seq = writer.seq + 1 /\ r.type = type
  BY <1>2 DEF Record, Records
<1>4. /\ WellFormed(r) /\ writer' = Advanced(r, result)
      /\ lines' = [lines EXCEPT ![session] = Appended(lines[session], r, result)]
      /\ attempts' = attempts
      /\ lost' = IF result \in {"ok", "refused"} THEN lost ELSE lost \cup {session}
      /\ spoiled' = IF result = "refused" THEN spoiled \cup {session} ELSE spoiled
  BY DEF Event, Failing
<1>5. faults' \in 0..MaxFaults
  <2>1. faults \in 0..MaxFaults /\ MaxFaults \in Nat
    BY BoundsAssumption DEF TypeOK, ProcessType
  <2> QED
    BY <2>1 DEF Event
<1> HIDE DEF r
<1>6. /\ writer'.seq = IF result = "refused" THEN writer.seq ELSE writer.seq + 1
      /\ writer'.prev = IF result \in {"ok", "short"} THEN writer.seq + 1 ELSE writer.prev
      /\ writer'.finalized = IF result \in {"ok", "short"} /\ type = "finalized"
                             THEN writer.finalized + 1 ELSE writer.finalized
  BY <1>3, <1>4 DEF Advanced, Sequence, Returned, Counted
<1>7. WriterType'
  <2>1. writer' = [seq |-> writer'.seq, prev |-> writer'.prev, finalized |-> writer'.finalized]
    BY <1>4 DEF Advanced
  <2>2. /\ writer'.seq \in Nat /\ writer'.prev \in Nat \cup {None} /\ writer'.finalized \in Nat
        /\ writer'.finalized <= writer'.seq
    BY <1>1, <1>2, <1>6
  <2> QED
    BY <2>1, <2>2 DEF WriterType, Writers
<1>8. Appended(lines[session], r, result) \in Seq(Lines)
  BY <1>1, <1>3, AppendedFile
<1>9. /\ lines' \in [Sessions -> Seq(Lines)]
      /\ lines'[session] = Appended(lines[session], r, result)
      /\ \A s \in Sessions \ {session} : lines'[s] = lines[s]
  BY <1>1, <1>4, <1>8
<1> QED
  BY <1>1, <1>3, <1>4, <1>5, <1>6, <1>7, <1>9 DEF r

-----------------------------------------------------------------------------
(* What every call of event() keeps, whoever makes it.                     *)

\* What no longer verifies does not verify after more events; a write that fails or
\* falls short leaves a trace.
LEMMA EventTrace ==
    ASSUME Inv, session > 0, summary[session] = None,
           NEW type \in EventTypes, NEW item \in Items \cup {None},
           NEW complete \in Nat \cup {None}, NEW result \in Results("attempt_finished"),
           Event(type, item, complete, result), UNCHANGED <<session, summary>>
    PROVE  Trace'
<1> DEFINE r    == Record(type, item, complete)
           old  == lines[session]
           file == lines'[session]
<1>1. /\ r \in Records /\ session \in Sessions /\ old \in Seq(Lines)
      /\ file = Appended(old, r, result) /\ \A s \in Sessions \ {session} : lines'[s] = lines[s]
      /\ lost' = IF result \in {"ok", "refused"} THEN lost ELSE lost \cup {session}
      /\ writer'.seq = IF result = "refused" THEN writer.seq ELSE writer.seq + 1
      /\ writer'.prev = IF result \in {"ok", "short"} THEN writer.seq + 1 ELSE writer.prev
  <2>1. TypeOK
    BY DEF Inv
  <2> HIDE DEF r
  <2> QED
    BY <2>1, EventFacts DEF r
<1>2. r.seq = writer.seq + 1 /\ r.prev = writer.prev
  BY DEF Record
<1>3. /\ writer.seq \in Nat /\ writer.prev \in Nat \cup {None} /\ None \notin Nat
      /\ Len(old) <= writer.seq /\ (writer.prev # None => writer.prev <= writer.seq)
  BY NoneAssumption DEF Inv, TypeOK, WriterType, Writers, Trace
<1>4. /\ Len(old) \in Nat /\ (old # <<>> => Len(old) > 0)
      /\ (old = <<>> => Len(old) = 0)
  BY <1>1, LenProperties, EmptySeq
<1> HIDE DEF r, old
<1>5. /\ file \in Seq(Lines) /\ Grown(old, file)
      /\ result \in {"error", "refused"} => file = old
      /\ result = "short" => Unreadable(file)
      /\ result \in {"ok", "unsynced"} =>
             \/ Unreadable(old) /\ Unreadable(file)
             \/ Len(file) = Len(old) + 1 /\ file[Len(old) + 1] = r
  BY <1>1, AppendedFile
<1> HIDE DEF file
<1>6. Len(file) \in {Len(old), Len(old) + 1} /\ Len(file) \in Nat
  BY <1>4, <1>5 DEF Grown
<1>7. Len(file) <= writer'.seq
  BY <1>1, <1>3, <1>4, <1>5, <1>6
<1>8. writer'.prev # None => writer'.prev <= writer'.seq
  BY <1>1, <1>3
<1>9. ASSUME ~Unreadable(file)
      PROVE  \A k \in 1..Len(old) : file[k] = old[k]
  BY <1>4, <1>5, <1>6, <1>9 DEF Grown, Unreadable
<1>10. ASSUME Broken(old, writer.seq, writer.prev)
       PROVE  Broken(file, writer'.seq, writer'.prev)
  <2> SUFFICES ASSUME ~Unreadable(file) PROVE Broken(file, writer'.seq, writer'.prev)
    BY DEF Broken
  <2>1. ~Unreadable(old)
    BY <1>4, <1>5, <1>6 DEF Grown, Unreadable
  <2>2. CASE Len(old) < writer.seq
    BY <1>1, <1>3, <1>4, <1>5, <1>6, <2>2 DEF Broken
  <2>3. CASE ~Chained(old)
    <3>1. PICK k \in 2..Len(old) : old[k].prev # old[k - 1].seq
      BY <2>3 DEF Chained
    <3>2. /\ k \in 2..Len(file) /\ k \in 1..Len(old) /\ k - 1 \in 1..Len(old)
      BY <1>4, <1>6, <3>1
    <3>3. file[k].prev # file[k - 1].seq
      BY <1>9, <3>1, <3>2
    <3> QED
      BY <3>2, <3>3 DEF Broken, Chained
  <2>4. CASE old # <<>> /\ Last(old).seq # writer.prev
    <3>1. Len(old) \in 1..Len(old) /\ old[Len(old)].seq # writer.prev
      BY <1>4, <2>4 DEF Last
    <3>2. CASE result \in {"error", "refused"}
      BY <1>1, <1>5, <2>4, <3>2 DEF Broken
    <3>3. CASE result \in {"ok", "unsynced"}
      <4>1. Len(file) = Len(old) + 1 /\ file[Len(old) + 1].prev = writer.prev
        BY <1>2, <1>5, <2>1, <3>3
      <4>2. file[Len(old)].seq # writer.prev
        BY <1>9, <3>1
      <4>3. Len(old) + 1 \in 2..Len(file) /\ (Len(old) + 1) - 1 = Len(old)
        BY <1>4, <3>1, <4>1
      <4> QED
        BY <4>1, <4>2, <4>3 DEF Broken, Chained
    <3> QED
      BY <1>5, <3>2, <3>3 DEF Results
  <2> QED
    BY <1>10, <2>1, <2>2, <2>3, <2>4 DEF Broken
<1>11. ASSUME session \in lost' PROVE Broken(file, writer'.seq, writer'.prev)
  <2>1. CASE session \in lost
    BY <1>10, <2>1 DEF Inv, Trace, old
  <2>2. CASE result = "short"
    BY <1>5, <2>2 DEF Broken
  <2>3. CASE result = "error"
    BY <1>1, <1>3, <1>4, <1>5, <2>3 DEF Broken
  <2>4. CASE result = "unsynced"
    <3> SUFFICES ASSUME ~Unreadable(file) PROVE Broken(file, writer'.seq, writer'.prev)
      BY DEF Broken
    <3>1. Len(file) = Len(old) + 1 /\ file[Len(file)].seq = writer.seq + 1
      BY <1>2, <1>5, <2>4
    <3>2. writer'.prev # writer.seq + 1
      BY <1>1, <1>3, <2>4
    <3>3. file # <<>>
      BY <1>4, <3>1
    <3> QED
      BY <3>1, <3>2, <3>3 DEF Broken, Last
  <2> QED
    BY <1>1, <1>11, <2>1, <2>2, <2>3, <2>4 DEF Results
<1>12. ASSUME NEW s \in Sessions, s \in lost', summary[s] # None
       PROVE  Broken(lines'[s], summary[s].count, summary[s].digest)
  <2>1. s # session /\ s \in lost /\ lines'[s] = lines[s]
    BY <1>1, <1>12
  <2> QED
    BY <1>12, <2>1 DEF Inv, Trace
<1> QED
  BY <1>7, <1>8, <1>11, <1>12 DEF Trace, file

\* Without a failed write the file stays what the writer thinks it is.
LEMMA EventIntact ==
    ASSUME Inv, session > 0,
           NEW type \in EventTypes, NEW item \in Items \cup {None},
           NEW complete \in Nat \cup {None}, NEW result \in Results("attempt_finished"),
           Event(type, item, complete, result), UNCHANGED session
    PROVE  /\ Intact'
           /\ session \notin lost' /\ result # "refused" =>
                 /\ Len(lines'[session]) = Len(lines[session]) + 1
                 /\ lines'[session][Len(lines[session]) + 1] = Record(type, item, complete)
                 /\ Finals(session)' = Finals(session) \cup
                        (IF type = "finalized" THEN {Len(lines[session]) + 1} ELSE {})
<1> SUFFICES ASSUME session \notin lost'
             PROVE  /\ \A k \in DOMAIN lines'[session] : CheckEvent(session, k)'
                    /\ Len(lines'[session]) = writer'.seq
                    /\ writer'.prev = IF writer'.seq = 0 THEN None ELSE writer'.seq
                    /\ writer'.finalized = Cardinality(Finals(session)')
                    /\ result # "refused" =>
                         /\ Len(lines'[session]) = Len(lines[session]) + 1
                         /\ lines'[session][Len(lines[session]) + 1] = Record(type, item, complete)
                         /\ Finals(session)' = Finals(session) \cup
                                (IF type = "finalized" THEN {Len(lines[session]) + 1} ELSE {})
  BY DEF Intact
<1> DEFINE r    == Record(type, item, complete)
           old  == lines[session]
           file == lines'[session]
<1>1. /\ r \in Records /\ WellFormed(r) /\ session \in Sessions /\ old \in Seq(Lines)
      /\ file = Appended(old, r, result)
      /\ lost' = IF result \in {"ok", "refused"} THEN lost ELSE lost \cup {session}
      /\ writer'.seq = IF result = "refused" THEN writer.seq ELSE writer.seq + 1
      /\ writer'.prev = IF result \in {"ok", "short"} THEN writer.seq + 1 ELSE writer.prev
      /\ writer'.finalized = IF result \in {"ok", "short"} /\ type = "finalized"
                             THEN writer.finalized + 1 ELSE writer.finalized
  BY EventFacts DEF Inv
<1>2. result \in {"ok", "refused"} /\ session \notin lost
  BY <1>1
<1>3. /\ \A k \in DOMAIN old : CheckEvent(session, k)
      /\ Len(old) = writer.seq /\ writer.prev = IF writer.seq = 0 THEN None ELSE writer.seq
      /\ writer.finalized = Cardinality(Finals(session))
  BY <1>2 DEF Inv, Intact
<1>4. r.seq = writer.seq + 1 /\ r.prev = writer.prev /\ r.type = type
  BY DEF Record
<1>5. /\ Len(old) \in Nat /\ DOMAIN old = 1..Len(old)
      /\ writer.seq \in Nat
  BY <1>1, LenProperties DEF Inv, TypeOK, WriterType, Writers
<1> HIDE DEF r
<1>6. \A k \in 1..Len(old) : /\ Readable(old[k]) /\ WellFormed(old[k]) /\ old[k].seq = k
                             /\ old[k].prev = IF k = 1 THEN None ELSE old[k - 1].seq
  BY <1>3, <1>5 DEF CheckEvent
<1>7. Finals(session) = {k \in 1..Len(old) : old[k].type = "finalized"}
  BY <1>5, <1>6 DEF Finals
<1>8. CASE result = "refused"
  <2>1. file = old
    BY <1>1, <1>8, AppendedFile
  <2>2. Finals(session)' = Finals(session)
    BY <2>1 DEF Finals
  <2>3. \A k \in DOMAIN old : CheckEvent(session, k)'
    BY <1>3, <2>1 DEF CheckEvent
  <2> QED
    BY <1>1, <1>3, <1>8, <2>1, <2>2, <2>3
<1>9. CASE result = "ok"
  <2>1. /\ Grown(old, file) /\ file \in Seq(Lines)
        /\ Len(file) = Len(old) + 1 /\ file[Len(old) + 1] = r
    <3> HIDE DEF old
    <3>1. ~Unreadable(old)
      BY <1>6 DEF Unreadable
    <3>2. result \in Results("attempt_finished") /\ file = Appended(old, r, result)
      BY <1>1
    <3> HIDE DEF file
    <3> QED
      BY <1>1, <1>9, <3>1, <3>2, AppendedFile
  <2> HIDE DEF file
  <2>2. \A k \in 1..Len(old) : file[k] = old[k]
    BY <1>6, <2>1 DEF Grown
  <2>3. DOMAIN file = 1..Len(old) + 1
    BY <2>1, LenProperties
  <2>4. Readable(r)
    BY <1>1, NoneAssumption DEF Readable
  <2>5. \A k \in DOMAIN file : CheckEvent(session, k)'
    <3> SUFFICES ASSUME NEW k \in DOMAIN file
                 PROVE  /\ Readable(file[k]) /\ WellFormed(file[k]) /\ file[k].seq = k
                        /\ file[k].prev = IF k = 1 THEN None ELSE file[k - 1].seq
      BY DEF CheckEvent, file
    <3>1. CASE k \in 1..Len(old)
      <4>1. k # 1 => k - 1 \in 1..Len(old)
        BY <1>5, <3>1
      <4> QED
        BY <1>6, <2>2, <3>1, <4>1
    <3>2. CASE k = Len(old) + 1
      <4>1. Len(old) # 0 => /\ Len(old) \in 1..Len(old) /\ (Len(old) + 1) - 1 = Len(old)
                            /\ file[Len(old)].seq = Len(old)
        BY <1>5, <1>6, <2>2
      <4> QED
        BY <1>1, <1>3, <1>4, <1>5, <2>1, <2>4, <3>2, <4>1
    <3> QED
      BY <1>5, <2>3, <3>1, <3>2
  <2>6. Finals(session)' = Finals(session) \cup
            (IF type = "finalized" THEN {Len(old) + 1} ELSE {})
    <3>1. \A k \in DOMAIN file : Readable(file[k])
      BY <1>5, <1>6, <2>1, <2>2, <2>3, <2>4
    <3>2. Finals(session)' = {k \in 1..Len(old) + 1 : file[k].type = "finalized"}
      BY <2>3, <3>1 DEF Finals, file
    <3> QED
      BY <1>4, <1>5, <1>7, <2>1, <2>2, <3>2
  <2>7. writer'.finalized = Cardinality(Finals(session)')
    <3>1. IsFiniteSet(Finals(session))
      <4>1. IsFiniteSet(1..Len(old))
        BY <1>5, FS_Interval
      <4>2. Finals(session) \in SUBSET (1..Len(old))
        BY <1>7
      <4> QED
        BY <4>1, <4>2, FS_Subset
    <3>2. Len(old) + 1 \notin Finals(session)
      BY <1>5, <1>7
    <3>3. Cardinality(Finals(session) \cup {Len(old) + 1}) = Cardinality(Finals(session)) + 1
      <4> HIDE DEF old
      <4> QED
        BY <3>1, <3>2, FS_AddElement
    <3>4. CASE type = "finalized"
      BY <1>1, <1>3, <1>9, <2>6, <3>3, <3>4
    <3>5. CASE type # "finalized"
      <4>1. Finals(session)' = Finals(session)
        BY <2>6, <3>5
      <4> QED
        BY <1>1, <1>3, <3>5, <4>1
    <3> QED
      BY <3>4, <3>5
  <2> QED
    BY <1>1, <1>3, <1>5, <1>9, <2>1, <2>5, <2>6, <2>7 DEF r, file
<1> QED
  BY <1>2, <1>8, <1>9

\* A record that can be read is not lost, and a finalized record is there, or its file
\* is damaged, once the call has returned.
LEMMA EventRecords ==
    ASSUME Inv, session > 0,
           NEW type \in EventTypes, NEW item \in Items \cup {None},
           NEW complete \in Nat \cup {None}, NEW result \in Results("attempt_finished"),
           Event(type, item, complete, result), UNCHANGED session
    PROVE  /\ \A i \in Items : HasRecord(i) => HasRecord(i)'
           /\ type = "finalized" /\ Returned(result) => HasRecord(item)'
<1> DEFINE r    == Record(type, item, complete)
           old  == lines[session]
           file == lines'[session]
<1>1. /\ r \in Records /\ session \in Sessions /\ old \in Seq(Lines)
      /\ file = Appended(old, r, result) /\ \A s \in Sessions \ {session} : lines'[s] = lines[s]
  <2>1. TypeOK
    BY DEF Inv
  <2> HIDE DEF r
  <2> QED
    BY <2>1, EventFacts DEF r
<1>2. r.type = type /\ r.item = item
  BY DEF Record
<1> HIDE DEF r
<1>3. /\ file \in Seq(Lines) /\ Grown(old, file)
      /\ result = "short" => Unreadable(file)
      /\ result = "ok" => \/ Unreadable(old) /\ Unreadable(file)
                          \/ Len(file) = Len(old) + 1 /\ file[Len(old) + 1] = r
  <2> HIDE DEF old, file
  <2> QED
    BY <1>1, AppendedFile
<1>4. /\ DOMAIN old = 1..Len(old) /\ Len(old) \in Nat
      /\ DOMAIN file = 1..Len(file) /\ Len(file) \in Nat
  <2> HIDE DEF old, file
  <2> QED
    BY <1>1, <1>3, LenProperties
<1>5. DOMAIN old \subseteq DOMAIN file
  <2> HIDE DEF old, file
  <2>1. Len(file) \in {Len(old), Len(old) + 1}
    BY <1>3 DEF Grown
  <2>2. Len(old) \in Nat
    BY <1>4
  <2> DEFINE m == Len(old)
             n == Len(file)
  <2>3. m \in Nat /\ n \in {m, m + 1}
    BY <2>1, <2>2
  <2> HIDE DEF m, n
  <2>4. 1..m \subseteq 1..n
    BY <2>3
  <2> QED
    BY <1>4, <2>4 DEF m, n
<1>6. Unreadable(file) => Damaged(session)'
  BY <1>4 DEF Unreadable, Damaged
<1>7. ASSUME NEW i \in Items, HasRecord(i) PROVE HasRecord(i)'
  <2>1. PICK s \in Sessions : Damaged(s) \/ \E k \in Finals(s) : lines[s][k].item = i
    BY <1>7 DEF HasRecord
  <2>2. CASE s # session
    BY <1>1, <2>1, <2>2 DEF HasRecord, Damaged, Finals
  <2>3. CASE s = session /\ Damaged(s)
    <3>1. PICK k \in DOMAIN old : ~Readable(old[k])
      BY <2>3 DEF Damaged
    <3>2. k \in DOMAIN file /\ ~Readable(file[k])
      BY <1>3, <1>4, <1>5, <3>1 DEF Grown
    <3> QED
      BY <1>1, <3>2 DEF HasRecord, Damaged
  <2>4. CASE s = session /\ \E k \in Finals(s) : lines[s][k].item = i
    <3>1. PICK k \in DOMAIN old :
              Readable(old[k]) /\ old[k].type = "finalized" /\ old[k].item = i
      BY <2>4 DEF Finals
    <3>2. k \in DOMAIN file /\ file[k] = old[k]
      BY <1>3, <1>4, <1>5, <3>1 DEF Grown
    <3>3. k \in Finals(session)' /\ lines'[session][k].item = i
      BY <3>1, <3>2 DEF Finals
    <3> QED
      BY <1>1, <3>3 DEF HasRecord
  <2> QED
    BY <2>1, <2>2, <2>3, <2>4
<1>8. ASSUME type = "finalized", Returned(result) PROVE HasRecord(item)'
  <2>1. CASE Unreadable(file)
    BY <1>1, <1>6, <2>1 DEF HasRecord
  <2>2. CASE ~Unreadable(file)
    <3>1. Len(file) = Len(old) + 1 /\ file[Len(old) + 1] = r
      BY <1>3, <1>8, <2>2 DEF Returned
    <3>2. Len(old) + 1 \in DOMAIN file /\ Readable(r)
      BY <1>1, <1>4, <3>1, NoneAssumption DEF Readable
    <3>3. Len(old) + 1 \in Finals(session)' /\ lines'[session][Len(old) + 1].item = item
      BY <1>2, <1>8, <3>1, <3>2 DEF Finals
    <3> QED
      BY <1>1, <3>3 DEF HasRecord
  <2> QED
    BY <2>1, <2>2
<1> QED
  BY <1>7, <1>8

\* Finalized records stay honest, if a new one is of an item that had none and is about
\* to be complete, and the run is closed by nothing but the line that says how many are.
LEMMA EventHonest ==
    ASSUME Inv, session > 0,
           NEW type \in EventTypes, NEW item \in Items \cup {None},
           NEW complete \in Nat \cup {None}, NEW result \in Results("attempt_finished"),
           Event(type, item, complete, result), UNCHANGED session,
           \A i \in Items : final[i] => final'[i],
           \A i \in Items : row[i] = "complete" \/ pc[i] = "complete" =>
                                \/ row'[i] = "complete" \/ pc'[i] = "complete"
                                \/ session \in spoiled',
           type = "finalized" => /\ row[item] # "complete" /\ pc[item] # "complete" /\ final'[item]
                                 /\ Returned(result) => pc'[item] = "complete",
           phase' = "closing" => type = "run_closed" /\ complete = CompleteIn(runOf[session])'
    PROVE  Honest'
<1> SUFFICES ASSUME session \notin lost', session \notin spoiled'
             PROVE  /\ \A k \in Finals(session)' :
                           LET i == lines'[session][k].item IN
                           (row'[i] = "complete" \/ pc'[i] = "complete") /\ final'[i]
                    /\ \A j, k \in Finals(session)' :
                           lines'[session][j].item = lines'[session][k].item => j = k
                    /\ phase' = "closing" =>
                           /\ lines'[session] # <<>> /\ Last(lines'[session]).type = "run_closed"
                           /\ Last(lines'[session]).complete = CompleteIn(runOf[session])'
  BY DEF Honest
<1> DEFINE r    == Record(type, item, complete)
           old  == lines[session]
           file == lines'[session]
           new  == Len(old) + 1
<1>1. /\ r \in Records /\ WellFormed(r) /\ session \in Sessions /\ old \in Seq(Lines)
      /\ lines' \in [Sessions -> Seq(Lines)] /\ file = Appended(old, r, result)
      /\ lost' = (IF result \in {"ok", "refused"} THEN lost ELSE lost \cup {session})
      /\ spoiled' = (IF result = "refused" THEN spoiled \cup {session} ELSE spoiled)
  <2>1. TypeOK
    BY DEF Inv
  <2> HIDE DEF r
  <2> QED
    BY <2>1, EventFacts DEF r
<1>2. result = "ok" /\ session \notin lost /\ session \notin spoiled
  BY <1>1 DEF Results
<1>3. r.type = type /\ r.item = item /\ r.complete = complete
  BY DEF Record
<1>4. /\ Len(file) = new /\ file[new] = r
      /\ Finals(session)' = Finals(session) \cup (IF type = "finalized" THEN {new} ELSE {})
  BY <1>2, EventIntact
<1> HIDE DEF r
<1>5. /\ DOMAIN old = 1..Len(old) /\ Len(old) \in Nat
      /\ Finals(session) \subseteq DOMAIN old /\ new \notin Finals(session)
  <2>1. DOMAIN old = 1..Len(old) /\ Len(old) \in Nat
    BY <1>1, LenProperties
  <2> QED
    BY <2>1 DEF Finals
<1>6. \A k \in Finals(session) : file[k] = old[k]
  <2>1. Grown(old, file)
    BY <1>1, AppendedFile
  <2> QED
    BY <1>5, <2>1 DEF Grown, Finals
<1>7. \A k \in Finals(session) :
          /\ old[k].item \in Items
          /\ row[old[k].item] = "complete" \/ pc[old[k].item] = "complete"
          /\ final[old[k].item]
  <2> SUFFICES ASSUME NEW k \in Finals(session) PROVE old[k].item \in Items
    BY <1>2 DEF Inv, Honest
  <2>1. CheckEvent(session, k) /\ old[k] \in Records /\ old[k].type = "finalized"
    <3>1. k \in DOMAIN old /\ Readable(old[k]) /\ old[k].type = "finalized"
      BY DEF Finals
    <3>2. old[k] \in Lines
      BY <1>1, <1>5, <3>1, ElementOfSeq
    <3> QED
      BY <1>2, <3>1, <3>2 DEF Inv, Intact, Lines, Readable
  <2> QED
    BY <2>1 DEF CheckEvent, WellFormed, Records, ItemEvents
<1>8. type = "finalized" => item \in Items
  BY <1>1, <1>3 DEF WellFormed, ItemEvents
<1> HIDE DEF old, file, new
<1>9. ASSUME NEW k \in Finals(session)'
      PROVE  (row'[file[k].item] = "complete" \/ pc'[file[k].item] = "complete") /\ final'[file[k].item]
  <2>1. CASE k \in Finals(session)
    BY <1>6, <1>7, <2>1
  <2>2. CASE type = "finalized" /\ k = new
    BY <1>2, <1>3, <1>4, <1>8, <2>2 DEF Returned
  <2> QED
    BY <1>4, <2>1, <2>2
<1>10. ASSUME NEW j \in Finals(session)', NEW k \in Finals(session)', file[j].item = file[k].item
       PROVE  j = k
  <2>1. CASE j \in Finals(session) /\ k \in Finals(session)
    BY <1>2, <1>6, <1>10, <2>1 DEF Inv, Honest, old
  <2>2. CASE type = "finalized" /\ (j = new \/ k = new)
    BY <1>3, <1>4, <1>5, <1>6, <1>7, <1>10, <2>2
  <2> QED
    BY <1>4, <2>1, <2>2
<1>11. ASSUME phase' = "closing"
       PROVE  /\ file # <<>> /\ Last(file).type = "run_closed"
              /\ Last(file).complete = CompleteIn(runOf[session])'
  <2>1. file # <<>>
    <3>1. new # 0
      BY <1>5 DEF new
    <3> QED
      BY <1>4, <3>1
  <2> QED
    BY <1>3, <1>4, <1>11, <2>1 DEF Last
<1> QED
  BY <1>9, <1>10, <1>11 DEF file

-----------------------------------------------------------------------------
(* Frames: what a step keeps of a session it does not write.               *)

\* The verdict on a signed session stays, whatever is written to others and linked.
LEMMA VerdictStays ==
    ASSUME Inv, lost \subseteq lost', spoiled \subseteq spoiled',
           \A i \in Items : final[i] => final'[i], NEW s \in Sessions,
           summary'[s] # None =>
               summary'[s] = summary[s] /\ lines'[s] = lines[s] /\ runOf'[s] = runOf[s],
           \A r \in Runs : scope[r] # None => scope'[r] = scope[r]
    PROVE  summary'[s] # None /\ s \notin lost' \cup spoiled' /\ Own(s)' => Verify(s)'
<1> SUFFICES ASSUME summary'[s] # None, s \notin lost' \cup spoiled', Own(s)'
             PROVE  Verify(s)'
  OBVIOUS
<1>1. /\ summary'[s] = summary[s] /\ lines'[s] = lines[s] /\ runOf'[s] = runOf[s]
      /\ summary[s] # None /\ s \notin lost \cup spoiled
  OBVIOUS
<1>2. Finals(s)' = Finals(s)
  BY <1>1 DEF Finals
<1>3. scope'[runOf[s]] = scope[runOf[s]]
  BY <1>1 DEF Inv, Ahead
<1>4. Own(s)
  BY <1>1, <1>2, <1>3 DEF Own
<1>5. Verify(s)
  BY <1>1, <1>4 DEF Inv, CleanSessionVerifies
<1>6. \A k \in Finals(s) : lines[s][k].item \in Items
  <2> SUFFICES ASSUME NEW k \in Finals(s) PROVE lines[s][k].item \in Items
    OBVIOUS
  <2>1. k \in DOMAIN lines[s] /\ Readable(lines[s][k]) /\ lines[s][k].type = "finalized"
    BY DEF Finals
  <2>2. lines[s] \in Seq(Lines)
    BY DEF Inv, TypeOK, FilesType
  <2>3. lines[s][k] \in Lines
    BY <2>1, <2>2, LenProperties, ElementOfSeq
  <2>4. lines[s][k] \in Records /\ WellFormed(lines[s][k])
    BY <1>5, <2>1, <2>3 DEF Lines, Readable, Verify, CheckEvent
  <2> QED
    BY <2>1, <2>4 DEF Records, WellFormed, ItemEvents
<1>7. \A k \in DOMAIN lines[s] : CheckEvent(s, k)'
  BY <1>1, <1>5 DEF Verify, CheckEvent
<1>8. \A k \in Finals(s) : final'[lines[s][k].item]
  BY <1>5, <1>6 DEF Verify
<1> QED
  BY <1>1, <1>2, <1>5, <1>7, <1>8 DEF Verify
\* So do the verdicts on all, while no session is signed.
LEMMA CleanStays ==
    ASSUME Inv, lost \subseteq lost', spoiled \subseteq spoiled',
           \A i \in Items : final[i] => final'[i],
           \A s \in Sessions : summary'[s] # None =>
               summary'[s] = summary[s] /\ lines'[s] = lines[s] /\ runOf'[s] = runOf[s],
           \A r \in Runs : scope[r] # None => scope'[r] = scope[r]
    PROVE  CleanSessionVerifies'
BY VerdictStays DEF CleanSessionVerifies

\* Without an event the trace of failures, the writer's view and the records stay.
LEMMA QuietFiles ==
    ASSUME Inv, UNCHANGED <<session, lines, writer, summary, lost>>
    PROVE  /\ Trace' /\ Intact' /\ FilesType' /\ WriterType'
           /\ \A i \in Items : HasRecord(i) => HasRecord(i)'
<1>1. /\ session' = session /\ lines' = lines /\ writer' = writer /\ summary' = summary
      /\ lost' = lost
  OBVIOUS
<1>2. Finals(session)' = Finals(session)
  BY <1>1 DEF Finals
<1>3. Trace'
  BY <1>1 DEF Inv, Trace
<1>4. Intact'
  <2>1. \A k \in DOMAIN lines[session] : CheckEvent(session, k) => CheckEvent(session, k)'
    BY <1>1 DEF CheckEvent
  <2> QED
    BY <1>1, <1>2, <2>1 DEF Inv, Intact
<1>5. FilesType' /\ WriterType'
  BY <1>1 DEF Inv, TypeOK, FilesType, WriterType
<1>6. \A i \in Items : HasRecord(i) => HasRecord(i)'
  BY <1>1 DEF HasRecord, Damaged, Finals
<1> QED
  BY <1>3, <1>4, <1>5, <1>6

\* Without an event finalized records stay honest, while rows that are complete or
\* about to be stay so and the run is not closed just now.
LEMMA QuietHonest ==
    ASSUME Inv, UNCHANGED <<session, lines, lost, runOf>>, spoiled \subseteq spoiled',
           \A i \in Items : final[i] => final'[i],
           \A i \in Items : row[i] = "complete" \/ pc[i] = "complete" =>
                                \/ row'[i] = "complete" \/ pc'[i] = "complete"
                                \/ session \in spoiled',
           phase' = "closing" => phase = "closing" /\ UNCHANGED <<row, scope>>
    PROVE  Honest'
<1>1. session' = session /\ lines' = lines /\ lost' = lost /\ runOf' = runOf
  OBVIOUS
<1> SUFFICES ASSUME session > 0, session \notin lost, session \notin spoiled'
             PROVE  /\ \A k \in Finals(session) :
                           LET i == lines[session][k].item IN
                           (row'[i] = "complete" \/ pc'[i] = "complete") /\ final'[i]
                    /\ \A j, k \in Finals(session) :
                           lines[session][j].item = lines[session][k].item => j = k
                    /\ phase' = "closing" =>
                           /\ lines[session] # <<>> /\ Last(lines[session]).type = "run_closed"
                           /\ Last(lines[session]).complete = CompleteIn(runOf[session])'
  <2>1. Finals(session)' = Finals(session)
    BY <1>1 DEF Finals
  <2> QED
    BY <1>1, <2>1 DEF Honest
<1>2. session \notin spoiled /\ session \in Sessions
  BY DEF Inv, TypeOK, ProcessType, Sessions
<1>3. \A k \in Finals(session) : lines[session][k].item \in Items
  <2> SUFFICES ASSUME NEW k \in Finals(session) PROVE lines[session][k].item \in Items
    OBVIOUS
  <2>1. k \in DOMAIN lines[session] /\ Readable(lines[session][k])
        /\ lines[session][k].type = "finalized"
    BY DEF Finals
  <2>2. lines[session] \in Seq(Lines)
    BY <1>2 DEF Inv, TypeOK, FilesType
  <2>3. lines[session][k] \in Lines
    BY <2>1, <2>2, LenProperties, ElementOfSeq
  <2>4. lines[session][k] \in Records /\ WellFormed(lines[session][k])
    BY <2>1, <2>3 DEF Lines, Readable, Inv, Intact, CheckEvent
  <2> QED
    BY <2>1, <2>4 DEF Records, WellFormed, ItemEvents
<1>4. \A k \in Finals(session) :
          LET i == lines[session][k].item IN
          (row[i] = "complete" \/ pc[i] = "complete") /\ final[i]
  BY <1>2 DEF Inv, Honest
<1>5. \A j, k \in Finals(session) : lines[session][j].item = lines[session][k].item => j = k
  BY <1>2 DEF Inv, Honest
<1>6. ASSUME phase' = "closing"
      PROVE  /\ lines[session] # <<>> /\ Last(lines[session]).type = "run_closed"
             /\ Last(lines[session]).complete = CompleteIn(runOf[session])'
  <2>1. CompleteIn(runOf[session])' = CompleteIn(runOf[session])
    BY <1>1, <1>6 DEF CompleteIn
  <2> QED
    BY <1>2, <1>6, <2>1 DEF Inv, Honest
<1> QED
  BY <1>3, <1>4, <1>5, <1>6

\* A step of the thread of one item, in a run that is neither closed nor down.
ItemStep(i) ==
    /\ UNCHANGED <<session, runOf, summary, scope>>
    /\ row' \in [Items -> States] /\ pc' \in [Items -> Steps] /\ final' \in [Items -> BOOLEAN]
    /\ \A j \in Items \ {i} : row'[j] = row[j] /\ pc'[j] = pc[j] /\ final'[j] = final[j]
    /\ phase \in {"starting", "running"}
    /\ phase' = phase \/ (phase = "starting" /\ phase' = "down" /\ pc'[i] = "idle")
    /\ phase = "starting" => /\ \A j \in Items \ {i} : pc[j] = "idle"
                             /\ pc'[i] \in {"idle", "complete", "failed"}
                             /\ pc'[i] # "idle" => row'[i] = "promoting"
    /\ pc'[i] # "idle" => row'[i] # "complete"
    /\ pc'[i] \in {"finalize", "complete"} => final'[i]
    /\ final[i] => final'[i]
    /\ row[i] = "complete" \/ pc[i] = "complete" =>
           row'[i] = "complete" \/ pc'[i] = "complete" \/ session \in spoiled'

\* Such a step keeps the threads, the sessions and the rows in order.
LEMMA ItemStepKeeps ==
    ASSUME Inv, NEW i \in Items, ItemStep(i),
           lost' \subseteq lost \cup {session}, spoiled' \subseteq spoiled \cup {session},
           \A s \in Sessions \ {session} : lines'[s] = lines[s]
    PROVE  /\ Threads' /\ Ahead' /\ RowsType'
           /\ session > 0 /\ session \in Sessions /\ summary[session] = None
           /\ phase' \in Phases /\ phase' # "closing"
           /\ \A j \in Items : final[j] => final'[j]
           /\ \A j \in Items : row[j] = "complete" \/ pc[j] = "complete" =>
                                   \/ row'[j] = "complete" \/ pc'[j] = "complete"
                                   \/ session \in spoiled'
<1>1. /\ session' = session /\ runOf' = runOf /\ summary' = summary /\ scope' = scope
  BY DEF ItemStep
<1>2. session > 0 /\ session \in Sessions
  BY DEF Inv, TypeOK, ProcessType, ItemStep, Sessions
<1>3. phase' \in {phase, "down"} /\ phase \in {"starting", "running"}
  BY DEF ItemStep
<1>4. Threads'
  <2>1. phase' \in {"down", "closing", "sealed"} => Joined'
    BY DEF ItemStep, Joined
  <2>2. phase' = "starting" =>
           /\ \A j, k \in Items : pc'[j] # "idle" /\ pc'[k] # "idle" => j = k
           /\ \A j \in Items : /\ pc'[j] \in {"idle", "complete", "failed"}
                               /\ pc'[j] # "idle" => row'[j] = "promoting"
    BY DEF ItemStep
  <2>3. \A j \in Items : /\ pc'[j] # "idle" => row'[j] # "complete"
                         /\ pc'[j] \in {"finalize", "complete"} => final'[j]
    BY DEF ItemStep, Inv, Threads
  <2> QED
    BY <2>1, <2>2, <2>3 DEF Threads
<1>5. Ahead'
  <2>1. \A s \in Sessions : s > session =>
            lines'[s] = <<>> /\ summary[s] = None /\ s \notin lost' /\ s \notin spoiled'
    <3> SUFFICES ASSUME NEW s \in Sessions, s > session
                 PROVE  lines'[s] = <<>> /\ summary[s] = None /\ s \notin lost' /\ s \notin spoiled'
      OBVIOUS
    <3>1. s # session
      BY <1>2 DEF Sessions
    <3> QED
      BY <3>1 DEF Inv, Ahead
  <2> QED
    BY <1>1, <1>3, <2>1 DEF Inv, Ahead
<1>6. RowsType'
  BY <1>1 DEF ItemStep, Inv, TypeOK, RowsType
<1>7. summary[session] = None
  BY <1>3 DEF Inv, Ahead
<1>8. phase' \in Phases /\ phase' # "closing"
  BY <1>3 DEF Phases
<1>9. /\ \A j \in Items : final[j] => final'[j]
      /\ \A j \in Items : row[j] = "complete" \/ pc[j] = "complete" =>
                              \/ row'[j] = "complete" \/ pc'[j] = "complete"
                              \/ session \in spoiled'
  BY DEF ItemStep
<1> QED
  BY <1>2, <1>4, <1>5, <1>6, <1>7, <1>8, <1>9

\* A step of a thread that writes no event.
LEMMA ThreadQuiet ==
    ASSUME Inv, NEW i \in Items, ItemStep(i), UNCHANGED <<lines, writer, lost>>,
           spoiled' \in {spoiled, spoiled \cup {session}}, stopping' \in BOOLEAN,
           attempts' \in 0..MaxAttempts, faults' \in 0..MaxFaults,
           row'[i] = "complete" \/ pc'[i] = "complete" =>
               row[i] = "complete" \/ pc[i] = "complete"
    PROVE  Inv'
<1>1. /\ session' = session /\ runOf' = runOf /\ summary' = summary /\ scope' = scope
      /\ lines' = lines /\ writer' = writer /\ lost' = lost
  BY DEF ItemStep
<1>2. lost' \subseteq lost \cup {session} /\ spoiled' \subseteq spoiled \cup {session}
      /\ spoiled \subseteq spoiled' /\ lost \subseteq lost'
  BY <1>1
<1>3. /\ Threads' /\ Ahead' /\ RowsType' /\ session > 0 /\ session \in Sessions
      /\ phase' \in Phases /\ phase' # "closing"
      /\ \A j \in Items : final[j] => final'[j]
      /\ \A j \in Items : row[j] = "complete" \/ pc[j] = "complete" =>
                              \/ row'[j] = "complete" \/ pc'[j] = "complete"
                              \/ session \in spoiled'
  BY <1>1, <1>2, ItemStepKeeps
<1>4. /\ Trace' /\ Intact' /\ FilesType' /\ WriterType'
      /\ \A j \in Items : HasRecord(j) => HasRecord(j)'
  BY <1>1, QuietFiles
<1>5. Honest'
  BY <1>1, <1>2, <1>3, QuietHonest
<1>6. CleanSessionVerifies'
  BY <1>1, <1>2, <1>3, CleanStays
<1>7. Recorded'
  <2> SUFFICES ASSUME NEW j \in Items, row'[j] = "complete" \/ pc'[j] = "complete"
               PROVE  HasRecord(j)'
    BY DEF Recorded
  <2>1. row[j] = "complete" \/ pc[j] = "complete"
    BY DEF ItemStep
  <2> QED
    BY <1>4, <2>1 DEF Inv, Recorded
<1>8. ProcessType'
  BY <1>1, <1>2, <1>3 DEF Inv, TypeOK, ProcessType
<1> QED
  BY <1>3, <1>4, <1>5, <1>6, <1>7, <1>8 DEF Inv, TypeOK

\* A step of a thread that writes one: a finalized record is of the thread's own item,
\* which goes on to complete its row if the call returned.
LEMMA ThreadEvent ==
    ASSUME Inv, NEW i \in Items, ItemStep(i), stopping' \in BOOLEAN,
           NEW type \in EventTypes, NEW item \in Items \cup {None},
           NEW complete \in Nat \cup {None}, NEW result \in Results("attempt_finished"),
           Event(type, item, complete, result),
           type = "finalized" => /\ item = i /\ row[i] # "complete" /\ pc[i] # "complete"
                                 /\ final'[i]
                                 /\ Returned(result) => pc'[i] = "complete",
           row'[i] = "complete" \/ pc'[i] = "complete" =>
               \/ row[i] = "complete" \/ pc[i] = "complete"
               \/ type = "finalized" /\ Returned(result)
    PROVE  Inv'
<1>1. /\ session' = session /\ runOf' = runOf /\ summary' = summary /\ scope' = scope
  BY DEF ItemStep
<1>2. TypeOK /\ session > 0
  BY DEF Inv, TypeOK, ProcessType, ItemStep
<1>3. /\ session \in Sessions /\ lines' \in [Sessions -> Seq(Lines)] /\ WriterType'
      /\ \A s \in Sessions \ {session} : lines'[s] = lines[s]
      /\ faults' \in 0..MaxFaults /\ attempts' = attempts
      /\ lost' = (IF result \in {"ok", "refused"} THEN lost ELSE lost \cup {session})
      /\ spoiled' = (IF result = "refused" THEN spoiled \cup {session} ELSE spoiled)
  BY <1>2, EventFacts
<1>4. lost' \subseteq lost \cup {session} /\ spoiled' \subseteq spoiled \cup {session}
      /\ spoiled \subseteq spoiled' /\ lost \subseteq lost'
  BY <1>3
<1>5. /\ Threads' /\ Ahead' /\ RowsType' /\ summary[session] = None
      /\ phase' \in Phases /\ phase' # "closing"
      /\ \A j \in Items : final[j] => final'[j]
      /\ \A j \in Items : row[j] = "complete" \/ pc[j] = "complete" =>
                              \/ row'[j] = "complete" \/ pc'[j] = "complete"
                              \/ session \in spoiled'
  BY <1>3, <1>4, ItemStepKeeps
<1>6. Trace'
  BY <1>1, <1>2, <1>5, EventTrace
<1>7. Intact'
  BY <1>1, <1>2, EventIntact
<1>8. /\ \A j \in Items : HasRecord(j) => HasRecord(j)'
      /\ type = "finalized" /\ Returned(result) => HasRecord(i)'
  BY <1>1, <1>2, EventRecords
<1>9. Honest'
  BY <1>1, <1>2, <1>5, EventHonest
<1>10. CleanSessionVerifies'
  <2>1. \A s \in Sessions : summary'[s] # None =>
            summary'[s] = summary[s] /\ lines'[s] = lines[s] /\ runOf'[s] = runOf[s]
    BY <1>1, <1>3, <1>5
  <2> QED
    BY <1>1, <1>4, <1>5, <2>1, CleanStays
<1>11. Recorded'
  <2> SUFFICES ASSUME NEW j \in Items, row'[j] = "complete" \/ pc'[j] = "complete"
               PROVE  HasRecord(j)'
    BY DEF Recorded
  <2>1. CASE row[j] = "complete" \/ pc[j] = "complete"
    BY <1>8, <2>1 DEF Inv, Recorded
  <2>2. CASE ~(row[j] = "complete" \/ pc[j] = "complete")
    <3>1. j = i
      BY <2>2 DEF ItemStep
    <3> QED
      BY <1>8, <2>2, <3>1
  <2> QED
    BY <2>1, <2>2
<1>12. ProcessType'
  BY <1>1, <1>2, <1>3, <1>5 DEF TypeOK, ProcessType, ItemStep
<1>13. FilesType'
  BY <1>1, <1>2, <1>3 DEF TypeOK, FilesType
<1> QED
  BY <1>3, <1>5, <1>6, <1>7, <1>9, <1>10, <1>11, <1>12, <1>13 DEF Inv, TypeOK

-----------------------------------------------------------------------------
(* The steps of one thread.                                                *)

\* A thread only works in a run that is open.
LEMMA OpenRun ==
    ASSUME Inv, NEW i \in Items, pc[i] # "idle"
    PROVE  /\ phase \in {"starting", "running"} /\ (Running => phase = "running")
           /\ row[i] # "complete"
           /\ phase = "starting" => \A j \in Items \ {i} : pc[j] = "idle"
           /\ phase = "starting" => pc[i] \in {"complete", "failed"} /\ row[i] = "promoting"
<1>1. phase \in Phases /\ phase \notin {"down", "closing", "sealed"}
  BY DEF Inv, TypeOK, ProcessType, Threads, Joined
<1>2. phase \in {"starting", "running"}
  BY <1>1 DEF Phases
<1> QED
  BY <1>2 DEF Inv, Threads, Running

\* Admission of a queued item.
LEMMA AdmitKeeps == ASSUME Inv, NEW i \in Items, Admit(i) PROVE Inv'
<1>1. /\ row \in [Items -> States] /\ pc \in [Items -> Steps] /\ final \in [Items -> BOOLEAN]
      /\ stopping \in BOOLEAN /\ attempts \in 0..MaxAttempts /\ faults \in 0..MaxFaults
      /\ MaxAttempts \in Nat
  BY BoundsAssumption DEF Inv, TypeOK, RowsType, ProcessType
<1>2. /\ row' = [row EXCEPT ![i] = "admitted"] /\ pc' = [pc EXCEPT ![i] = "attempt"]
      /\ UNCHANGED <<phase, session, runOf, summary, scope, lines, writer, stopping, final,
                     faults, lost, spoiled>>
      /\ phase = "running" /\ row[i] = "queued" /\ pc[i] = "idle"
      /\ attempts' = attempts + 1 /\ attempts < MaxAttempts
  BY DEF Admit, Running, Becomes, Goto
<1>3. ItemStep(i)
  BY <1>1, <1>2 DEF ItemStep, States, Steps
<1>4. attempts' \in 0..MaxAttempts
  BY <1>1, <1>2
<1> QED
  BY <1>1, <1>2, <1>3, <1>4, ThreadQuiet

\* A step of a thread that writes a row and no event.
LEMMA RowStepKeeps ==
    ASSUME Inv, NEW i \in Items, pc[i] # "idle", NEW status \in States, NEW next \in Steps,
           Becomes(i, status), Goto(i, next), NoEvent,
           UNCHANGED <<phase, session, runOf, summary, scope, stopping, final>>,
           next # "idle" => status # "complete" /\ phase = "running",
           next \notin {"finalize", "complete"},
           status = "complete" <=> pc[i] = "complete"
    PROVE  Inv'
<1>1. /\ row \in [Items -> States] /\ pc \in [Items -> Steps] /\ final \in [Items -> BOOLEAN]
      /\ stopping \in BOOLEAN /\ attempts \in 0..MaxAttempts /\ faults \in 0..MaxFaults
  BY DEF Inv, TypeOK, RowsType, ProcessType
<1>2. /\ row' = [row EXCEPT ![i] = status] /\ pc' = [pc EXCEPT ![i] = next]
      /\ UNCHANGED <<lines, writer, attempts, faults, lost, spoiled>>
  BY DEF Becomes, Goto, NoEvent
<1>3. /\ phase \in {"starting", "running"} /\ row[i] # "complete"
      /\ phase = "starting" => \A j \in Items \ {i} : pc[j] = "idle"
  BY OpenRun
<1>4. row'[i] = status /\ pc'[i] = next
      /\ \A j \in Items \ {i} : row'[j] = row[j] /\ pc'[j] = pc[j]
  BY <1>1, <1>2
<1>5. ItemStep(i)
  <2>1. row' \in [Items -> States] /\ pc' \in [Items -> Steps]
    BY <1>1, <1>2
  <2>2. "starting" # "running"
    OBVIOUS
  <2> QED
    BY <1>1, <1>3, <1>4, <2>1, <2>2 DEF ItemStep
<1>6. row'[i] = "complete" \/ pc'[i] = "complete" => row[i] = "complete" \/ pc[i] = "complete"
  BY <1>4
<1> QED
  BY <1>1, <1>2, <1>5, <1>6, ThreadQuiet

\* The row goes back to the queue.
LEMMA RequeueKeeps == ASSUME Inv, NEW i \in Items, Requeue(i) PROVE Inv'
<1>1. "queued" \in States /\ "idle" \in Steps
  BY DEF States, Steps
<1> QED
  BY <1>1, RowStepKeeps DEF Requeue, Running

\* The row goes to review.
LEMMA ReviewKeeps == ASSUME Inv, NEW i \in Items, Review(i) PROVE Inv'
<1>1. "review_required" \in States /\ "idle" \in Steps
  BY DEF States, Steps
<1> QED
  BY <1>1, RowStepKeeps DEF Review, Running

\* The row says that its file is being promoted.
LEMMA IntentKeeps == ASSUME Inv, NEW i \in Items, Intent(i) PROVE Inv'
<1>1. "promoting" \in States /\ "link" \in Steps
  BY DEF States, Steps
<1>2. phase = "running"
  BY OpenRun DEF Intent
<1> QED
  BY <1>1, <1>2, RowStepKeeps DEF Intent, Running

\* The row is completed, by its thread or in a start.
LEMMA CompleteKeeps == ASSUME Inv, NEW i \in Items, Complete(i) \/ ReconcileComplete(i) PROVE Inv'
<1>1. "complete" \in States /\ "idle" \in Steps
  BY DEF States, Steps
<1> QED
  BY <1>1, RowStepKeeps DEF Complete, ReconcileComplete, Running, Starting

\* The file is linked.
LEMMA LinkKeeps == ASSUME Inv, NEW i \in Items, Link(i) PROVE Inv'
<1>1. /\ row \in [Items -> States] /\ pc \in [Items -> Steps] /\ final \in [Items -> BOOLEAN]
      /\ stopping \in BOOLEAN /\ attempts \in 0..MaxAttempts /\ faults \in 0..MaxFaults
  BY DEF Inv, TypeOK, RowsType, ProcessType
<1>2. /\ final' = [final EXCEPT ![i] = TRUE] /\ pc' = [pc EXCEPT ![i] = "finalize"]
      /\ UNCHANGED <<phase, session, runOf, summary, scope, lines, writer, attempts, faults,
                     lost, spoiled, stopping, row>>
      /\ pc[i] = "link"
  BY DEF Link, Running, NoEvent, Goto
<1>3. phase = "running" /\ row[i] # "complete"
  BY <1>2, OpenRun DEF Link
<1>4. ItemStep(i)
  BY <1>1, <1>2, <1>3 DEF ItemStep, Steps
<1> QED
  BY <1>1, <1>2, <1>4, ThreadQuiet

\* A promotion whose files are missing goes to review.
LEMMA ReconcileReviewKeeps == ASSUME Inv, NEW i \in Items, ReconcileReview(i) PROVE Inv'
<1>1. /\ row \in [Items -> States] /\ pc \in [Items -> Steps] /\ final \in [Items -> BOOLEAN]
      /\ stopping \in BOOLEAN /\ attempts \in 0..MaxAttempts /\ faults \in 0..MaxFaults
  BY DEF Inv, TypeOK, RowsType, ProcessType
<1>2. /\ row' = [row EXCEPT ![i] = "review_required"]
      /\ UNCHANGED <<phase, session, runOf, summary, scope, lines, writer, attempts, faults,
                     lost, spoiled, stopping, final, pc>>
      /\ phase = "starting" /\ row[i] = "promoting" /\ \A j \in Items : pc[j] = "idle"
  BY DEF ReconcileReview, Starting, Becomes, NoEvent, BetweenRows
<1>3. ItemStep(i)
  BY <1>1, <1>2 DEF ItemStep, States, Steps
<1> QED
  BY <1>1, <1>2, <1>3, ThreadQuiet

\* An SQLite error leaves the row as it was.
LEMMA DatabaseFailsKeeps == ASSUME Inv, NEW i \in Items, DatabaseFails(i) PROVE Inv'
<1>1. /\ row \in [Items -> States] /\ pc \in [Items -> Steps] /\ final \in [Items -> BOOLEAN]
      /\ attempts \in 0..MaxAttempts /\ faults \in 0..MaxFaults /\ MaxFaults \in Nat
  BY BoundsAssumption DEF Inv, TypeOK, RowsType, ProcessType
<1>2. /\ pc' = [pc EXCEPT ![i] = "failed"] /\ faults' = faults + 1 /\ faults < MaxFaults
      /\ spoiled' = spoiled \cup {session} /\ stopping' = TRUE
      /\ UNCHANGED <<phase, session, runOf, summary, scope, lines, writer, attempts, lost,
                     row, final>>
      /\ pc[i] # "idle"
  BY DEF DatabaseFails, Goto
<1>3. /\ phase \in {"starting", "running"} /\ row[i] # "complete"
      /\ phase = "starting" => \A j \in Items \ {i} : pc[j] = "idle"
      /\ phase = "starting" => row[i] = "promoting"
  BY <1>2, OpenRun
<1>4. session \in spoiled'
  BY <1>2
<1>5. ItemStep(i)
  BY <1>1, <1>2, <1>3, <1>4 DEF ItemStep, Steps
<1>6. faults' \in 0..MaxFaults
  BY <1>1, <1>2
<1> QED
  BY <1>1, <1>2, <1>5, <1>6, ThreadQuiet

\* A step of a thread that writes an event other than finalized and leaves the row.
LEMMA NoteKeeps ==
    ASSUME Inv, NEW i \in Items, pc[i] \notin {"idle", "complete"},
           NEW type \in EventTypes \ {"finalized"}, NEW item \in Items \cup {None},
           NEW result \in Results("attempt_finished"), Event(type, item, None, result),
           NEW next \in Steps \ {"finalize", "complete"}, Goto(i, next),
           UNCHANGED <<session, runOf, summary, scope, row, final>>, stopping' \in BOOLEAN,
           phase = "starting" => phase' = "down" /\ next = "idle",
           phase = "running" => phase' = phase
    PROVE  Inv'
<1>1. /\ row \in [Items -> States] /\ pc \in [Items -> Steps] /\ final \in [Items -> BOOLEAN]
  BY DEF Inv, TypeOK, RowsType
<1>2. pc' = [pc EXCEPT ![i] = next] /\ row' = row /\ final' = final
  BY DEF Goto
<1>3. /\ phase \in {"starting", "running"} /\ row[i] # "complete"
      /\ phase = "starting" => \A j \in Items \ {i} : pc[j] = "idle"
  BY OpenRun
<1>4. /\ pc'[i] = next /\ \A j \in Items \ {i} : pc'[j] = pc[j]
      /\ pc' \in [Items -> Steps]
  BY <1>1, <1>2
<1>5. ItemStep(i)
  <2>1. phase' = phase \/ (phase = "starting" /\ phase' = "down" /\ pc'[i] = "idle")
    BY <1>3, <1>4
  <2>2. phase = "starting" => pc'[i] = "idle"
    BY <1>4
  <2> QED
    BY <1>1, <1>2, <1>3, <1>4, <2>1, <2>2 DEF ItemStep
<1>6. row'[i] = "complete" \/ pc'[i] = "complete" => row[i] = "complete" \/ pc[i] = "complete"
  BY <1>2, <1>4
<1>7. None \in Nat \cup {None}
  OBVIOUS
<1> QED
  BY <1>5, <1>6, <1>7, ThreadEvent

\* The engine is done with an attempt.
LEMMA AttemptKeeps ==
    ASSUME Inv, NEW i \in Items, NEW outcome \in Outcomes,
           NEW result \in Results("attempt_finished"), Attempt(i, outcome, result)
    PROVE  Inv'
<1> DEFINE next == IF Returned(result) THEN [success |-> "intent", retryable_failure |-> "requeue",
                       validation_failed |-> "candidate", stopped |-> "storage"][outcome]
                   ELSE "idle"
<1>1. /\ Running /\ pc[i] = "attempt" /\ Event("attempt_finished", i, None, result)
      /\ Goto(i, next) /\ UNCHANGED <<row, final>>
      /\ stopping' = (stopping \/ ~Returned(result) \/ outcome = "stopped")
  BY DEF Attempt
<1>2. next \in Steps \ {"finalize", "complete"}
  BY DEF Outcomes, Steps
<1>3. phase = "running"
  BY <1>1, OpenRun
<1> HIDE DEF next
<1>4. "attempt_finished" \in EventTypes \ {"finalized"}
  BY DEF EventTypes
<1>5. UNCHANGED <<phase, session, runOf, summary, scope>>
  BY <1>1 DEF Running
<1>6. stopping' \in BOOLEAN
  BY <1>1
<1> QED
  BY <1>1, <1>2, <1>3, <1>4, <1>5, <1>6, NoteKeeps

\* A local failure is recorded; in a start it ends the process.
LEMMA LocalFailureKeeps ==
    ASSUME Inv, NEW i \in Items, NEW result \in Results("attempt_finished"),
           LocalFailure(i, result)
    PROVE  Inv'
<1> DEFINE next == IF pc[i] = "storage" THEN "requeue" ELSE "idle"
<1>1. /\ pc[i] \in {"storage", "failed"} /\ Event("local_failure", None, None, result)
      /\ Goto(i, next) /\ Stops(result)
      /\ phase' = (IF phase = "starting" THEN "down" ELSE phase)
      /\ UNCHANGED <<session, runOf, summary, scope, row, final>>
  BY DEF LocalFailure
<1>2. next \in Steps \ {"finalize", "complete"}
  BY DEF Steps
<1>3. phase = "starting" => next = "idle"
  BY <1>1, OpenRun
<1> HIDE DEF next
<1>4. "local_failure" \in EventTypes \ {"finalized"} /\ None \in Items \cup {None}
  BY DEF EventTypes
<1>5. stopping' \in BOOLEAN
  BY <1>1 DEF Stops
<1> QED
  BY <1>1, <1>2, <1>3, <1>4, <1>5, NoteKeeps

\* A candidate is set aside for review.
LEMMA CandidateKeeps ==
    ASSUME Inv, NEW i \in Items, NEW result \in Results("attempt_finished"),
           Candidate(i, result)
    PROVE  Inv'
<1> DEFINE next == IF Returned(result) THEN "review" ELSE "idle"
<1>1. /\ Running /\ pc[i] = "candidate" /\ Event("candidate_created", i, None, result)
      /\ Goto(i, next) /\ Stops(result) /\ UNCHANGED <<row, final>>
  BY DEF Candidate
<1>2. next \in Steps \ {"finalize", "complete"}
  BY DEF Steps
<1>3. phase = "running"
  BY <1>1, OpenRun
<1> HIDE DEF next
<1>4. "candidate_created" \in EventTypes \ {"finalized"}
  BY DEF EventTypes
<1>5. UNCHANGED <<phase, session, runOf, summary, scope>> /\ stopping' \in BOOLEAN
  BY <1>1 DEF Running, Stops
<1> QED
  BY <1>1, <1>2, <1>3, <1>4, <1>5, NoteKeeps

\* A final file is recorded, by its thread or in a start.
LEMMA FinalizeKeeps ==
    ASSUME Inv, NEW i \in Items, NEW result \in Results("attempt_finished"),
           Finalize(i, result) \/ Reconcile(i, result)
    PROVE  Inv'
<1> DEFINE next == IF Returned(result) THEN "complete" ELSE "idle"
<1>1. /\ row \in [Items -> States] /\ pc \in [Items -> Steps] /\ final \in [Items -> BOOLEAN]
  BY DEF Inv, TypeOK, RowsType
<1>2. /\ Event("finalized", i, None, result) /\ Goto(i, next) /\ Stops(result)
      /\ UNCHANGED <<session, runOf, summary, scope, row>>
  BY DEF Finalize, Reconcile, Running, Starting
<1>3. IF Returned(result) THEN next = "complete" ELSE next = "idle"
  OBVIOUS
<1> HIDE DEF next
<1>4. /\ pc'[i] = next /\ \A j \in Items \ {i} : pc'[j] = pc[j]
      /\ pc' \in [Items -> Steps] /\ row' = row
  BY <1>1, <1>2, <1>3 DEF Goto, Steps
<1>5. /\ final' \in [Items -> BOOLEAN] /\ final'[i]
      /\ \A j \in Items \ {i} : final'[j] = final[j]
  <2>1. CASE Finalize(i, result)
    BY <1>1, <2>1 DEF Finalize, Inv, Threads
  <2>2. CASE Reconcile(i, result)
    BY <1>1, <2>2 DEF Reconcile
  <2> QED
    BY <2>1, <2>2
<1>6. /\ row[i] # "complete" /\ pc[i] # "complete" /\ phase \in {"starting", "running"}
      /\ phase = "starting" => row[i] = "promoting" /\ \A j \in Items \ {i} : pc[j] = "idle"
      /\ phase' = phase \/ (phase = "starting" /\ phase' = "down" /\ next = "idle")
  <2>1. CASE Finalize(i, result)
    <3>1. phase = "running" /\ row[i] # "complete" /\ pc[i] = "finalize" /\ phase' = phase
      BY <2>1, OpenRun DEF Finalize, Running
    <3> QED
      BY <3>1
  <2>2. CASE Reconcile(i, result)
    <3>1. /\ phase = "starting" /\ row[i] = "promoting" /\ \A j \in Items : pc[j] = "idle"
          /\ phase' = IF Returned(result) THEN "starting" ELSE "down"
      BY <2>2 DEF Reconcile, Starting, BetweenRows, Aborts
    <3> QED
      BY <1>3, <3>1
  <2> QED
    BY <2>1, <2>2
<1>7. ItemStep(i)
  BY <1>1, <1>2, <1>3, <1>4, <1>5, <1>6 DEF ItemStep
<1>8. /\ "finalized" \in EventTypes /\ i \in Items \cup {None} /\ None \in Nat \cup {None}
      /\ stopping' \in BOOLEAN
  BY <1>2 DEF EventTypes, Stops
<1>9. row'[i] = "complete" \/ pc'[i] = "complete" => Returned(result)
  BY <1>3, <1>4, <1>6
<1>10. final'[i] /\ (Returned(result) => pc'[i] = "complete")
  BY <1>3, <1>4, <1>5
<1> QED
  BY <1>2, <1>6, <1>7, <1>8, <1>9, <1>10, ThreadEvent

-----------------------------------------------------------------------------
(* The steps of the process.                                               *)

\* A session begins with an empty file and a writer at zero.
LEMMA StartKeeps == ASSUME Inv, NEW r \in Runs, Start(r) PROVE Inv'
<1>1. /\ phase = "down" /\ phase' = "starting" /\ session' = session + 1
      /\ session \in 0..MaxSessions /\ session < MaxSessions /\ MaxSessions \in Nat
      /\ runOf' = [runOf EXCEPT ![session + 1] = r] /\ writer' = Closed /\ stopping' = FALSE
      /\ UNCHANGED <<lines, summary, row, final, scope, pc, attempts, faults, lost, spoiled>>
  BY BoundsAssumption DEF Start, Inv, TypeOK, ProcessType
<1>2. /\ session + 1 \in Sessions /\ session + 1 > session /\ session' > 0
      /\ session' \in 0..MaxSessions /\ session' \in Sessions
      /\ \A s \in Sessions : (s > session' => s > session) /\ (s <= session => s # session')
  BY <1>1 DEF Sessions
<1>3. /\ lines[session'] = <<>> /\ summary[session'] = None /\ session' \notin lost
      /\ session' \notin spoiled
  BY <1>1, <1>2 DEF Inv, Ahead
<1>4. runOf' \in [Sessions -> Runs \cup {None}] /\ runOf'[session'] = r
      /\ \A s \in Sessions \ {session'} : runOf'[s] = runOf[s]
  BY <1>1, <1>2 DEF Inv, TypeOK, RowsType
<1>5. TypeOK'
  <2>1. ProcessType'
    BY <1>1, <1>2 DEF Inv, TypeOK, ProcessType, Phases
  <2>2. WriterType'
    BY <1>1 DEF WriterType, Writers, Closed
  <2>3. FilesType' /\ RowsType'
    BY <1>1, <1>4 DEF Inv, TypeOK, FilesType, RowsType
  <2> QED
    BY <2>1, <2>2, <2>3 DEF TypeOK
<1>6. Threads'
  <2>1. Joined
    BY <1>1 DEF Inv, Threads
  <2> QED
    BY <1>1, <2>1 DEF Inv, Threads, Joined
<1>7. Ahead'
  <2>1. \A s \in Sessions : s > session' =>
            lines[s] = <<>> /\ summary[s] = None /\ s \notin lost /\ s \notin spoiled
    BY <1>2 DEF Inv, Ahead
  <2>2. \A s \in Sessions : summary[s] # None => runOf'[s] \in Runs /\ scope[runOf'[s]] # None
    BY <1>3, <1>4 DEF Inv, Ahead
  <2> QED
    BY <1>1, <1>3, <1>4, <2>1, <2>2 DEF Ahead
<1>8. Finals(session)' = {} /\ lines'[session'] = <<>>
  BY <1>1, <1>3 DEF Finals
<1>9. Trace'
  <2>1. Len(lines'[session']) <= writer'.seq /\ writer'.prev = None
    BY <1>1, <1>8 DEF Closed
  <2> QED
    BY <1>1, <1>3, <2>1 DEF Inv, Trace
<1>10. Intact'
  <2>1. Cardinality(Finals(session)') = 0
    BY <1>8, FS_EmptySet
  <2> QED
    BY <1>1, <1>8, <2>1 DEF Intact, Closed
<1>11. Honest'
  BY <1>1, <1>8 DEF Honest
<1>12. Recorded'
  BY <1>1 DEF Inv, Recorded, HasRecord, Damaged, Finals
<1>13. CleanSessionVerifies'
  BY <1>1, <1>3, <1>4, CleanStays
<1> QED
  BY <1>5, <1>6, <1>7, <1>9, <1>10, <1>11, <1>12, <1>13 DEF Inv

\* The end of a process, and a step that changes nothing.
LEMMA EndKeeps ==
    ASSUME Inv,
           UNCHANGED <<session, runOf, lines, summary, writer, stopping, row, final, scope,
                       attempts, lost>>,
           faults' \in 0..MaxFaults,
           \/ pc' = pc /\ phase' = phase /\ spoiled' = spoiled
           \/ pc' = pc /\ phase = "sealed" /\ phase' = "down" /\ spoiled' = spoiled
           \/ /\ pc' = [i \in Items |-> "idle"] /\ phase # "down" /\ phase' = "down"
              /\ spoiled' = spoiled \cup {session}
    PROVE  Inv'
<1>1. /\ session' = session /\ runOf' = runOf /\ lines' = lines /\ summary' = summary
      /\ writer' = writer /\ stopping' = stopping /\ row' = row /\ final' = final
      /\ scope' = scope /\ attempts' = attempts /\ lost' = lost
      /\ spoiled \subseteq spoiled'
  OBVIOUS
<1>2. /\ Trace' /\ Intact' /\ FilesType' /\ WriterType'
      /\ \A i \in Items : HasRecord(i) => HasRecord(i)'
  BY QuietFiles
<1>3. CleanSessionVerifies'
  BY <1>1, CleanStays
<1>4. ASSUME phase # "down" PROVE session > 0 /\ session \in Sessions
  BY <1>4 DEF Inv, TypeOK, ProcessType, Sessions
<1>5. Honest'
  BY <1>1, QuietHonest
<1>6. /\ RowsType' /\ (pc' = pc \/ Joined')
  <2>1. RowsType
    BY DEF Inv, TypeOK
  <2>2. "idle" \in Steps
    BY DEF Steps
  <2> QED
    BY <1>1, <2>1, <2>2 DEF RowsType, Joined
<1>7. ProcessType'
  <2>1. ProcessType
    BY DEF Inv, TypeOK
  <2>2. phase' \in {phase, "down"} /\ "down" \in Phases
    BY DEF Phases
  <2>3. spoiled' \subseteq Sessions
    BY <1>4, <2>1 DEF ProcessType
  <2> QED
    BY <1>1, <2>1, <2>2, <2>3 DEF ProcessType
<1>8. Threads'
  BY <1>1 DEF Inv, Threads, Joined
<1>9. Ahead'
  <2>1. \A s \in Sessions : s > session => s \notin spoiled'
    <3> SUFFICES ASSUME NEW s \in Sessions, s > session PROVE s \notin spoiled'
      OBVIOUS
    <3>1. s # session /\ s \notin spoiled
      BY DEF Inv, Ahead, TypeOK, ProcessType, Sessions
    <3> QED
      BY <3>1
  <2>2. phase' \in {phase, "down"}
    OBVIOUS
  <2> QED
    BY <1>1, <2>1, <2>2 DEF Inv, Ahead
<1>10. Recorded'
  <2> SUFFICES ASSUME NEW i \in Items, row'[i] = "complete" \/ pc'[i] = "complete"
               PROVE  HasRecord(i)'
    BY DEF Recorded
  <2>1. row[i] = "complete" \/ pc[i] = "complete"
    BY <1>1
  <2> QED
    BY <1>2, <2>1 DEF Inv, Recorded
<1> QED
  BY <1>2, <1>3, <1>5, <1>6, <1>7, <1>8, <1>9, <1>10 DEF Inv, TypeOK

\* The run begins once no promotion is left open.
LEMMA StartedKeeps ==
    ASSUME Inv, NEW result \in Results("attempt_finished"), Started(result)
    PROVE  Inv'
<1> DEFINE r == runOf[session]
<1>1. /\ phase = "starting" /\ \A i \in Items : row[i] # "promoting"
      /\ scope' = [scope EXCEPT ![r] = Selected(r)]
      /\ Event("run_started", None, None, result)
      /\ phase' = (IF Returned(result) THEN "running" ELSE "down") /\ Stops(result)
      /\ row' = [i \in Items |-> IF row[i] = "admitted" THEN "queued" ELSE row[i]]
      /\ UNCHANGED <<session, runOf, summary, final, pc>>
  BY DEF Started
<1>2. /\ session > 0 /\ session \in Sessions /\ r \in Runs /\ summary[session] = None /\ TypeOK
  BY <1>1 DEF Inv, TypeOK, ProcessType, Sessions, Ahead
<1>3. Joined
  BY <1>1 DEF Inv, Threads, Joined
<1>4. /\ Selected(r) \in SUBSET Items /\ Selected(r) # None
      /\ scope[r] # None => Selected(r) = scope[r]
  <2>1. scope[r] \in (SUBSET Items) \cup {None} /\ QueueOf[r] \in SUBSET Items
    BY <1>2, QueueAssumption DEF TypeOK, RowsType
  <2> HIDE DEF r
  <2>2. Selected(r) \in SUBSET Items
    BY <2>1 DEF Selected
  <2> QED
    BY <2>1, <2>2, NoneAssumption DEF Selected
<1>5. /\ scope' \in [Runs -> (SUBSET Items) \cup {None}] /\ scope'[r] = Selected(r)
      /\ \A q \in Runs : scope[q] # None => scope'[q] = scope[q]
  BY <1>1, <1>2, <1>4 DEF TypeOK, RowsType
<1>6. /\ row' \in [Items -> States]
      /\ \A i \in Items : row'[i] = "complete" <=> row[i] = "complete"
  BY <1>1 DEF TypeOK, RowsType, Inv, States
<1>7. "run_started" \in EventTypes /\ None \in Items \cup {None} /\ None \in Nat \cup {None}
  BY DEF EventTypes
<1>8. /\ lines' \in [Sessions -> Seq(Lines)] /\ WriterType'
      /\ \A s \in Sessions \ {session} : lines'[s] = lines[s]
      /\ faults' \in 0..MaxFaults /\ attempts' = attempts
      /\ lost' = (IF result \in {"ok", "refused"} THEN lost ELSE lost \cup {session})
      /\ spoiled' = (IF result = "refused" THEN spoiled \cup {session} ELSE spoiled)
  <2> DEFINE item == None
             complete == None
  <2>1. /\ item \in Items \cup {None} /\ complete \in Nat \cup {None}
        /\ Event("run_started", item, complete, result)
    BY <1>1
  <2> HIDE DEF item, complete
  <2> QED
    BY <1>2, <1>7, <2>1, EventFacts
<1>9. Trace'
  BY <1>1, <1>2, <1>7, EventTrace
<1>10. Intact'
  BY <1>1, <1>2, <1>7, EventIntact
<1>11. \A i \in Items : HasRecord(i) => HasRecord(i)'
  BY <1>1, <1>2, <1>7, EventRecords
<1>12. Honest'
  <2>1. /\ phase' # "closing" /\ final' = final /\ pc' = pc /\ session' = session
    BY <1>1
  <2>2. \A i \in Items : row[i] = "complete" \/ pc[i] = "complete" =>
                             row'[i] = "complete" \/ pc'[i] = "complete"
    BY <1>6, <2>1
  <2>3. "run_started" # "finalized"
    OBVIOUS
  <2> QED
    BY <1>1, <1>2, <1>7, <2>1, <2>2, <2>3, EventHonest
<1>13. CleanSessionVerifies'
  <2>1. \A s \in Sessions : summary'[s] # None =>
            summary'[s] = summary[s] /\ lines'[s] = lines[s] /\ runOf'[s] = runOf[s]
    BY <1>1, <1>2, <1>8
  <2>2. lost \subseteq lost' /\ spoiled \subseteq spoiled' /\ final' = final
    BY <1>1, <1>8
  <2> QED
    BY <1>5, <2>1, <2>2, CleanStays
<1>14. Recorded'
  BY <1>1, <1>6, <1>11 DEF Inv, Recorded
<1>15. TypeOK'
  <2>1. phase' \in Phases /\ stopping' \in BOOLEAN
    <3>1. phase' \in Phases
      BY <1>1 DEF Phases
    <3>2. stopping' \in BOOLEAN
      BY <1>1 DEF Stops
    <3> QED
      BY <3>1, <3>2
  <2>2. lost' \subseteq Sessions /\ spoiled' \subseteq Sessions
    BY <1>2, <1>8 DEF TypeOK, ProcessType
  <2>3. ProcessType'
    BY <1>1, <1>2, <1>8, <2>1, <2>2 DEF TypeOK, ProcessType
  <2>4. FilesType'
    BY <1>1, <1>2, <1>8 DEF TypeOK, FilesType
  <2>5. RowsType'
    BY <1>1, <1>2, <1>5, <1>6 DEF TypeOK, RowsType
  <2> QED
    BY <1>8, <2>3, <2>4, <2>5 DEF TypeOK
<1>16. Threads'
  <2>1. pc' = pc /\ \A i \in Items : pc[i] = "idle"
    BY <1>1, <1>3 DEF Joined
  <2> QED
    BY <2>1 DEF Threads, Joined
<1>17. Ahead'
  <2>1. \A s \in Sessions : s > session =>
            lines'[s] = <<>> /\ summary[s] = None /\ s \notin lost' /\ s \notin spoiled'
    <3> SUFFICES ASSUME NEW s \in Sessions, s > session
                 PROVE  lines'[s] = <<>> /\ summary[s] = None /\ s \notin lost' /\ s \notin spoiled'
      OBVIOUS
    <3>1. s # session
      BY <1>2 DEF Sessions
    <3> QED
      BY <1>8, <3>1 DEF Inv, Ahead
  <2>2. \A s \in Sessions : summary[s] # None => runOf[s] \in Runs /\ scope'[runOf[s]] # None
    BY <1>5 DEF Inv, Ahead
  <2>3. scope'[r] # None
    BY <1>4, <1>5
  <2>4. session' = session /\ runOf' = runOf /\ summary' = summary
    BY <1>1
  <2> QED
    BY <1>2, <2>1, <2>2, <2>3, <2>4 DEF Ahead
<1> QED
  BY <1>9, <1>10, <1>12, <1>13, <1>14, <1>15, <1>16, <1>17 DEF Inv

\* The run is closed by a line that says how many items are complete.
LEMMA CloseKeeps ==
    ASSUME Inv, NEW result \in Results("attempt_finished"), Close(result)
    PROVE  Inv'
<1> DEFINE complete == CompleteIn(runOf[session])
<1>1. /\ phase = "running" /\ Joined /\ Event("run_closed", None, complete, result)
      /\ phase' = (IF Returned(result) THEN "closing" ELSE "down")
      /\ UNCHANGED <<session, runOf, summary, stopping, row, final, scope, pc>>
  BY DEF Close
<1>2. /\ session > 0 /\ session \in Sessions /\ summary[session] = None /\ TypeOK
      /\ runOf[session] \in Runs /\ scope[runOf[session]] # None
  BY <1>1 DEF Inv, TypeOK, ProcessType, Sessions, Ahead
<1>3. complete \in Nat
  <2>1. scope[runOf[session]] \in SUBSET Items
    BY <1>2 DEF TypeOK, RowsType
  <2>2. {i \in scope[runOf[session]] : row[i] = "complete"} \in SUBSET Items
    BY <2>1
  <2> QED
    BY <2>2, ItemsAssumption, FS_Subset, FS_CardinalityType DEF CompleteIn
<1>4. complete = CompleteIn(runOf[session])'
  BY <1>1 DEF CompleteIn
<1> HIDE DEF complete
<1>5. "run_closed" \in EventTypes /\ None \in Items \cup {None} /\ complete \in Nat \cup {None}
  BY <1>3 DEF EventTypes
<1>6. /\ lines' \in [Sessions -> Seq(Lines)] /\ WriterType'
      /\ \A s \in Sessions \ {session} : lines'[s] = lines[s]
      /\ faults' \in 0..MaxFaults /\ attempts' = attempts
      /\ lost' = (IF result \in {"ok", "refused"} THEN lost ELSE lost \cup {session})
      /\ spoiled' = (IF result = "refused" THEN spoiled \cup {session} ELSE spoiled)
  BY SMTT(30), <1>1, <1>2, <1>5, EventFacts
<1>7. Trace'
  BY <1>1, <1>2, <1>5, EventTrace
<1>8. Intact'
  BY <1>1, <1>2, <1>5, EventIntact
<1>9. \A i \in Items : HasRecord(i) => HasRecord(i)'
  BY <1>1, <1>2, <1>5, EventRecords
<1>10. Honest'
  <2>1. final' = final /\ pc' = pc /\ session' = session /\ row' = row
    BY <1>1
  <2>2. "run_closed" # "finalized"
    OBVIOUS
  <2> QED
    BY <1>1, <1>2, <1>4, <1>5, <2>1, <2>2, EventHonest
<1>11. CleanSessionVerifies'
  <2>1. \A s \in Sessions : summary'[s] # None =>
            summary'[s] = summary[s] /\ lines'[s] = lines[s] /\ runOf'[s] = runOf[s]
    BY <1>1, <1>2, <1>6
  <2>2. lost \subseteq lost' /\ spoiled \subseteq spoiled' /\ final' = final /\ scope' = scope
    BY <1>1, <1>6
  <2> QED
    BY <2>1, <2>2, CleanStays
<1>12. Recorded'
  BY <1>1, <1>9 DEF Inv, Recorded
<1>13. TypeOK'
  <2>1. phase' \in Phases
    BY <1>1 DEF Phases
  <2>2. lost' \subseteq Sessions /\ spoiled' \subseteq Sessions
    BY <1>2, <1>6 DEF TypeOK, ProcessType
  <2>3. ProcessType'
    BY <1>1, <1>2, <1>6, <2>1, <2>2 DEF TypeOK, ProcessType
  <2>4. FilesType'
    BY <1>1, <1>2, <1>6 DEF TypeOK, FilesType
  <2>5. RowsType'
    BY <1>1, <1>2 DEF TypeOK, RowsType
  <2> QED
    BY <1>6, <2>3, <2>4, <2>5 DEF TypeOK
<1>14. Threads'
  BY <1>1 DEF Inv, Threads, Joined
<1>15. Ahead'
  <2>1. \A s \in Sessions : s > session =>
            lines'[s] = <<>> /\ summary[s] = None /\ s \notin lost' /\ s \notin spoiled'
    <3> SUFFICES ASSUME NEW s \in Sessions, s > session
                 PROVE  lines'[s] = <<>> /\ summary[s] = None /\ s \notin lost' /\ s \notin spoiled'
      OBVIOUS
    <3>1. s # session
      BY <1>2 DEF Sessions
    <3> QED
      BY <1>6, <3>1 DEF Inv, Ahead
  <2>2. session' = session /\ runOf' = runOf /\ summary' = summary /\ scope' = scope
    BY <1>1
  <2> QED
    BY <1>2, <2>1, <2>2 DEF Inv, Ahead
<1> QED
  BY <1>7, <1>8, <1>10, <1>11, <1>12, <1>13, <1>14, <1>15 DEF Inv

\* A signed summary says what the file holds: in a session that met no failure and
\* finalized items of its own run the verifier agrees.
LEMMA SealVerifies ==
    ASSUME Inv, Seal, session \notin lost, session \notin spoiled, Own(session),
           summary'[session] # None
    PROVE  Verify(session)'
<1> DEFINE file == lines[session]
           done == {i \in scope[runOf[session]] : row[i] = "complete"}
           sum  == [count |-> writer.seq, digest |-> writer.prev,
                    finalized |-> writer.finalized, complete |-> CompleteIn(runOf[session])]
<1>1. /\ phase = "closing" /\ session > 0 /\ session \in Sessions /\ TypeOK
      /\ runOf[session] \in Runs /\ scope[runOf[session]] \in SUBSET Items
      /\ lines' = lines /\ session' = session /\ final' = final
  BY DEF Seal, Inv, TypeOK, ProcessType, RowsType, Sessions, Ahead
<1>2. summary'[session] = sum
  BY <1>1 DEF Seal, TypeOK, FilesType
<1>3. /\ \A k \in DOMAIN file : CheckEvent(session, k)
      /\ Len(file) = writer.seq
      /\ writer.prev = IF writer.seq = 0 THEN None ELSE writer.seq
      /\ writer.finalized = Cardinality(Finals(session))
  BY <1>1 DEF Inv, Intact
<1>4. /\ \A k \in Finals(session) :
             /\ row[file[k].item] = "complete" \/ pc[file[k].item] = "complete"
             /\ final[file[k].item]
      /\ \A j, k \in Finals(session) : file[j].item = file[k].item => j = k
      /\ file # <<>> /\ Last(file).type = "run_closed"
      /\ Last(file).complete = CompleteIn(runOf[session])
  BY <1>1 DEF Inv, Honest
<1>5. \A k \in Finals(session) : file[k].item \in done
  <2> SUFFICES ASSUME NEW k \in Finals(session) PROVE file[k].item \in done
    OBVIOUS
  <2>1. file[k].item \in scope[runOf[session]] /\ file[k].item \in Items
    BY <1>1 DEF Own
  <2>2. pc[file[k].item] = "idle"
    BY <1>1, <2>1 DEF Inv, Threads, Joined
  <2> QED
    BY <1>4, <2>1, <2>2
<1>6. IsFiniteSet(done) /\ CompleteIn(runOf[session]) = Cardinality(done)
  BY <1>1, ItemsAssumption, FS_Subset DEF CompleteIn
<1>7. Cardinality(Finals(session)) <= Cardinality(done)
  <2> DEFINE f == [k \in Finals(session) |-> file[k].item]
  <2>1. f \in [Finals(session) -> done] /\ \A j, k \in Finals(session) : f[j] = f[k] => j = k
    BY <1>4, <1>5
  <2>2. IsFiniteSet(Finals(session))
    <3>1. file \in Seq(Lines)
      BY <1>1 DEF TypeOK, FilesType
    <3>2. Len(file) \in Nat /\ Finals(session) \in SUBSET (1..Len(file))
      BY <3>1, LenProperties DEF Finals
    <3> DEFINE m == Len(file)
    <3> HIDE DEF m
    <3>3. IsFiniteSet(1..m)
      BY <3>2, FS_Interval DEF m
    <3> QED
      BY <3>2, <3>3, FS_Subset DEF m
  <2>3. Cardinality(Finals(session)) \in Nat /\ Cardinality(done) \in Nat
    BY <1>6, <2>2, FS_CardinalityType
  <2> HIDE DEF f, done
  <2>4. ~(Cardinality(done) < Cardinality(Finals(session)))
    BY <1>6, <2>1, <2>2, FS_PigeonHole
  <2> QED
    BY <2>3, <2>4
<1> HIDE DEF done
<1>8. Len(file) \in Nat /\ Len(file) \in DOMAIN file /\ Last(file) = file[Len(file)]
  <2>1. file \in Seq(Lines)
    BY <1>1 DEF TypeOK, FilesType
  <2> QED
    BY <1>4, <2>1, EmptySeq, LenProperties DEF Last
<1>9. Last(file).seq = writer.prev
  <2>1. Last(file).seq = Len(file) /\ Len(file) # 0
    <3>1. Len(file) # 0
      <4>1. file \in Seq(Lines)
        BY <1>1 DEF TypeOK, FilesType
      <4> QED
        BY <1>4, <4>1, EmptySeq
    <3> QED
      BY <1>3, <1>8, <3>1 DEF CheckEvent
  <2> QED
    BY <1>3, <2>1
<1>10. Finals(session)' = Finals(session)
  BY <1>1 DEF Finals
<1>11. \A k \in DOMAIN file : CheckEvent(session, k)'
  BY <1>1, <1>3 DEF CheckEvent
<1> SUFFICES /\ sum # None
             /\ \A k \in DOMAIN file : CheckEvent(session, k)'
             /\ sum.count = Len(file)
             /\ sum.digest = Last(file).seq /\ Last(file).type = "run_closed"
             /\ Last(file).complete = sum.complete
             /\ sum.finalized = Cardinality(Finals(session)) /\ sum.finalized <= sum.complete
             /\ \A k \in Finals(session) : final[file[k].item]
  BY <1>1, <1>2, <1>10 DEF Verify
<1> QED
  BY <1>2, <1>3, <1>4, <1>6, <1>7, <1>9, <1>11

\* The summary is written.
LEMMA SealKeeps == ASSUME Inv, Seal PROVE Inv'
<1> DEFINE sum == [count |-> writer.seq, digest |-> writer.prev,
                   finalized |-> writer.finalized, complete |-> CompleteIn(runOf[session])]
<1>1. /\ phase = "closing" /\ phase' = "sealed" /\ summary' = [summary EXCEPT ![session] = sum]
      /\ session' = session /\ runOf' = runOf /\ lines' = lines /\ writer' = writer
      /\ stopping' = stopping /\ row' = row /\ final' = final /\ scope' = scope /\ pc' = pc
      /\ attempts' = attempts /\ faults' = faults /\ lost' = lost /\ spoiled' = spoiled
  BY DEF Seal
<1>2. /\ session > 0 /\ session \in Sessions /\ TypeOK
      /\ runOf[session] \in Runs /\ scope[runOf[session]] # None
  BY <1>1 DEF Inv, TypeOK, ProcessType, Sessions, Ahead
<1>3. sum \in Summaries
  <2>1. CompleteIn(runOf[session]) \in Nat
    <3>1. {i \in scope[runOf[session]] : row[i] = "complete"} \in SUBSET Items
      BY <1>2 DEF TypeOK, RowsType
    <3> QED
      BY <3>1, ItemsAssumption, FS_Subset, FS_CardinalityType DEF CompleteIn
  <2> QED
    BY <1>2, <2>1 DEF TypeOK, WriterType, Writers, Summaries
<1>4. /\ sum.count = writer.seq /\ sum.digest = writer.prev
  OBVIOUS
<1> HIDE DEF sum
<1>5. /\ summary' \in [Sessions -> Summaries \cup {None}] /\ summary'[session] = sum
      /\ \A s \in Sessions \ {session} : summary'[s] = summary[s]
  BY <1>1, <1>2, <1>3 DEF TypeOK, FilesType
<1>6. TypeOK'
  <2>1. ProcessType'
    BY <1>1, <1>2 DEF TypeOK, ProcessType, Phases
  <2>2. WriterType' /\ RowsType'
    BY <1>1, <1>2 DEF TypeOK, WriterType, RowsType
  <2>3. FilesType'
    BY <1>1, <1>2, <1>5 DEF TypeOK, FilesType
  <2> QED
    BY <2>1, <2>2, <2>3 DEF TypeOK
<1>7. Threads'
  BY <1>1 DEF Inv, Threads, Joined
<1>8. Ahead'
  <2>1. \A s \in Sessions : s > session =>
            lines[s] = <<>> /\ summary'[s] = None /\ s \notin lost /\ s \notin spoiled
    <3> SUFFICES ASSUME NEW s \in Sessions, s > session
                 PROVE  lines[s] = <<>> /\ summary'[s] = None /\ s \notin lost /\ s \notin spoiled
      OBVIOUS
    <3>1. s # session
      BY <1>2 DEF Sessions
    <3> QED
      BY <1>5, <3>1 DEF Inv, Ahead
  <2>2. \A s \in Sessions : summary'[s] # None => runOf[s] \in Runs /\ scope[runOf[s]] # None
    BY <1>2, <1>5 DEF Inv, Ahead
  <2> QED
    BY <1>1, <1>2, <2>1, <2>2 DEF Ahead
<1>9. Trace'
  <2>1. \A s \in Sessions : s \in lost /\ summary'[s] # None =>
            Broken(lines[s], summary'[s].count, summary'[s].digest)
    BY <1>2, <1>4, <1>5 DEF Inv, Trace
  <2> QED
    BY <1>1, <2>1 DEF Inv, Trace
<1>10. Finals(session)' = Finals(session)
  BY <1>1 DEF Finals
<1>11. Intact'
  <2>1. \A k \in DOMAIN lines[session] : CheckEvent(session, k) => CheckEvent(session, k)'
    BY <1>1 DEF CheckEvent
  <2> QED
    BY <1>1, <1>10, <2>1 DEF Inv, Intact
<1>12. Honest'
  BY <1>1, <1>10 DEF Inv, Honest
<1>13. Recorded'
  BY <1>1 DEF Inv, Recorded, HasRecord, Damaged, Finals
<1>14. CleanSessionVerifies'
  <2> SUFFICES ASSUME NEW s \in Sessions, summary'[s] # None, s \notin lost' \cup spoiled', Own(s)'
               PROVE  Verify(s)'
    BY DEF CleanSessionVerifies
  <2>1. CASE s = session
    <3>1. Own(session)
      BY <1>1, <1>10, <2>1 DEF Own
    <3>2. session \notin lost /\ session \notin spoiled /\ summary'[session] # None
      BY <1>1, <2>1
    <3> QED
      BY <2>1, <3>1, <3>2, <1>1, SealVerifies DEF Verify, CheckEvent, Finals
  <2>2. CASE s # session
    BY <1>1, <1>5, <2>2, VerdictStays
  <2> QED
    BY <2>1, <2>2
<1> QED
  BY <1>6, <1>7, <1>8, <1>9, <1>11, <1>12, <1>13, <1>14 DEF Inv

-----------------------------------------------------------------------------
(* The induction.                                                          *)

\* Nothing has been started.
LEMMA InitInv == ASSUME Init PROVE Inv
<1>1. TypeOK
  <2>1. ProcessType
    <3>1. {MaxSessions, MaxAttempts, MaxFaults} \subseteq Nat
      BY BoundsAssumption
    <3>2. 0 \in 0..MaxSessions /\ 0 \in 0..MaxAttempts /\ 0 \in 0..MaxFaults
      BY <3>1
    <3>3. /\ phase = "down" /\ session = 0 /\ stopping = FALSE /\ attempts = 0 /\ faults = 0
          /\ lost = {} /\ spoiled = {}
      BY DEF Init
    <3> QED
      BY <3>2, <3>3 DEF ProcessType, Phases
  <2>2. WriterType
    BY DEF Init, WriterType, Writers, Closed
  <2>3. FilesType
    BY EmptySeq DEF Init, FilesType
  <2>4. RowsType
    BY DEF Init, RowsType, States, Steps
  <2> QED
    BY <2>1, <2>2, <2>3, <2>4 DEF TypeOK
<1>2. Threads
  BY DEF Init, Threads, Joined
<1>3. Ahead
  BY DEF Init, Ahead
<1>4. Trace
  BY DEF Init, Trace, Closed
<1>5. Intact /\ Honest
  BY DEF Init, Intact, Honest
<1>6. Recorded
  BY DEF Init, Recorded
<1>7. CleanSessionVerifies
  BY DEF Init, CleanSessionVerifies
<1> QED
  BY <1>1, <1>2, <1>3, <1>4, <1>5, <1>6, <1>7 DEF Inv

\* Every step keeps the invariant.
LEMMA NextInv == ASSUME Inv, [Next]_vars PROVE Inv'
<1>1. ASSUME NEW r \in Runs, Start(r) PROVE Inv'
  BY <1>1, StartKeeps
<1>2. ASSUME NEW i \in Items, Thread(i) PROVE Inv'
  BY <1>2, AdmitKeeps, RequeueKeeps, ReviewKeeps, IntentKeeps, LinkKeeps, CompleteKeeps,
     ReconcileReviewKeeps, DatabaseFailsKeeps DEF Thread
<1>3. ASSUME NEW result \in Results("attempt_finished"), NEW i \in Items, Evented(i, result)
      PROVE  Inv'
  BY <1>3, AttemptKeeps, LocalFailureKeeps, CandidateKeeps, FinalizeKeeps DEF Evented
<1>4. ASSUME NEW result \in Results("attempt_finished"), Started(result) \/ Close(result)
      PROVE  Inv'
  BY <1>4, StartedKeeps, CloseKeeps
<1>5. ASSUME Seal PROVE Inv'
  BY <1>5, SealKeeps
<1>6. faults \in 0..MaxFaults /\ MaxFaults \in Nat
  BY BoundsAssumption DEF Inv, TypeOK, ProcessType
<1>7. ASSUME Exit PROVE Inv'
  BY <1>6, <1>7, EndKeeps DEF Exit
<1>8. ASSUME Crash PROVE Inv'
  <2>1. faults' \in 0..MaxFaults
    BY <1>6, <1>8 DEF Crash
  <2> QED
    BY <1>8, <2>1, EndKeeps DEF Crash
<1>9. ASSUME UNCHANGED vars PROVE Inv'
  BY <1>6, <1>9, EndKeeps DEF vars
<1> QED
  BY <1>1, <1>2, <1>3, <1>4, <1>5, <1>7, <1>8, <1>9 DEF Next

\* Inv is an invariant of every behaviour of the writer, the controller and its crashes.
THEOREM InvHolds == Spec => []Inv
BY InitInv, NextInv, PTL DEF Spec

\* The variables keep their types.
THEOREM Typed == Spec => []TypeOK
<1>1. Inv => TypeOK
  BY DEF Inv
<1> QED
  BY <1>1, InvHolds, PTL

\* No row is complete without a finalized record that can be read, unless a write that
\* fell short has damaged a file.
THEOREM NothingUnrecorded == Spec => []CompletedHasRecord
<1>1. Inv => CompletedHasRecord
  BY DEF Inv, Recorded, HasRecord, CompletedHasRecord
<1> QED
  BY <1>1, InvHolds, PTL

\* A session in which a write failed or fell short never verifies.
THEOREM LossIsVisible == Spec => []FailureIsVisible
<1>1. ASSUME Inv PROVE FailureIsVisible
  <2> SUFFICES ASSUME NEW s \in Sessions, Verify(s), s \in lost PROVE FALSE
    BY DEF FailureIsVisible
  <2>1. summary[s] # None
    BY DEF Verify
  <2>2. Broken(lines[s], summary[s].count, summary[s].digest)
    BY <1>1, <2>1 DEF Inv, Trace
  <2>3. lines[s] \in Seq(Lines) /\ Len(lines[s]) \in Nat /\ DOMAIN lines[s] = 1..Len(lines[s])
    BY <1>1, LenProperties DEF Inv, TypeOK, FilesType
  <2>4. \A k \in 1..Len(lines[s]) : CheckEvent(s, k)
    BY <2>3 DEF Verify
  <2>5. ~Unreadable(lines[s])
    BY <2>4 DEF Unreadable, CheckEvent
  <2>6. summary[s].count = Len(lines[s])
    BY DEF Verify
  <2>7. Chained(lines[s])
    <3> SUFFICES ASSUME NEW k \in 2..Len(lines[s])
                 PROVE  lines[s][k].prev = lines[s][k - 1].seq
      BY DEF Chained
    <3>1. k \in 1..Len(lines[s]) /\ k # 1
      BY <2>3
    <3> QED
      BY <2>4, <3>1 DEF CheckEvent
  <2>8. lines[s] # <<>> => Last(lines[s]).seq = summary[s].digest
    BY DEF Verify
  <2> QED
    BY <2>2, <2>3, <2>5, <2>6, <2>7, <2>8 DEF Broken
<1> QED
  BY <1>1, InvHolds, PTL

\* A session that met no failure and finalized items of its own run verifies.
THEOREM CleanVerifies == Spec => []CleanSessionVerifies
<1>1. Inv => CleanSessionVerifies
  BY DEF Inv
<1> QED
  BY <1>1, InvHolds, PTL

-----------------------------------------------------------------------------
(* What is written stays.                                                  *)

\* What a step keeps of every session.
Evidence ==
    \A s \in Sessions :
        /\ \A k \in 1..Len(lines[s]) - 1 : lines'[s][k] = lines[s][k]
        /\ summary[s] # None => lines'[s] = lines[s] /\ summary'[s] = summary[s]

\* An event is written to the end of a file that is not signed.
LEMMA EventEvidence ==
    ASSUME Inv, session > 0, summary[session] = None, summary' = summary,
           NEW type \in EventTypes, NEW item \in Items \cup {None},
           NEW complete \in Nat \cup {None}, NEW result \in Results("attempt_finished"),
           Event(type, item, complete, result)
    PROVE  Evidence
<1> DEFINE r   == Record(type, item, complete)
           old == lines[session]
<1>1. /\ r \in Records /\ session \in Sessions /\ old \in Seq(Lines)
      /\ lines'[session] = Appended(old, r, result)
      /\ \A s \in Sessions \ {session} : lines'[s] = lines[s]
  <2>1. TypeOK
    BY DEF Inv
  <2>2. /\ Record(type, item, complete) \in Records /\ session \in Sessions
        /\ lines[session] \in Seq(Lines)
        /\ lines'[session] = Appended(lines[session], Record(type, item, complete), result)
    BY <2>1, EventFacts
  <2>3. \A s \in Sessions \ {session} : lines'[s] = lines[s]
    BY <2>1, EventFacts
  <2> QED
    BY <2>2, <2>3
<1> HIDE DEF r, old
<1>2. Grown(old, lines'[session])
  BY <1>1, AppendedFile
<1>3. \A k \in 1..Len(old) - 1 : lines'[session][k] = old[k]
  <2>1. Len(old) \in Nat
    BY <1>1, LenProperties
  <2> QED
    BY <1>2, <2>1 DEF Grown
<1> QED
  BY <1>1, <1>3 DEF Evidence, old

\* Every step keeps the evidence.
LEMMA NextEvidence == ASSUME Inv, [Next]_vars PROVE Evidence
<1>1. ASSUME UNCHANGED <<lines, summary>> PROVE Evidence
  BY <1>1 DEF Evidence
<1>2. ASSUME phase \in {"starting", "running"}
      PROVE  session > 0 /\ summary[session] = None
  BY <1>2 DEF Inv, TypeOK, ProcessType, Ahead
<1>3. /\ None \in Items \cup {None} /\ None \in Nat \cup {None}
      /\ {"run_started", "run_closed", "attempt_finished", "local_failure",
          "candidate_created", "finalized"} \subseteq EventTypes
  BY DEF EventTypes
<1>4. ASSUME NEW r \in Runs, Start(r) PROVE Evidence
  BY <1>1, <1>4 DEF Start
<1>5. ASSUME NEW i \in Items, Thread(i) PROVE Evidence
  BY <1>1, <1>5 DEF Thread, Admit, Requeue, Review, Intent, Link, Complete, ReconcileComplete,
     ReconcileReview, DatabaseFails, NoEvent, Running, Starting
<1>6. ASSUME NEW result \in Results("attempt_finished"), NEW i \in Items, Evented(i, result)
      PROVE  Evidence
  <2>1. /\ phase \in {"starting", "running"} /\ summary' = summary
        /\ \E type \in EventTypes, item \in Items \cup {None} : Event(type, item, None, result)
    <3>1. CASE \E outcome \in Outcomes : Attempt(i, outcome, result)
      BY <1>3, <3>1, OpenRun DEF Attempt, Running
    <3>2. CASE LocalFailure(i, result)
      BY <1>3, <3>2, OpenRun DEF LocalFailure
    <3>3. CASE Candidate(i, result)
      BY <1>3, <3>3, OpenRun DEF Candidate, Running
    <3>4. CASE Finalize(i, result)
      BY <1>3, <3>4, OpenRun DEF Finalize, Running
    <3>5. CASE Reconcile(i, result)
      BY <1>3, <3>5 DEF Reconcile, Starting
    <3> QED
      BY <1>6, <3>1, <3>2, <3>3, <3>4, <3>5 DEF Evented
  <2>2. PICK type \in EventTypes, item \in Items \cup {None}, complete \in Nat \cup {None} :
            Event(type, item, complete, result)
    BY <1>3, <2>1
  <2> QED
    BY <1>2, <2>1, <2>2, EventEvidence
<1>7. ASSUME NEW result \in Results("attempt_finished"), Started(result) PROVE Evidence
  <2>1. PICK type \in EventTypes, item \in Items \cup {None}, complete \in Nat \cup {None} :
            Event(type, item, complete, result)
    BY <1>3, <1>7 DEF Started
  <2> QED
    BY <1>2, <1>7, <2>1, EventEvidence DEF Started
<1>8. ASSUME NEW result \in Results("attempt_finished"), Close(result) PROVE Evidence
  <2> DEFINE n == CompleteIn(runOf[session])
  <2>1. n \in Nat
    <3>1. runOf[session] \in Runs /\ scope[runOf[session]] # None /\ TypeOK
      BY <1>8 DEF Inv, Ahead, Close
    <3>2. {i \in scope[runOf[session]] : row[i] = "complete"} \in SUBSET Items
      BY <3>1 DEF TypeOK, RowsType
    <3> QED
      BY <3>2, ItemsAssumption, FS_Subset, FS_CardinalityType DEF CompleteIn
  <2>2. PICK type \in EventTypes, item \in Items \cup {None}, complete \in Nat \cup {None} :
            Event(type, item, complete, result)
    BY <1>3, <1>8, <2>1 DEF Close
  <2> QED
    BY <1>2, <1>8, <2>2, EventEvidence DEF Close
<1>9. ASSUME Seal PROVE Evidence
  <2>1. /\ lines' = lines /\ summary[session] = None
        /\ \A s \in Sessions \ {session} : summary'[s] = summary[s]
    BY <1>9 DEF Seal, Inv, Ahead, TypeOK, FilesType
  <2> QED
    BY <2>1 DEF Evidence
<1>10. ASSUME Exit \/ Crash \/ UNCHANGED vars PROVE Evidence
  BY <1>1, <1>10 DEF Exit, Crash, vars
<1> QED
  BY <1>4, <1>5, <1>6, <1>7, <1>8, <1>9, <1>10 DEF Next

\* What was written stays as it was, and nothing is added once it is signed.
THEOREM EvidenceStays == Spec => Sealed
<1>1. Inv /\ [Next]_vars => [Evidence]_vars
  BY NextEvidence
<1>2. Spec => [][Evidence]_vars
  BY <1>1, InvHolds, PTL DEF Spec
<1> QED
  BY <1>2 DEF Sealed, Evidence
==============================================================================
