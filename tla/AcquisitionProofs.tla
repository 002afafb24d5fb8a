-------------------------- MODULE AcquisitionProofs --------------------------
(***************************************************************************)
(* Proofs about Acquisition, for every value of its constants.             *)
(***************************************************************************)
EXTENDS Acquisition, FiniteSetTheorems, TLAPS

\* A body never counts more bytes than it has room for.
LEMMA ByteCountType ==
    ASSUME NEW b \in Body
    PROVE  ByteCount(b) \in 0..Size
<1> DEFINE S == {k \in Chunk : b[k] # None}
<1>1. IsFiniteSet(Chunk) /\ Cardinality(Chunk) = Size
  BY FS_Interval, SizesAssumption DEF Chunk
<1>2. IsFiniteSet(S) /\ Cardinality(S) <= Cardinality(Chunk)
  BY <1>1, FS_Subset
<1>3. Cardinality(S) \in Nat
  BY <1>2, FS_CardinalityType
<1> QED
  BY <1>1, <1>2, <1>3, SizesAssumption DEF ByteCount

\* So does the staged file, which counts zero bytes while it is absent; a
\* partial file is a file that exists.
LEMMA StagedSizeType ==
    ASSUME TypeOK
    PROVE  StagedSize \in 0..Size /\ (PartialExists => staging # 0)
<1>1. CASE staging = 0
  BY <1>1, SizesAssumption DEF StagedSize, PartialExists
<1>2. CASE staging # 0
  <2>1. staging \in Inode
    BY <1>2, SizesAssumption DEF TypeOK, FilesType, Inode
  <2>2. disk[staging] \in Body
    BY <2>1 DEF TypeOK, FilesType
  <2> QED
    BY <1>2, <2>2, ByteCountType DEF StagedSize
<1> QED
  BY <1>1, <1>2

\* What a HEAD response can carry is typed.
LEMMA HeadRepliesType ==
    ASSUME TypeOK
    PROVE  HeadReplies \subseteq Seen \cup {None}
BY DEF HeadReplies, ETagIn, Seen, Tag, TypeOK, WorldType

\* Where the shared finalization steps return to.
LEMMA AfterType ==
    ASSUME TypeOK
    PROVE  After(job.ctx) \in {"idle", "scope", "remediate", "requeue"}
<1>1. job.ctx \in Contexts
  BY DEF TypeOK, ThreadType, Jobs
<1> QED
  BY <1>1 DEF After, Contexts

\* The locals start with no work on the item.
LEMMA NoJobType == NoJob \in Jobs
BY SizesAssumption DEF NoJob, Jobs, Contexts

\* Initially every variable has its type and the phase invariant holds.
LEMMA InitInvariant == Init => TypeOK /\ PhaseInvariant /\ CompleteHasFinal
<1> SUFFICES ASSUME Init PROVE TypeOK /\ PhaseInvariant /\ CompleteHasFinal
  OBVIOUS
<1>1. Empty \in Body
  BY DEF Empty, Body
<1>2. TypeOK
  <2>1. RowType
    <3>1. expected \in Body \cup {None}
      BY QueueAssumption DEF Init
    <3>2. attempts \in 0..MaxAttempts /\ gen \in 0..MaxGen
      BY SizesAssumption DEF Init
    <3> QED
      BY <3>1, <3>2 DEF Init, RowType, Statuses, Retryable
  <2>2. ScopeType
    <3>1. run \in Run
      BY SizesAssumption DEF Init, Run
    <3>2. lastWriter \in [Run -> 0..MaxEpoch]
      BY SizesAssumption DEF Init
    <3> QED
      BY <3>1, <3>2 DEF Init, ScopeType
  <2>3. FilesType
    BY <1>1, SizesAssumption DEF Init, FilesType
  <2>4. EventsType
    BY DEF Init, EventsType
  <2>5. ThreadType
    BY NoJobType DEF Init, ThreadType
  <2>6. WorldType
    BY SizesAssumption DEF Init, WorldType, Epoch, Version
  <2> QED
    BY <2>1, <2>2, <2>3, <2>4, <2>5, <2>6 DEF TypeOK
<1>3. PhaseInvariant /\ CompleteHasFinal
  BY DEF Init, PhaseInvariant, EnginePhase, AttemptPhase, StagedPhase, IntentPhase, ClosedPhase,
     LocalsPhase, CompleteHasFinal, Fetching, Moving, Before
<1> QED
  BY <1>2, <1>3

-----------------------------------------------------------------------------
(* Frames: which actions write which part of the state.                   *)

\* The row of table downloads.
LEMMA RowFrame ==
    ASSUME Next
    PROVE  \/ UNCHANGED row
           \/ Admit \/ Start \/ Activate \/ JudgeDiskFull \/ JudgeDenied
           \/ JudgeUnavailable \/ JudgeRetry \/ Intent \/ IntentFails
           \/ LinkCollides \/ LinkFails \/ Complete \/ CleanupDone
           \/ CandidateReview \/ AvailableAgain \/ ExcludeItem
           \/ ResumeNewGeneration \/ RetryAccessDenied \/ Boot
           \/ ReconcilePromotion \/ ScopeExisting \/ RemediateSafePath
           \/ RequeueInterrupted
BY DEF Next, Worker, Startup, MainLoop, Control, Engine, Environment,
   Pick, Probe, Spawn, RecordWorker, JudgeStalled, Hash, Link, FinalizedEvent,
   UnlinkStaging, CandidateLink, CandidateUnlink, CandidateEvent, StillUnavailable,
   ScopeRun, CleanupStaging, ClaimRecheck, Exit, RequestStop, EngineOk, EngineFail,
   Crash, SourceChanges, FinalAppears, OrphanEnds, EngineWrite, row, version,
   verdict, closing, scope, files, proof, world, Quiet, ControlOnly

\* The selection and the manifest.
LEMMA ScopeFrame ==
    ASSUME Next
    PROVE  \/ UNCHANGED <<scope, lastWriter>>
           \/ RecordWorker \/ Boot \/ ScopeRun
BY DEF Next, Worker, Startup, MainLoop, Control, Engine, Environment,
   Pick, Admit, Start, Probe, Activate, Spawn, JudgeStalled, JudgeDiskFull,
   JudgeDenied, JudgeUnavailable, JudgeRetry, Hash, Intent, IntentFails, Link,
   LinkCollides, LinkFails, FinalizedEvent, Complete, UnlinkStaging, CleanupDone,
   CandidateLink, CandidateUnlink, CandidateEvent, CandidateReview,
   StillUnavailable, AvailableAgain, ReconcilePromotion, ScopeExisting,
   CleanupStaging, RemediateSafePath, RequeueInterrupted, ClaimRecheck, Exit,
   ExcludeItem, ResumeNewGeneration, RetryAccessDenied, RequestStop, EngineOk,
   EngineFail, Crash, SourceChanges, FinalAppears, OrphanEnds, EngineWrite, row,
   version, verdict, closing, scope, files, proof, world, Quiet, ControlOnly

\* The files.
LEMMA FilesFrame ==
    ASSUME Next
    PROVE  \/ UNCHANGED files
           \/ Link \/ LinkFails \/ UnlinkStaging \/ CandidateLink
           \/ CandidateUnlink \/ FinalAppears \/ (\E e \in Epoch : EngineWrite(e))
BY DEF Next, Worker, Startup, MainLoop, Control, Engine, Environment,
   Pick, Admit, Start, Probe, Activate, Spawn, RecordWorker, JudgeStalled,
   JudgeDiskFull, JudgeDenied, JudgeUnavailable, JudgeRetry, Hash, Intent,
   IntentFails, LinkCollides, FinalizedEvent, Complete, CleanupDone, CandidateEvent,
   CandidateReview, StillUnavailable, AvailableAgain, Boot, ReconcilePromotion,
   ScopeRun, ScopeExisting, CleanupStaging, RemediateSafePath, RequeueInterrupted,
   ClaimRecheck, Exit, ExcludeItem, ResumeNewGeneration, RetryAccessDenied,
   RequestStop, EngineOk, EngineFail, Crash, SourceChanges, OrphanEnds, row,
   version, verdict, closing, scope, files, proof, world, ControlOnly

\* The provenance events.
LEMMA EventsFrame ==
    ASSUME Next
    PROVE  \/ UNCHANGED proof
           \/ FinalizedEvent \/ CandidateEvent
BY DEF Next, Worker, Startup, MainLoop, Control, Engine, Environment,
   Pick, Admit, Start, Probe, Activate, Spawn, RecordWorker, JudgeStalled,
   JudgeDiskFull, JudgeDenied, JudgeUnavailable, JudgeRetry, Hash, Intent,
   IntentFails, Link, LinkCollides, LinkFails, Complete, UnlinkStaging, CleanupDone,
   CandidateLink, CandidateUnlink, CandidateReview, StillUnavailable,
   AvailableAgain, Boot, ReconcilePromotion, ScopeRun, ScopeExisting,
   CleanupStaging, RemediateSafePath, RequeueInterrupted, ClaimRecheck, Exit,
   ExcludeItem, ResumeNewGeneration, RetryAccessDenied, RequestStop, EngineOk,
   EngineFail, Crash, SourceChanges, FinalAppears, OrphanEnds, EngineWrite, row,
   version, verdict, closing, scope, files, proof, world, ControlOnly

\* The processes and the source.
LEMMA WorldFrame ==
    ASSUME Next
    PROVE  \/ UNCHANGED world
           \/ Spawn \/ RecordWorker \/ EngineOk \/ EngineFail \/ Crash
           \/ RequeueInterrupted \/ SourceChanges
           \/ (\E e \in Epoch : EngineWrite(e)) \/ (\E e \in Epoch : OrphanEnds(e))
BY DEF Next, Worker, Startup, MainLoop, Control, Engine, Environment,
   Pick, Admit, Start, Probe, Activate, JudgeStalled, JudgeDiskFull, JudgeDenied,
   JudgeUnavailable, JudgeRetry, Hash, Intent, IntentFails, Link, LinkCollides,
   LinkFails, FinalizedEvent, Complete, UnlinkStaging, CleanupDone, CandidateLink,
   CandidateUnlink, CandidateEvent, CandidateReview, StillUnavailable,
   AvailableAgain, Boot, ReconcilePromotion, ScopeRun, ScopeExisting,
   CleanupStaging, RemediateSafePath, ClaimRecheck, Exit, ExcludeItem,
   ResumeNewGeneration, RetryAccessDenied, RequestStop, FinalAppears, row, version,
   verdict, closing, scope, files, proof, world, Quiet, ControlOnly

\* The locals of the working thread.
LEMMA JobFrame ==
    ASSUME Next
    PROVE  \/ UNCHANGED job \/ job' = NoJob
           \/ Pick \/ Probe \/ EngineOk \/ EngineFail \/ JudgeStalled \/ Hash
           \/ LinkCollides \/ ClaimRecheck \/ AvailableAgain \/ ReconcilePromotion
           \/ CleanupStaging \/ RemediateSafePath
BY DEF Next, Worker, Startup, MainLoop, Control, Engine, Environment,
   Admit, Start, Activate, Spawn, RecordWorker, JudgeDiskFull, JudgeDenied,
   JudgeUnavailable, JudgeRetry, Intent, IntentFails, Link, LinkFails,
   FinalizedEvent, Complete, UnlinkStaging, CleanupDone, CandidateLink,
   CandidateUnlink, CandidateEvent, CandidateReview, StillUnavailable, Boot,
   ScopeRun, ScopeExisting, RequeueInterrupted, Exit, ExcludeItem,
   ResumeNewGeneration, RetryAccessDenied, RequestStop, Crash, SourceChanges,
   FinalAppears, OrphanEnds, EngineWrite, row, version, verdict, closing, scope,
   files, proof, world, Goto, Leave, ControlOnly

-----------------------------------------------------------------------------
(* Type correctness, part by part.                                         *)

\* The row keeps its column types.
LEMMA RowStep ==
    ASSUME TypeOK, PhaseInvariant, Next
    PROVE  RowType'
<1> USE DEF TypeOK, RowType, Statuses, Retryable, Interrupted, Tracked, version, verdict,
            closing, Quiet
<1>0. CASE UNCHANGED row
  BY <1>0 DEF row
<1>1. CASE Admit
  BY <1>1 DEF Admit
<1>2. CASE Start
  BY <1>2 DEF Start
<1>3. CASE Activate
  BY <1>3, SizesAssumption, NoneAssumption DEF Activate, PhaseInvariant, LocalsPhase, ThreadType, Jobs, Seen
<1>4. CASE JudgeDiskFull
  BY <1>4 DEF JudgeDiskFull, ThreadType, Jobs
<1>5. CASE JudgeDenied
  BY <1>5 DEF JudgeDenied, ReviewCodes
<1>6. CASE JudgeUnavailable
  BY <1>6 DEF JudgeUnavailable
<1>7. CASE JudgeRetry
  BY <1>7, StagedSizeType DEF JudgeRetry
<1>8. CASE Intent
  BY <1>8 DEF Intent, ThreadType, Jobs
<1>9. CASE IntentFails
  BY <1>9 DEF IntentFails, ThreadType, Jobs, ReviewCodes
<1>10. CASE LinkCollides
  BY <1>10 DEF LinkCollides, ReviewCodes
<1>11. CASE LinkFails
  BY <1>11 DEF LinkFails, ReviewCodes
<1>12. CASE Complete
  BY <1>12 DEF Complete, ThreadType, Jobs
<1>13. CASE CleanupDone
  BY <1>13 DEF CleanupDone
<1>14. CASE CandidateReview
  BY <1>14 DEF CandidateReview, ThreadType, Jobs, Seen, ReviewCodes
<1>15. CASE AvailableAgain
  BY <1>15 DEF AvailableAgain
<1>16. CASE ExcludeItem
  BY <1>16 DEF ExcludeItem, ControlOnly
<1>17. CASE ResumeNewGeneration
  BY <1>17, SizesAssumption DEF ResumeNewGeneration, ControlOnly
<1>18. CASE RetryAccessDenied
  BY <1>18 DEF RetryAccessDenied, ControlOnly
<1>19. CASE Boot
  BY <1>19, QueueAssumption DEF Boot
<1>20. CASE ReconcilePromotion
  BY <1>20 DEF ReconcilePromotion, Finish
<1>21. CASE ScopeExisting
  BY <1>21, SizesAssumption DEF ScopeExisting, ReviewCodes, FilesType, Inode, TargetExists
<1>22. CASE RemediateSafePath
  BY <1>22 DEF RemediateSafePath
<1>23. CASE RequeueInterrupted
  BY <1>23 DEF RequeueInterrupted
<1> QED
  BY RowFrame, <1>0, <1>1, <1>2, <1>3, <1>4, <1>5, <1>6, <1>7, <1>8, <1>9, <1>10,
     <1>11, <1>12, <1>13, <1>14, <1>15, <1>16, <1>17, <1>18, <1>19, <1>20, <1>21,
     <1>22, <1>23

\* The selection keeps its type.
LEMMA ScopeStep ==
    ASSUME TypeOK, Next
    PROVE  ScopeType'
<1> USE DEF TypeOK, ScopeType
<1>1. CASE UNCHANGED <<scope, lastWriter>>
  BY <1>1 DEF scope
<1>2. CASE RecordWorker
  BY <1>2, SizesAssumption DEF RecordWorker, scope, WorldType, Epoch
<1>3. CASE Boot
  <2>1. run' \in Run
    BY <1>3, SizesAssumption DEF Boot, scope, Run
  <2>2. selected' \in BOOLEAN /\ lastWriter' = lastWriter
    BY <1>3 DEF Boot, scope
  <2> QED
    BY <2>1, <2>2
<1>4. CASE ScopeRun
  BY <1>4 DEF ScopeRun
<1> QED
  BY ScopeFrame, <1>1, <1>2, <1>3, <1>4

\* The names keep pointing at files that were created, and these hold bodies.
LEMMA FilesStep ==
    ASSUME TypeOK, PhaseInvariant, Next
    PROVE  FilesType'
<1> USE DEF TypeOK, FilesType
<1>0. CASE UNCHANGED files
  BY <1>0 DEF files
<1>1. CASE Link
  BY <1>1 DEF Link
<1>2. CASE LinkFails
  BY <1>2 DEF LinkFails
<1>3. CASE UnlinkStaging
  BY <1>3, SizesAssumption DEF UnlinkStaging
<1>4. CASE CandidateLink
  <2>1. staging # 0
    BY <1>4 DEF CandidateLink, PhaseInvariant, StagedPhase
  <2> QED
    BY <1>4, <2>1, SizesAssumption DEF CandidateLink
<1>5. CASE CandidateUnlink
  BY <1>5, SizesAssumption DEF CandidateUnlink
<1>6. CASE FinalAppears
  <2>1. PICK v \in Version : disk' = [disk EXCEPT ![inodes + 1] = [k \in Chunk |-> v]]
    BY <1>6 DEF FinalAppears
  <2>2. [k \in Chunk |-> v] \in Body
    BY DEF Body
  <2>3. disk' \in [Inode -> Body]
    BY <2>1, <2>2
  <2> QED
    BY <1>6, <2>1, <2>2, <2>3, SizesAssumption DEF FinalAppears
<1>7. ASSUME NEW e \in Epoch, EngineWrite(e) PROVE FilesType'
  <2> DEFINE g   == engine[e]
             ino == IF g.ino # 0 THEN g.ino ELSE IF staging # 0 THEN staging ELSE inodes + 1
  <2>1. g \in Engines
    BY <1>7 DEF EngineWrite, WorldType
  <2>2. g.ver \in Version /\ g.at \in Nat /\ g.at + 1 \in Chunk
    BY <1>7, <2>1, SizesAssumption DEF EngineWrite, Engines, Chunk
  <2>3. g.ino = staging
    BY <1>7 DEF EngineWrite, PhaseInvariant, EnginePhase
  <2>4. ino \in Inode /\ ino <= inodes + 1
    BY <1>7, <2>3, SizesAssumption DEF EngineWrite, Inode
  <2>5. disk'= [disk EXCEPT ![ino] = [disk[ino] EXCEPT ![g.at + 1] = g.ver]]
    BY <1>7 DEF EngineWrite
  <2>6. [disk[ino] EXCEPT ![g.at + 1] = g.ver] \in Body
    BY <2>2, <2>4 DEF Body
  <2>7. disk' \in [Inode -> Body]
    BY <2>4, <2>5, <2>6
  <2>8. /\ inodes' = IF ino > inodes THEN ino ELSE inodes
        /\ staging' = IF g.ino = 0 THEN ino ELSE staging
        /\ UNCHANGED <<final, cands>>
    BY <1>7 DEF EngineWrite
  <2>9. inodes' \in 0..MaxInode /\ inodes <= inodes' /\ ino <= inodes'
    BY <2>4, <2>8, SizesAssumption DEF Inode
  <2>10. staging' \in 0..inodes' /\ final' \in 0..inodes' /\ cands' \subseteq 1..inodes'
    BY <2>4, <2>8, <2>9, SizesAssumption DEF Inode
  <2> QED
    BY <2>7, <2>9, <2>10
<1> QED
  BY FilesFrame, <1>0, <1>1, <1>2, <1>3, <1>4, <1>5, <1>6, <1>7

\* Events are written with a digest and with a reason.
LEMMA EventsStep ==
    ASSUME TypeOK, PhaseInvariant, Next
    PROVE  EventsType'
<1> USE DEF TypeOK, EventsType, ThreadType, Jobs
<1>1. CASE UNCHANGED proof
  BY <1>1 DEF proof
<1>2. CASE FinalizedEvent
  <2>1. job.digest \in Body /\ job.expected \in Body \cup {None}
    BY <1>2 DEF FinalizedEvent, PhaseInvariant, IntentPhase
  <2> QED
    BY <1>2, <2>1 DEF FinalizedEvent
<1>3. CASE CandidateEvent
  <2>1. job.why \in CandidateReasons
    BY <1>3 DEF CandidateEvent, PhaseInvariant, LocalsPhase, Moving
  <2> QED
    BY <1>3, <2>1 DEF CandidateEvent
<1> QED
  BY EventsFrame, <1>1, <1>2, <1>3

\* Engines and the source keep their types.
LEMMA WorldStep ==
    ASSUME TypeOK, PhaseInvariant, Next
    PROVE  WorldType'
<1> USE DEF TypeOK, WorldType
<1>0. CASE UNCHANGED world
  BY <1>0 DEF world
<1>1. CASE Spawn
  <2>1. [ver |-> remote, at |-> StagedSize, ino |-> staging, recorded |-> FALSE] \in Engines
    BY StagedSizeType, SizesAssumption DEF Engines, FilesType
  <2> QED
    BY <1>1, <2>1 DEF Spawn
<1>2. CASE RecordWorker
  <2>1. engine[epoch] # None => [engine[epoch] EXCEPT !.recorded = TRUE] \in Engines
    BY DEF Engines
  <2> QED
    BY <1>2, <2>1 DEF RecordWorker
<1>3. CASE EngineOk
  BY <1>3 DEF EngineOk, EngineGone
<1>4. CASE EngineFail
  BY <1>4 DEF EngineFail, EngineGone
<1>5. CASE Crash
  <2>1. epoch' \in Epoch
    BY <1>5, SizesAssumption DEF Crash, Survives, Epoch
  <2>2. engine' \in [Epoch -> Engines \cup {None}] /\ remote' = remote
    BY <1>5 DEF Crash
  <2> QED
    BY <2>1, <2>2
<1>6. CASE RequeueInterrupted
  BY <1>6 DEF RequeueInterrupted
<1>7. CASE SourceChanges
  BY <1>7, SizesAssumption DEF SourceChanges, Version
<1>8. ASSUME NEW e \in Epoch, EngineWrite(e) PROVE WorldType'
  <2> DEFINE g   == engine[e]
             ino == IF g.ino # 0 THEN g.ino ELSE IF staging # 0 THEN staging ELSE inodes + 1
  <2>1. g \in Engines
    BY <1>8 DEF EngineWrite
  <2>2. g.at + 1 \in 0..Size
    BY <1>8, <2>1, SizesAssumption DEF EngineWrite, Engines
  <2>3. ino \in 0..MaxInode
    BY <1>8, <2>1, SizesAssumption DEF EngineWrite, Engines, FilesType
  <2>4. engine' = [engine EXCEPT ![e] = [g EXCEPT !.at = g.at + 1, !.ino = ino]]
    BY <1>8 DEF EngineWrite
  <2>5. [g EXCEPT !.at = g.at + 1, !.ino = ino] \in Engines
    BY <2>1, <2>2, <2>3 DEF Engines
  <2>6. engine' \in [Epoch -> Engines \cup {None}]
    BY <2>4, <2>5
  <2> QED
    BY <1>8, <2>6 DEF EngineWrite
<1>9. ASSUME NEW e \in Epoch, OrphanEnds(e) PROVE WorldType'
  BY <1>9 DEF OrphanEnds, EngineGone
<1> QED
  BY WorldFrame, <1>0, <1>1, <1>2, <1>3, <1>4, <1>5, <1>6, <1>7, <1>8, <1>9

\* Assigning typed values to the locals keeps their types.
LEMMA SetSeen ==
    ASSUME NEW j \in Jobs, NEW r \in Seen \cup {None} PROVE [j EXCEPT !.seen = r] \in Jobs
BY DEF Jobs

LEMMA SetWhy ==
    ASSUME NEW j \in Jobs, NEW w \in CandidateReasons \cup {None}
    PROVE  [j EXCEPT !.why = w] \in Jobs
BY DEF Jobs

LEMMA SetDigest ==
    ASSUME NEW j \in Jobs, NEW d \in Body \cup {None} PROVE [j EXCEPT !.digest = d] \in Jobs
BY DEF Jobs

LEMMA SetContext ==
    ASSUME NEW j \in Jobs, NEW c \in Contexts PROVE [j EXCEPT !.ctx = c] \in Jobs
BY DEF Jobs

LEMMA SetExpected ==
    ASSUME NEW j \in Jobs, NEW x \in Body \cup {None} PROVE [j EXCEPT !.expected = x] \in Jobs
BY DEF Jobs

\* The locals keep their types.
LEMMA JobStep ==
    ASSUME TypeOK, PhaseInvariant, Next
    PROVE  job' \in Jobs
<1>1. job \in Jobs /\ sha \in Body \cup {None} /\ expected \in Body \cup {None}
  BY DEF TypeOK, ThreadType, RowType
<1>2. ASSUME NEW r \in HeadReplies, NEW d
      PROVE  [job EXCEPT !.seen = r] \in Jobs
             /\ [job EXCEPT !.seen = r, !.why = ReviewCause(d)] \in Jobs
  <2>1. r \in Seen \cup {None}
    BY HeadRepliesType
  <2>2. ReviewCause(d) \in CandidateReasons \cup {None}
    BY DEF ReviewCause, CandidateReasons, RepresentationReview
  <2>3. [job EXCEPT !.seen = r] \in Jobs
    BY <1>1, <2>1, SetSeen
  <2>4. [[job EXCEPT !.seen = r] EXCEPT !.why = ReviewCause(d)] \in Jobs
    BY <2>2, <2>3, SetWhy
  <2> QED
    BY <2>3, <2>4
<1>3. CASE UNCHANGED job \/ job' = NoJob
  BY <1>1, <1>3, NoJobType
<1>4. CASE Pick
  BY <1>4, NoJobType DEF Pick, TypeOK, RowType, NoJob, Jobs
<1>5. CASE ClaimRecheck
  BY <1>5, NoJobType DEF ClaimRecheck, TypeOK, RowType, NoJob, Jobs
<1>6. CASE Probe
  <2>1. \/ job' = job
        \/ \E r \in HeadReplies : job' = [job EXCEPT !.seen = r]
        \/ \E r \in HeadReplies :
              job' = [job EXCEPT !.seen = r,
                                 !.why = ReviewCause(Decision(job.etag, job.lastMod, r))]
    BY <1>6 DEF Probe, Goto
  <2> QED
    BY <1>1, <1>2, <2>1
<1>7. CASE EngineOk \/ EngineFail
  BY <1>1, <1>7 DEF EngineOk, EngineFail, Jobs
<1>8. CASE JudgeStalled
  <2>1. "incomplete_body" \in CandidateReasons \cup {None}
    BY DEF CandidateReasons
  <2> QED
    BY <1>1, <1>8, <2>1, SetWhy DEF JudgeStalled
<1>9. CASE Hash
  <2>1. staging \in Inode
    BY <1>9, SizesAssumption DEF Hash, PhaseInvariant, StagedPhase, TypeOK, FilesType, Inode
  <2>2. disk[staging] \in Body \cup {None}
    BY <2>1 DEF TypeOK, FilesType
  <2>3. Mismatch(disk[staging]) \in CandidateReasons \cup {None}
    BY DEF Mismatch, CandidateReasons
  <2>4. [job EXCEPT !.digest = disk[staging]] \in Jobs
    BY <1>1, <2>2, SetDigest
  <2>5. [[job EXCEPT !.digest = disk[staging]] EXCEPT !.why = Mismatch(disk[staging])] \in Jobs
    BY <2>3, <2>4, SetWhy
  <2> QED
    BY <1>9, <2>5 DEF Hash
<1>10. CASE LinkCollides
  <2>1. job' = NoJob \/ job' = [job EXCEPT !.why = "destination_collision"]
    BY <1>10 DEF LinkCollides, Leave
  <2>2. "destination_collision" \in CandidateReasons \cup {None}
    BY DEF CandidateReasons
  <2> QED
    BY <1>1, <2>1, <2>2, NoJobType, SetWhy
<1>11. CASE AvailableAgain
  <2>1. \/ job' = NoJob
        \/ \E r \in HeadReplies :
              job' = [job EXCEPT !.seen = r,
                                 !.why = ReviewCause(Classify(job.etag, job.lastMod, r))]
    BY <1>11 DEF AvailableAgain, Leave
  <2> QED
    BY <1>1, <1>2, <2>1, NoJobType
<1>12. ASSUME NEW c \in Contexts
       PROVE  /\ [NoJob EXCEPT !.ctx = c] \in Jobs
              /\ [NoJob EXCEPT !.ctx = c, !.digest = sha] \in Jobs
              /\ [NoJob EXCEPT !.ctx = c, !.digest = sha, !.expected = expected] \in Jobs
  <2>1. [NoJob EXCEPT !.ctx = c] \in Jobs
    BY NoJobType, SetContext
  <2>2. [[NoJob EXCEPT !.ctx = c] EXCEPT !.digest = sha] \in Jobs
    BY <1>1, <2>1, SetDigest
  <2>3. [[[NoJob EXCEPT !.ctx = c] EXCEPT !.digest = sha] EXCEPT !.expected = expected] \in Jobs
    BY <1>1, <2>2, SetExpected
  <2> QED
    BY <2>1, <2>2, <2>3
<1>13. CASE ReconcilePromotion
  <2>1. \/ job' = job
        \/ job' = [NoJob EXCEPT !.ctx = "reconcile", !.digest = sha, !.expected = expected]
    BY <1>13 DEF ReconcilePromotion, Finish, Goto
  <2> QED
    BY <1>1, <1>12, <2>1 DEF Contexts
<1>14. CASE CleanupStaging
  <2>1. job' = job \/ job' = [NoJob EXCEPT !.ctx = "cleanup"]
    BY <1>14 DEF CleanupStaging, Goto
  <2> QED
    BY <1>1, <1>12, <2>1 DEF Contexts
<1>15. CASE RemediateSafePath
  <2>1. job' = job \/ job' = [NoJob EXCEPT !.ctx = "remediate", !.digest = sha]
    BY <1>15 DEF RemediateSafePath, Goto
  <2> QED
    BY <1>1, <1>12, <2>1 DEF Contexts
<1> QED
  BY JobFrame, <1>3, <1>4, <1>5, <1>6, <1>7, <1>8, <1>9, <1>10, <1>11, <1>13, <1>14, <1>15

\* The program counter stays among its values.
LEMMA PcStep ==
    ASSUME TypeOK, Next
    PROVE  pc' \in {"down", "idle"} \cup Booting \cup Steps /\ stop' \in BOOLEAN
<1> USE DEF TypeOK, ThreadType, Booting, Steps
<1>2. After(job.ctx) \in {"idle", "scope", "remediate", "requeue"}
  BY AfterType
<1>3. CASE Admit \/ Start \/ Probe \/ Activate \/ Spawn \/ RecordWorker \/
          JudgeStalled \/ JudgeDiskFull \/ JudgeDenied \/ JudgeUnavailable \/
          JudgeRetry
  BY <1>2, <1>3 DEF Admit, Start, Probe, Activate, Spawn, RecordWorker,
     JudgeStalled, JudgeDiskFull, JudgeDenied, JudgeUnavailable, JudgeRetry, Goto,
     Leave, Quiet, ControlOnly, Finish
<1>4. CASE Hash \/ Intent \/ IntentFails \/ Link \/ LinkCollides \/ LinkFails \/
          FinalizedEvent \/ Complete \/ UnlinkStaging \/ CleanupDone \/
          CandidateLink \/ CandidateUnlink \/ CandidateEvent \/ CandidateReview \/
          StillUnavailable \/ AvailableAgain
  BY <1>2, <1>4 DEF Hash, Intent, IntentFails, Link, LinkCollides, LinkFails,
     FinalizedEvent, Complete, UnlinkStaging, CleanupDone, CandidateLink,
     CandidateUnlink, CandidateEvent, CandidateReview, StillUnavailable,
     AvailableAgain, Goto, Leave, Quiet, ControlOnly, Finish
<1>5. CASE Startup
  BY <1>2, <1>5 DEF Startup, Boot, ReconcilePromotion, ScopeRun, ScopeExisting,
     CleanupStaging, RemediateSafePath, RequeueInterrupted, Goto, Leave, Quiet,
     ControlOnly, Finish
<1>6. CASE MainLoop \/ Control \/ Engine \/ Environment
  BY <1>2, <1>6 DEF MainLoop, Control, Engine, Environment, Pick, ClaimRecheck,
     Exit, ExcludeItem, ResumeNewGeneration, RetryAccessDenied, RequestStop,
     EngineOk, EngineFail, EngineWrite, OrphanEnds, Crash, SourceChanges,
     FinalAppears, Goto, Leave, Quiet, ControlOnly, Finish
<1> QED
  BY <1>3, <1>4, <1>5, <1>6 DEF Next, Worker

\* Every step keeps the types.
LEMMA TypeStep ==
    ASSUME TypeOK, PhaseInvariant, Next
    PROVE  TypeOK'
BY RowStep, ScopeStep, FilesStep, EventsStep, WorldStep, JobStep, PcStep
DEF TypeOK, ThreadType

-----------------------------------------------------------------------------
(* The phase invariant, part by part.                                      *)

\* When no engine outlives its controller, or only one that the manifest names, within
\* one run ID, which is when the next start finds the name.
OneWriter == Survivors = "none" \/ (Survivors = "recorded" /\ MaxRun = 1)

\* There is one engine at most.
LEMMA SoleEngine ==
    ASSUME EnginePhase, NEW d \in Epoch, NEW e \in Epoch, engine[d] # None, engine[e] # None
    PROVE  d = e
BY DEF EnginePhase, Outlived, Booting

\* An engine that outlived its controller sees no step of a thread.
LEMMA EngineWhere ==
    ASSUME EnginePhase, NEW e \in Epoch, engine[e] # None
    PROVE  /\ pc \in {"record", "run", "down", "idle"} \cup Booting
           /\ pc \notin {"record", "run"} =>
                  /\ Outlived(e) /\ status \in {"active", "excluded"} /\ selected
BY DEF EnginePhase, Outlived

\* A chunk goes to the staged file, which is not the published one, of an item that
\* is neither completed nor on its way to be.
LEMMA ChunkWritten ==
    ASSUME TypeOK, PhaseInvariant, NEW e \in Epoch, EngineWrite(e)
    PROVE  /\ staging' = (IF staging # 0 THEN staging ELSE inodes + 1)
           /\ staging' # final /\ staging' # 0
           /\ status \in {"active", "excluded"} /\ UNCHANGED <<row, final, cands, pc, job, proof>>
           /\ pc \in {"record", "run", "down", "idle"} \cup Booting
           /\ final # 0 => disk'[final] = disk[final]
<1>1. staging \in 0..inodes /\ final \in 0..inodes /\ inodes \in 0..MaxInode
  BY DEF TypeOK, FilesType
<1>2. inodes \in Nat /\ inodes + 1 # 0 /\ final # inodes + 1 /\ staging \in Nat
  BY <1>1, SizesAssumption
<1>3. engine[e] # None /\ engine[e].ino = staging /\ (staging = 0 \/ staging # final)
  BY DEF EngineWrite, PhaseInvariant, EnginePhase
<1>4. staging' = (IF staging # 0 THEN staging ELSE inodes + 1)
  BY <1>3 DEF EngineWrite
<1>5. staging' # final /\ staging' # 0
  BY <1>2, <1>3, <1>4
<1>6. pc \in {"record", "run", "down", "idle"} \cup Booting /\ status \in {"active", "excluded"}
  BY <1>3, EngineWhere DEF PhaseInvariant, AttemptPhase
<1>7. final # 0 => disk'[final] = disk[final]
  <2>1. final # 0 => final \in Inode
    BY <1>1, SizesAssumption DEF Inode
  <2>2. PICK k, v : disk' = [disk EXCEPT ![staging'][k] = v]
    BY <1>3, <1>4 DEF EngineWrite
  <2> QED
    BY <1>5, <2>1, <2>2 DEF TypeOK, FilesType
<1> QED
  BY <1>4, <1>5, <1>6, <1>7 DEF EngineWrite

\* Engines run only inside run_aria2() or until the next start, and hold the staged file.
LEMMA EngineStep ==
    ASSUME TypeOK, PhaseInvariant, OneWriter, Next
    PROVE  EnginePhase'
<1> USE DEF PhaseInvariant, EnginePhase, AttemptPhase, Outlived, Booting
<1>1. CASE Admit \/ Start \/ Probe \/ Activate
  BY <1>1 DEF Admit, Start, Probe, Activate, Quiet, world, files, Goto, Leave
<1>2. CASE Spawn
  BY <1>2 DEF Spawn, files, Goto, TypeOK, WorldType, StagedPhase, Fetching
<1>3. CASE RecordWorker
  BY <1>3 DEF RecordWorker, files, Goto, TypeOK, WorldType, Engines
<1>4. CASE JudgeStalled \/ JudgeDiskFull \/ JudgeDenied \/ JudgeUnavailable \/ JudgeRetry
  BY <1>4 DEF JudgeStalled, JudgeDiskFull, JudgeDenied, JudgeUnavailable, JudgeRetry,
     Quiet, world, files, Goto, Leave
<1>5. CASE Hash \/ Intent \/ IntentFails \/ Link \/ LinkCollides \/ LinkFails
           \/ FinalizedEvent \/ Complete \/ UnlinkStaging \/ CleanupDone
  BY <1>5 DEF Hash, Intent, IntentFails, Link, LinkCollides, LinkFails, FinalizedEvent,
     Complete, UnlinkStaging, CleanupDone, Quiet, world, files, Goto, Leave
<1>6. CASE CandidateLink \/ CandidateUnlink \/ CandidateEvent \/ CandidateReview
           \/ StillUnavailable \/ AvailableAgain
  BY <1>6 DEF CandidateLink, CandidateUnlink, CandidateEvent, CandidateReview,
     StillUnavailable, AvailableAgain, Quiet, world, files, Goto, Leave
<1>7. CASE Boot
  <2>1. Survivors = "none" \/ UNCHANGED <<run, selected>>
    BY <1>7 DEF Boot, OneWriter, TypeOK, ScopeType, Run, scope
  <2> QED
    BY <1>7, <2>1 DEF Boot, world, files, Goto
<1>8. CASE ReconcilePromotion \/ ScopeRun \/ ScopeExisting
  BY <1>8 DEF ReconcilePromotion, ScopeRun, ScopeExisting, Intended, Quiet, world, files,
     scope, row, Goto, Leave, Finish
<1>9. CASE CleanupStaging \/ RemediateSafePath
  BY <1>9 DEF CleanupStaging, RemediateSafePath, NeedsCleanup, Remediable, Quiet, world,
     files, scope, Goto
<1>10. CASE RequeueInterrupted
  BY <1>10 DEF RequeueInterrupted, Survivor, Interrupted, files, scope, Goto
<1>11. CASE MainLoop
  BY <1>11 DEF MainLoop, Pick, ClaimRecheck, Exit, Eligible, Retryable, Quiet, row, scope,
     world, files
<1>12. CASE Control
  BY <1>12 DEF Control, ExcludeItem, ResumeNewGeneration, RetryAccessDenied, RequestStop,
     ControlOpen, Excludable, world, files, scope, row, ControlOnly
<1>13. CASE EngineOk \/ EngineFail
  BY <1>13 DEF EngineOk, EngineFail, EngineGone, files, TypeOK, WorldType
<1>14. ASSUME NEW e \in Epoch, EngineWrite(e) PROVE EnginePhase'
  <2> DEFINE g   == engine[e]
             ino == IF staging # 0 THEN staging ELSE inodes + 1
  <2>1. /\ g \in Engines /\ g.ino = staging /\ staging' = ino
        /\ engine' = [engine EXCEPT ![e] = [g EXCEPT !.at = g.at + 1, !.ino = ino]]
        /\ UNCHANGED <<final, pc, epoch, lastWriter, run, selected, status>>
    BY <1>14 DEF EngineWrite, TypeOK, WorldType, scope, row
  <2>2. [g EXCEPT !.at = g.at + 1, !.ino = ino].ino = ino
        /\ [g EXCEPT !.at = g.at + 1, !.ino = ino].recorded = g.recorded
    BY <2>1 DEF Engines
  <2>3. staging' # final
    BY <1>14, ChunkWritten
  <2>4. \A d \in Epoch : engine'[d] # None => d = e
    BY <1>14, <2>1, SoleEngine DEF EngineWrite, TypeOK, WorldType
  <2> QED
    BY <1>14, <2>1, <2>2, <2>3, <2>4 DEF EngineWrite, TypeOK, WorldType
<1>15. ASSUME NEW e \in Epoch, OrphanEnds(e) PROVE EnginePhase'
  BY <1>15 DEF OrphanEnds, EngineGone, files, scope, row, TypeOK, WorldType
<1>16. CASE Crash
  <2>1. /\ pc' = "down" /\ UNCHANGED <<staging, final, lastWriter, run, selected, status>>
        /\ engine' = [e \in Epoch |-> IF Survives(e) THEN engine[e] ELSE None]
    BY <1>16 DEF Crash, Leave, files, scope, row
  <2>2. ASSUME NEW e \in Epoch, engine'[e] # None
        PROVE  /\ engine'[e] = engine[e] /\ engine[e] # None /\ engine[e].recorded
               /\ Survivors = "recorded"
    BY <2>1, <2>2 DEF Survives, OneWriter
  <2>3. ASSUME NEW e \in Epoch, engine'[e] # None PROVE Outlived(e)'
    <3>1. engine'[e] = engine[e] /\ engine[e] # None /\ engine[e].recorded
          /\ Survivors = "recorded"
      BY <2>2, <2>3
    <3>2. /\ lastWriter[run] = e /\ selected /\ status \in {"active", "excluded"}
      BY <3>1
    <3> QED
      BY <2>1, <3>1, <3>2
  <2> QED
    BY <2>1, <2>2, <2>3
<1>17. CASE SourceChanges
  BY <1>17 DEF SourceChanges, files, scope, row
<1>18. CASE FinalAppears
  <2>1. staging # inodes + 1
    BY SizesAssumption DEF TypeOK, FilesType
  <2> QED
    BY <1>18, <2>1 DEF FinalAppears, world, scope, row
<1> QED
  BY <1>1, <1>2, <1>3, <1>4, <1>5, <1>6, <1>7, <1>8, <1>9, <1>10, <1>11, <1>12, <1>13, <1>14,
     <1>15, <1>16, <1>17, <1>18
  DEF Next, Worker, Startup, Engine, Environment

\* The attempt in progress is of a selected item and has the engine that the manifest names.
LEMMA AttemptStep ==
    ASSUME TypeOK, PhaseInvariant, Next
    PROVE  AttemptPhase'
<1> USE DEF PhaseInvariant, AttemptPhase, Goto, Leave, Quiet, ControlOnly, row, scope, files,
            proof, world
<1>1. CASE Admit \/ Start \/ Probe \/ Activate
  BY <1>1 DEF Admit, Start, Probe, Activate
<1>2. CASE Spawn
  BY <1>2, SoleEngine DEF Spawn, EnginePhase, Outlived, Booting, TypeOK, WorldType
<1>3. CASE RecordWorker
  BY <1>3 DEF RecordWorker, EnginePhase, Outlived, Booting, TypeOK, WorldType, ScopeType
<1>4. CASE JudgeStalled \/ JudgeDiskFull \/ JudgeDenied \/ JudgeUnavailable \/ JudgeRetry
  BY <1>4 DEF JudgeStalled, JudgeDiskFull, JudgeDenied, JudgeUnavailable, JudgeRetry
<1>5. CASE Hash \/ Intent \/ IntentFails \/ Link \/ LinkCollides \/ LinkFails
           \/ FinalizedEvent \/ Complete \/ UnlinkStaging \/ CleanupDone
  BY <1>5, AfterType DEF Hash, Intent, IntentFails, Link, LinkCollides, LinkFails,
     FinalizedEvent, Complete, UnlinkStaging, CleanupDone
<1>6. CASE CandidateLink \/ CandidateUnlink \/ CandidateEvent \/ CandidateReview
           \/ StillUnavailable \/ AvailableAgain
  BY <1>6 DEF CandidateLink, CandidateUnlink, CandidateEvent, CandidateReview,
     StillUnavailable, AvailableAgain
<1>7. CASE Startup
  BY <1>7 DEF Startup, Boot, ReconcilePromotion, ScopeRun, ScopeExisting, CleanupStaging,
     RemediateSafePath, RequeueInterrupted, Finish
<1>8. CASE MainLoop
  BY <1>8 DEF MainLoop, Pick, ClaimRecheck, Exit, Eligible
<1>9. CASE Control
  BY <1>9 DEF Control, ExcludeItem, ResumeNewGeneration, RetryAccessDenied, RequestStop
<1>10. CASE EngineOk \/ EngineFail
  BY <1>10 DEF EngineOk, EngineFail
<1>11. ASSUME NEW e \in Epoch, EngineWrite(e) PROVE AttemptPhase'
  BY <1>11 DEF EngineWrite, TypeOK, WorldType, Engines
<1>12. ASSUME NEW e \in Epoch, OrphanEnds(e) PROVE AttemptPhase'
  BY <1>12 DEF OrphanEnds, EngineGone, TypeOK, WorldType
<1>13. CASE Environment
  BY <1>13 DEF Environment, Crash, SourceChanges, FinalAppears
<1> QED
  BY <1>1, <1>2, <1>3, <1>4, <1>5, <1>6, <1>7, <1>8, <1>9, <1>10, <1>11, <1>12, <1>13
  DEF Next, Worker, Engine

\* A final file that appears is a new file: the staged one is left alone.
LEMMA AppearsElsewhere ==
    ASSUME TypeOK, FinalAppears
    PROVE  /\ final = 0 /\ final' # 0 /\ (staging # 0 => disk'[staging] = disk[staging])
           /\ UNCHANGED staging /\ staging # final'
<1>1. staging \in 0..inodes /\ inodes \in 0..MaxInode /\ inodes < MaxInode
  BY DEF TypeOK, FilesType, FinalAppears
<1>2. staging # inodes + 1 /\ inodes + 1 # 0
  BY <1>1, SizesAssumption
<1>3. staging # 0 => staging \in Inode
  BY <1>1, SizesAssumption DEF Inode
<1>4. PICK v \in Version : disk' = [disk EXCEPT ![inodes + 1] = [k \in Chunk |-> v]]
  BY DEF FinalAppears
<1> QED
  BY <1>2, <1>3, <1>4 DEF FinalAppears, TypeOK, FilesType

\* The locals of a hashed attempt name a body.
LEMMA StagedBody ==
    ASSUME TypeOK, staging # 0
    PROVE  disk[staging] \in Body /\ disk[staging] # None
<1>1. staging \in Inode
  BY SizesAssumption DEF TypeOK, FilesType, Inode
<1> QED
  BY <1>1, NoneAssumption DEF TypeOK, FilesType

\* Attempts are counted below the ceiling and moves have their reason.
LEMMA LocalsStep ==
    ASSUME TypeOK, PhaseInvariant, Next
    PROVE  LocalsPhase'
<1> USE DEF TypeOK, ThreadType, Jobs, PhaseInvariant, LocalsPhase, Moving, Goto, Leave, Quiet, ControlOnly, row, scope, files,
            proof, world
<1>1. CASE Admit \/ Start \/ Probe \/ Activate \/ Spawn \/ RecordWorker
  BY <1>1, ReasonAssumption DEF Admit, Start, Probe, Activate, Spawn, RecordWorker,
     ReviewCause, CandidateReasons, RepresentationReview
<1>2. CASE JudgeStalled \/ JudgeDiskFull \/ JudgeDenied \/ JudgeUnavailable \/
         JudgeRetry
  BY <1>2, ReasonAssumption DEF JudgeStalled, JudgeDiskFull, JudgeDenied,
     JudgeUnavailable, JudgeRetry, CandidateReasons
<1>3. CASE Hash \/ Intent \/ IntentFails
  BY <1>3, NoneAssumption DEF Hash, Intent, IntentFails, Mismatch
<1>4. CASE Link \/ LinkCollides \/ LinkFails
  BY <1>4, AfterType, ReasonAssumption DEF Link, LinkCollides, LinkFails,
     CandidateReasons
<1>5. CASE FinalizedEvent \/ Complete \/ UnlinkStaging \/ CleanupDone
  BY <1>5, AfterType DEF FinalizedEvent, Complete, UnlinkStaging, CleanupDone
<1>6. CASE CandidateLink \/ CandidateUnlink \/ CandidateEvent \/ CandidateReview
  BY <1>6 DEF CandidateLink, CandidateUnlink, CandidateEvent, CandidateReview
<1>7. CASE StillUnavailable \/ AvailableAgain
  BY <1>7, ReasonAssumption DEF StillUnavailable, AvailableAgain, ReviewCause,
     CandidateReasons, RepresentationReview
<1>8. CASE Boot \/ ReconcilePromotion \/ ScopeRun \/ ScopeExisting
  BY <1>8 DEF Boot, ReconcilePromotion, ScopeRun, ScopeExisting, Finish, NoJob
<1>9. CASE CleanupStaging \/ RemediateSafePath \/ RequeueInterrupted
  BY <1>9 DEF CleanupStaging, RemediateSafePath, RequeueInterrupted, NoJob
<1>10. CASE Pick \/ ClaimRecheck \/ Exit
  BY <1>10 DEF Pick, ClaimRecheck, Exit, Eligible, NoJob
<1>11. CASE ExcludeItem \/ ResumeNewGeneration \/ RetryAccessDenied \/ RequestStop
  BY <1>11 DEF ExcludeItem, ResumeNewGeneration, RetryAccessDenied, RequestStop
<1>12. CASE EngineOk \/ EngineFail
  BY <1>12 DEF EngineOk, EngineFail
<1>13. CASE Crash \/ SourceChanges \/ FinalAppears
  BY <1>13 DEF Crash, SourceChanges, FinalAppears
<1>14. ASSUME NEW e \in Epoch, EngineWrite(e) PROVE LocalsPhase'
  BY <1>14 DEF EngineWrite
<1>15. ASSUME NEW e \in Epoch, OrphanEnds(e) PROVE LocalsPhase'
  BY <1>15 DEF OrphanEnds
<1> QED
  BY <1>1, <1>2, <1>3, <1>4, <1>5, <1>6, <1>7, <1>8, <1>9, <1>10, <1>11, <1>12, <1>13, <1>14, <1>15
  DEF Next, Worker, Startup, MainLoop, Control, Engine, Environment

\* The staged file is there, unpublished, where the code relies on it.
LEMMA StagedStep ==
    ASSUME TypeOK, PhaseInvariant, Next
    PROVE  StagedPhase'
<1> USE DEF PhaseInvariant, StagedPhase, Fetching, Goto, Leave, Quiet,
            ControlOnly, row, version, verdict, closing, scope, files, proof, world
<1>1. CASE Admit \/ Start \/ Probe \/ Activate \/ Spawn \/ RecordWorker
  BY <1>1, StagedSizeType DEF Admit, Start, Probe, Activate, Spawn, RecordWorker,
     TargetExists, PartialExists
<1>2. CASE JudgeStalled \/ JudgeDiskFull \/ JudgeDenied \/ JudgeUnavailable \/
         JudgeRetry
  BY <1>2, StagedSizeType DEF JudgeStalled, JudgeDiskFull, JudgeDenied,
     JudgeUnavailable, JudgeRetry, Stalled, PartialExists
<1>3. CASE Hash \/ Intent \/ IntentFails
  BY <1>3 DEF Hash, Intent, IntentFails, TypeOK, ThreadType, Jobs
<1>4. CASE Link \/ LinkCollides \/ LinkFails
  BY <1>4, AfterType DEF Link, LinkCollides, LinkFails, TargetExists
<1>5. CASE FinalizedEvent \/ Complete \/ UnlinkStaging \/ CleanupDone
  BY <1>5, AfterType DEF FinalizedEvent, Complete, UnlinkStaging, CleanupDone
<1>6. CASE CandidateLink \/ CandidateUnlink \/ CandidateEvent \/ CandidateReview
  BY <1>6 DEF CandidateLink, CandidateUnlink, CandidateEvent, CandidateReview
<1>7. CASE StillUnavailable \/ AvailableAgain
  BY <1>7, StagedSizeType DEF StillUnavailable, AvailableAgain
<1>8. CASE Boot \/ ReconcilePromotion \/ ScopeRun \/ ScopeExisting
  BY <1>8 DEF Boot, ReconcilePromotion, ScopeRun, ScopeExisting, Finish, Relinkable
<1>9. CASE CleanupStaging \/ RemediateSafePath \/ RequeueInterrupted
  BY <1>9 DEF CleanupStaging, RemediateSafePath, RequeueInterrupted
<1>10. CASE Pick \/ ClaimRecheck \/ Exit
  BY <1>10 DEF Pick, ClaimRecheck, Exit
<1>11. CASE ExcludeItem \/ ResumeNewGeneration \/ RetryAccessDenied \/ RequestStop
  BY <1>11 DEF ExcludeItem, ResumeNewGeneration, RetryAccessDenied, RequestStop
<1>12. CASE EngineOk \/ EngineFail
  BY <1>12, StagedSizeType DEF EngineOk, EngineFail, EngineGone
<1>13. CASE Crash \/ SourceChanges
  BY <1>13 DEF Crash, SourceChanges
<1>16. CASE FinalAppears
  BY <1>16, AppearsElsewhere DEF FinalAppears
<1>14. ASSUME NEW e \in Epoch, EngineWrite(e) PROVE StagedPhase'
  BY <1>14, ChunkWritten DEF Booting
<1>15. ASSUME NEW e \in Epoch, OrphanEnds(e) PROVE StagedPhase'
  BY <1>15 DEF OrphanEnds
<1> QED
  BY <1>1, <1>2, <1>3, <1>4, <1>5, <1>6, <1>7, <1>8, <1>9, <1>10, <1>11, <1>12, <1>13, <1>14, <1>15,
     <1>16
  DEF Next, Worker, Startup, MainLoop, Control, Engine, Environment

\* A promotion intent keeps naming the bytes it is about.
LEMMA IntentStep ==
    ASSUME TypeOK, PhaseInvariant, Next
    PROVE  IntentPhase'
<1> USE DEF PhaseInvariant, IntentPhase, Moving, Goto, Leave, Quiet,
            ControlOnly, row, version, verdict, closing, scope, files, proof, world
<1>1. CASE Admit \/ Start \/ Probe \/ Activate \/ Spawn \/ RecordWorker
  BY <1>1 DEF Admit, Start, Probe, Activate, Spawn, RecordWorker
<1>2. CASE JudgeStalled \/ JudgeDiskFull \/ JudgeDenied \/ JudgeUnavailable \/
         JudgeRetry
  BY <1>2 DEF JudgeStalled, JudgeDiskFull, JudgeDenied, JudgeUnavailable, JudgeRetry
<1>3. CASE Hash \/ IntentFails
  BY <1>3 DEF Hash, IntentFails
<1>17. CASE Intent
  <2>1. job.digest # None /\ disk[staging] = job.digest
    BY <1>17, StagedBody DEF Intent, StagedPhase
  <2> QED
    BY <1>17, <2>1 DEF Intent
<1>4. CASE Link \/ LinkCollides \/ LinkFails
  BY <1>4, AfterType DEF Link, LinkCollides, LinkFails, TargetExists, StagedPhase
<1>5. CASE Complete \/ UnlinkStaging \/ CleanupDone
  BY <1>5, AfterType DEF Complete, UnlinkStaging, CleanupDone, ClosedPhase
<1>18. CASE FinalizedEvent
  <2> DEFINE event == [sha |-> job.digest, claim |-> job.expected]
  <2>1. event \in finalized' /\ event.sha = sha
    BY <1>18 DEF FinalizedEvent
  <2> QED
    BY <1>18, <2>1 DEF FinalizedEvent
<1>6. CASE CandidateLink \/ CandidateUnlink \/ CandidateEvent \/ CandidateReview
  BY <1>6 DEF CandidateLink, CandidateUnlink, CandidateEvent, CandidateReview
<1>7. CASE StillUnavailable \/ AvailableAgain
  BY <1>7 DEF StillUnavailable, AvailableAgain
<1>8. CASE Boot \/ ReconcilePromotion \/ ScopeRun \/ ScopeExisting
  BY <1>8 DEF Boot, ReconcilePromotion, ScopeRun, ScopeExisting, Finish, Relinkable,
     TargetMatches, Intended, NoJob, TargetExists
<1>9. CASE CleanupStaging \/ RemediateSafePath \/ RequeueInterrupted
  BY <1>9 DEF CleanupStaging, RemediateSafePath, RequeueInterrupted, NoJob
<1>10. CASE Pick \/ ClaimRecheck \/ Exit
  BY <1>10 DEF Pick, ClaimRecheck, Exit
<1>11. CASE ExcludeItem \/ ResumeNewGeneration \/ RetryAccessDenied \/ RequestStop
  BY <1>11 DEF ExcludeItem, ResumeNewGeneration, RetryAccessDenied, RequestStop,
     Excludable
<1>12. CASE EngineOk \/ EngineFail
  BY <1>12 DEF EngineOk, EngineFail
<1>13. CASE Crash \/ SourceChanges
  BY <1>13 DEF Crash, SourceChanges
<1>16. CASE FinalAppears
  BY <1>16, AppearsElsewhere DEF FinalAppears
<1>14. ASSUME NEW e \in Epoch, EngineWrite(e) PROVE IntentPhase'
  BY <1>14, ChunkWritten DEF Booting
<1>15. ASSUME NEW e \in Epoch, OrphanEnds(e) PROVE IntentPhase'
  BY <1>15 DEF OrphanEnds
<1> QED
  BY <1>1, <1>2, <1>3, <1>4, <1>5, <1>6, <1>7, <1>8, <1>9, <1>10, <1>11, <1>12, <1>13, <1>14, <1>15,
     <1>16, <1>17, <1>18
  DEF Next, Worker, Startup, MainLoop, Control, Engine, Environment

\* Nothing works on a completed item.
LEMMA ClosedStep ==
    ASSUME TypeOK, PhaseInvariant, Next
    PROVE  ClosedPhase'
<1> USE DEF PhaseInvariant, ClosedPhase, Before, Fetching, Moving, Goto, Leave, Quiet,
            ControlOnly, row, version, verdict, closing, scope, files, proof, world
<1>1. CASE Admit \/ Start \/ Probe \/ Activate \/ Spawn \/ RecordWorker
  BY <1>1 DEF Admit, Start, Probe, Activate, Spawn, RecordWorker
<1>2. CASE JudgeStalled \/ JudgeDiskFull \/ JudgeDenied \/ JudgeUnavailable \/
         JudgeRetry
  BY <1>2 DEF JudgeStalled, JudgeDiskFull, JudgeDenied, JudgeUnavailable, JudgeRetry
<1>3. CASE Hash \/ Intent \/ IntentFails
  BY <1>3 DEF Hash, Intent, IntentFails
<1>4. CASE Link \/ LinkCollides \/ LinkFails
  BY <1>4, AfterType DEF Link, LinkCollides, LinkFails, IntentPhase
<1>5. CASE FinalizedEvent \/ Complete \/ UnlinkStaging \/ CleanupDone
  BY <1>5, AfterType DEF FinalizedEvent, Complete, UnlinkStaging, CleanupDone,
     IntentPhase
<1>6. CASE CandidateLink \/ CandidateUnlink \/ CandidateEvent \/ CandidateReview
  BY <1>6 DEF CandidateLink, CandidateUnlink, CandidateEvent, CandidateReview
<1>7. CASE StillUnavailable \/ AvailableAgain
  BY <1>7 DEF StillUnavailable, AvailableAgain
<1>8. CASE Boot \/ ReconcilePromotion \/ ScopeRun \/ ScopeExisting
  BY <1>8 DEF Boot, ReconcilePromotion, ScopeRun, ScopeExisting, Finish, Intended
<1>9. CASE CleanupStaging \/ RemediateSafePath \/ RequeueInterrupted
  BY <1>9 DEF CleanupStaging, RemediateSafePath, RequeueInterrupted, NeedsCleanup,
     Remediable, Interrupted
<1>10. CASE Pick \/ ClaimRecheck \/ Exit
  BY <1>10 DEF Pick, ClaimRecheck, Exit, Eligible, Retryable
<1>11. CASE ExcludeItem \/ ResumeNewGeneration \/ RetryAccessDenied \/ RequestStop
  BY <1>11 DEF ExcludeItem, ResumeNewGeneration, RetryAccessDenied, RequestStop,
     Excludable
<1>12. CASE EngineOk \/ EngineFail
  BY <1>12 DEF EngineOk, EngineFail
<1>13. CASE Crash \/ SourceChanges
  BY <1>13 DEF Crash, SourceChanges
<1>16. CASE FinalAppears
  BY <1>16, AppearsElsewhere DEF FinalAppears
<1>14. ASSUME NEW e \in Epoch, EngineWrite(e) PROVE ClosedPhase'
  BY <1>14, ChunkWritten DEF Booting
<1>15. ASSUME NEW e \in Epoch, OrphanEnds(e) PROVE ClosedPhase'
  BY <1>15 DEF OrphanEnds
<1> QED
  BY <1>1, <1>2, <1>3, <1>4, <1>5, <1>6, <1>7, <1>8, <1>9, <1>10, <1>11, <1>12, <1>13, <1>14, <1>15,
     <1>16
  DEF Next, Worker, Startup, MainLoop, Control, Engine, Environment

\* A completed row keeps its final file, its digest and its event.
LEMMA CompleteStep ==
    ASSUME TypeOK, PhaseInvariant, CompleteHasFinal, Next
    PROVE  CompleteHasFinal'
<1> SUFFICES ASSUME status' = "complete"
             PROVE  final' # 0 /\ disk'[final'] = sha' /\ \E f \in finalized' : f.sha = sha'
  BY DEF CompleteHasFinal
<1> USE DEF PhaseInvariant, CompleteHasFinal
<1>1. CASE status # "complete"
  <2>1. Complete
    BY <1>1, RowFrame DEF Admit, Start, Activate, JudgeDiskFull, JudgeDenied,
       JudgeUnavailable, JudgeRetry, Intent, IntentFails, LinkCollides, LinkFails,
       CleanupDone, CandidateReview, AvailableAgain, ExcludeItem, ResumeNewGeneration,
       RetryAccessDenied, Boot, ReconcilePromotion, ScopeExisting, RemediateSafePath,
       RequeueInterrupted, row, Finish, ClosedPhase
  <2> QED
    BY <2>1 DEF Complete, IntentPhase, files, proof
<1>2. CASE status = "complete"
  <2>1. sha' = sha
    BY <1>2, RowFrame DEF Admit, Start, Activate, JudgeDiskFull, JudgeDenied,
       JudgeUnavailable, JudgeRetry, Intent, IntentFails, LinkCollides, LinkFails,
       Complete, CleanupDone, CandidateReview, AvailableAgain, ExcludeItem,
       ResumeNewGeneration, RetryAccessDenied, Boot, ReconcilePromotion, ScopeExisting,
       RemediateSafePath, RequeueInterrupted, row, verdict, Finish, ControlOnly,
       IntentPhase, Tracked
  <2>2. final' = final /\ disk'[final] = disk[final]
    BY <1>2, FilesFrame, ChunkWritten DEF Link, LinkFails, UnlinkStaging, CandidateLink,
       CandidateUnlink, FinalAppears, files, IntentPhase, ClosedPhase, Before, Fetching
  <2>3. finalized \subseteq finalized'
    BY EventsFrame DEF FinalizedEvent, CandidateEvent, proof
  <2> QED
    BY <1>2, <2>1, <2>2, <2>3
<1> QED
  BY <1>1, <1>2

-----------------------------------------------------------------------------
(* The theorems.                                                           *)

Safe == TypeOK /\ PhaseInvariant /\ CompleteHasFinal

\* The inductive invariant holds: it is true at first and kept by every step.
THEOREM SafeAlways ==
    ASSUME OneWriter
    PROVE  Spec => []Safe
<1>1. Init => Safe
  BY InitInvariant DEF Safe
<1>2. Safe /\ [Next]_vars => Safe'
  <2> SUFFICES ASSUME Safe, [Next]_vars PROVE Safe'
    OBVIOUS
  <2>1. CASE Next
    BY <2>1, TypeStep, EngineStep, AttemptStep, StagedStep, IntentStep, ClosedStep, LocalsStep,
       CompleteStep DEF Safe, PhaseInvariant
  <2>2. CASE UNCHANGED vars
    BY <2>2 DEF Safe, vars, row, version, verdict, closing, scope, files, proof, world,
       TypeOK, RowType, ScopeType, FilesType, EventsType, ThreadType, WorldType,
       PhaseInvariant, EnginePhase, Outlived, AttemptPhase, StagedPhase, IntentPhase,
       ClosedPhase, LocalsPhase, CompleteHasFinal
  <2> QED
    BY <2>1, <2>2
<1> QED
  BY <1>1, <1>2, PTL DEF Spec

\* Every variable keeps its type, in particular the attempt counter stays within
\* --max-attempts and every name links to a file that was created.
THEOREM TypeCorrect ==
    ASSUME OneWriter
    PROVE  Spec => []TypeOK
<1>1. Safe => TypeOK
  BY DEF Safe
<1> QED
  BY <1>1, SafeAlways, PTL

\* The phase invariant that the other results rest on.
THEOREM PhasesKept ==
    ASSUME OneWriter
    PROVE  Spec => []PhaseInvariant
<1>1. Safe => PhaseInvariant
  BY DEF Safe
<1> QED
  BY <1>1, SafeAlways, PTL

\* A row that says complete has its final file, with the recorded digest, and
\* its finalized event.
THEOREM CompleteSafe ==
    ASSUME OneWriter
    PROVE  Spec => []CompleteHasFinal
<1>1. Safe => CompleteHasFinal
  BY DEF Safe
<1> QED
  BY <1>1, SafeAlways, PTL

\* No engine holds the published file: engines run only between spawn and wait,
\* where the staged file they hold is not the published one.
THEOREM PublishedSafe ==
    ASSUME OneWriter
    PROVE  Spec => []PublishedHasNoWriter
<1>1. Safe => PublishedHasNoWriter
  BY DEF Safe, PhaseInvariant, EnginePhase, StagedPhase, Fetching, PublishedHasNoWriter
<1> QED
  BY <1>1, SafeAlways, PTL

\* A step that removes the staging name leaves the bytes under another one.
LEMMA EvidenceStep ==
    ASSUME Safe, Next, staging # 0, staging' # staging
    PROVE  staging \in cands' \/ (final' # 0 /\ disk'[final'] = disk[staging])
<1> USE DEF Safe, PhaseInvariant
<1>1. CASE UnlinkStaging
  BY <1>1 DEF UnlinkStaging, ClosedPhase, CompleteHasFinal
<1>2. CASE CandidateUnlink
  BY <1>2 DEF CandidateUnlink, StagedPhase
<1>3. CASE ~UnlinkStaging /\ ~CandidateUnlink
  BY <1>3, FilesFrame DEF files, Link, LinkFails, CandidateLink, FinalAppears,
     EngineWrite, EnginePhase
<1> QED
  BY <1>1, <1>2, <1>3

\* Staged bytes are never lost.
THEOREM EvidenceSafe ==
    ASSUME OneWriter
    PROVE  Spec => EvidenceKept
<1>1. Safe /\ [Next]_vars =>
        [staging # 0 /\ staging' # staging =>
            \/ staging \in cands'
            \/ final' # 0 /\ disk'[final'] = disk[staging]]_vars
  BY EvidenceStep DEF vars, files
<1> QED
  BY <1>1, SafeAlways, PTL DEF Spec, EvidenceKept

-----------------------------------------------------------------------------
(* Acquisition implements Custody.                                         *)

\* What is published: nothing changes it but the first final file.
LEMMA PublishedStep ==
    ASSUME Safe, Next
    PROVE  \/ UNCHANGED final /\ (final # 0 => disk'[final] = disk[final])
           \/ final = 0 /\ final' # 0 /\ disk'[final'] \in Body
<1> USE DEF Safe, PhaseInvariant
<1>1. TypeOK'
  BY TypeStep
<1>2. CASE UNCHANGED files
  BY <1>2 DEF files
<1>3. CASE UNCHANGED <<disk, final>>
  BY <1>3
<1>4. CASE Link \/ LinkFails
  <2>1. UNCHANGED disk /\ staging # 0 /\ disk[staging] \in Body
    BY <1>4, StagedBody DEF Link, LinkFails, StagedPhase
  <2>2. UNCHANGED final \/ (final = 0 /\ final' = staging)
    BY <1>4 DEF Link, LinkFails, TargetExists
  <2> QED
    BY <2>1, <2>2
<1>5. CASE FinalAppears
  <2>1. final = 0 /\ final' # 0
    BY <1>5, AppearsElsewhere
  <2>2. final' \in Inode
    BY <1>1, <2>1, SizesAssumption DEF TypeOK, FilesType, Inode
  <2> QED
    BY <1>1, <2>1, <2>2 DEF TypeOK, FilesType
<1>6. ASSUME NEW e \in Epoch, EngineWrite(e)
      PROVE  UNCHANGED final /\ (final # 0 => disk'[final] = disk[final])
  <2>1. engine[e].ino = staging /\ (staging = 0 \/ staging # final)
    BY <1>6 DEF EngineWrite, EnginePhase, StagedPhase, Fetching
  <2>2. final # inodes + 1
    BY DEF TypeOK, FilesType
  <2> QED
    BY <1>6, <2>1, <2>2 DEF EngineWrite, TypeOK, FilesType
<1> QED
  BY FilesFrame, <1>2, <1>3, <1>4, <1>5, <1>6
  DEF UnlinkStaging, CandidateLink, CandidateUnlink

\* What is recorded: nothing changes it but the completion.
LEMMA RecordedStep ==
    ASSUME Safe, Next
    PROVE  \/ (status = "complete") = (status' = "complete")
              /\ (status = "complete" => sha' = sha)
           \/ status # "complete" /\ status' = "complete" /\ sha' = disk[final]
              /\ final # 0 /\ UNCHANGED <<disk, final>>
<1> USE DEF Safe, PhaseInvariant
<1>1. CASE Complete
  BY <1>1 DEF Complete, IntentPhase, files
<1>2. CASE ~Complete
  BY <1>2, RowFrame DEF Admit, Start, Activate, JudgeDiskFull, JudgeDenied,
     JudgeUnavailable, JudgeRetry, Intent, IntentFails, LinkCollides, LinkFails,
     CleanupDone, CandidateReview, AvailableAgain, ExcludeItem, ResumeNewGeneration,
     RetryAccessDenied, Boot, ReconcilePromotion, ScopeExisting, RemediateSafePath,
     RequeueInterrupted, row, verdict, Finish, ControlOnly, IntentPhase, ClosedPhase,
     Tracked, Before, Fetching, Moving, Excludable, Interrupted, Remediable, Intended
<1> QED
  BY <1>1, <1>2

\* Every step of the item is a Publish, a Record or a stutter of Custody.
LEMMA CustodyStep ==
    ASSUME Safe, Next
    PROVE  LET p == IF final = 0 THEN None ELSE disk[final]
               r == IF status = "complete" THEN sha ELSE None
           IN  Evidence!Next \/ UNCHANGED <<p, r>>
<1> DEFINE p == IF final = 0 THEN None ELSE disk[final]
           r == IF status = "complete" THEN sha ELSE None
<1>1. p' = p \/ (p = None /\ p' \in Body)
  BY PublishedStep
<1>2. r' = r \/ (p # None /\ r = None /\ r' = p /\ p' = p)
  <2>1. final # 0 => disk[final] # None
    <3>1. final # 0 => final \in Inode
      BY SizesAssumption DEF Safe, TypeOK, FilesType, Inode
    <3> QED
      BY <3>1, NoneAssumption DEF Safe, TypeOK, FilesType
  <2> QED
    BY <2>1, RecordedStep
<1>3. p' # p => r' = r
  BY <1>1, <1>2
<1> QED
  BY <1>1, <1>2, <1>3 DEF Evidence!Next, Evidence!Publish, Evidence!Record

\* The item implements Custody: a final file is published at most once, its
\* bytes never change, and a completed row names them for good.
THEOREM CustodySafe ==
    ASSUME OneWriter
    PROVE  Spec => CustodyKept
<1>1. Init => Evidence!Init
  BY DEF Init, Evidence!Init
<1>2. Safe /\ [Next]_vars =>
        [Evidence!Next]_<<IF final = 0 THEN None ELSE disk[final],
                          IF status = "complete" THEN sha ELSE None>>
  BY CustodyStep DEF vars, row, verdict, files
<1> QED
  BY <1>1, <1>2, SafeAlways, PTL DEF Spec, CustodyKept, Evidence!Spec

-----------------------------------------------------------------------------
(* Checksum claims, also when later queues change the checksum.            *)

\* An attempt runs under a run whose manifest names it.
LEMMA NamedStep ==
    ASSUME TypeOK, PhaseInvariant, AttemptNamed, Next
    PROVE  AttemptNamed'
<1> USE DEF TypeOK, AttemptNamed, Goto, Leave, Quiet, ControlOnly, row, scope, files, proof, world
<1>1. run \in Run /\ lastWriter \in [Run -> 0..MaxEpoch] /\ epoch \in Epoch
  BY DEF ScopeType, WorldType
<1>2. CASE RecordWorker
  BY <1>1, <1>2, SizesAssumption DEF RecordWorker, Epoch, Run
<1>3. CASE Boot
  <2>1. lastWriter' = lastWriter /\ pc' = "reconcile"
    BY <1>3 DEF Boot
  <2>2. \/ run' = run
        \/ run' = run + 1 /\ run' \in Run
    BY <1>1, <1>3, SizesAssumption DEF Boot, Run
  <2> QED
    BY <1>1, <2>1, <2>2, SizesAssumption DEF Run
<1>4. CASE ScopeRun
  BY <1>4 DEF ScopeRun
<1>5. CASE UNCHANGED <<scope, lastWriter>>
  <2>1. UNCHANGED <<run, lastWriter>>
    BY <1>5
  <2>2. pc' \in {"run", "judge", "hash", "intent"} => pc \in {"run", "judge", "hash", "intent"} \/ RecordWorker
    BY AfterType DEF Next, Worker, Startup, MainLoop, Control, Engine, Environment,
       Pick, Admit, Start, Probe, Activate, Spawn, JudgeStalled, JudgeDiskFull,
       JudgeDenied, JudgeUnavailable, JudgeRetry, Hash, Intent, IntentFails, Link,
       LinkCollides, LinkFails, FinalizedEvent, Complete, UnlinkStaging, CleanupDone,
       CandidateLink, CandidateUnlink, CandidateEvent, CandidateReview,
       StillUnavailable, AvailableAgain, Boot, ReconcilePromotion, Finish, ScopeRun, ScopeExisting,
       CleanupStaging, RemediateSafePath, RequeueInterrupted, ClaimRecheck, Exit,
       ExcludeItem, ResumeNewGeneration, RetryAccessDenied, RequestStop, EngineOk,
       EngineFail, Crash, SourceChanges, FinalAppears, OrphanEnds, EngineWrite
  <2>3. pc' \in {"link", "ledger", "complete"} /\ job'.ctx = "transfer" =>
            \/ pc = "intent"
            \/ pc \in {"link", "ledger", "complete"} /\ job.ctx = "transfer"
    BY AfterType DEF Next, Worker, Startup, MainLoop, Control, Engine, Environment,
       Pick, Admit, Start, Probe, Activate, Spawn, RecordWorker, JudgeStalled, JudgeDiskFull,
       JudgeDenied, JudgeUnavailable, JudgeRetry, Hash, Intent, IntentFails, Link,
       LinkCollides, LinkFails, FinalizedEvent, Complete, UnlinkStaging, CleanupDone,
       CandidateLink, CandidateUnlink, CandidateEvent, CandidateReview,
       StillUnavailable, AvailableAgain, Boot, ReconcilePromotion, Finish, ScopeRun, ScopeExisting,
       CleanupStaging, RemediateSafePath, RequeueInterrupted, ClaimRecheck, Exit,
       ExcludeItem, ResumeNewGeneration, RetryAccessDenied, RequestStop, EngineOk,
       EngineFail, Crash, SourceChanges, FinalAppears, OrphanEnds, EngineWrite, NoJob
  <2> QED
    BY <1>2, <2>1, <2>2, <2>3
<1> QED
  BY <1>2, <1>3, <1>4, <1>5, ScopeFrame

\* An item whose name is too long stays out of every attempt.
LEMMA TooLongStep ==
    ASSUME TypeOK, PhaseInvariant, TooLong, Next
    PROVE  TooLong'
<1> USE DEF TypeOK, ThreadType, Jobs, PhaseInvariant, IntentPhase, TooLong, Before, Fetching, Moving,
            Goto, Leave, Quiet, ControlOnly, row, version, verdict, closing, scope, files, proof, world
<1>1. CASE Admit \/ Start \/ Probe \/ Activate \/ Spawn \/ RecordWorker
  BY <1>1 DEF Admit, Start, Probe, Activate, Spawn, RecordWorker
<1>2. CASE JudgeStalled \/ JudgeDiskFull \/ JudgeDenied \/ JudgeUnavailable \/ JudgeRetry
  BY <1>2 DEF JudgeStalled, JudgeDiskFull, JudgeDenied, JudgeUnavailable, JudgeRetry
<1>3. CASE Hash \/ Intent \/ IntentFails
  BY <1>3 DEF Hash, Intent, IntentFails
<1>4. CASE Link \/ LinkCollides \/ LinkFails
  BY <1>4, AfterType DEF Link, LinkCollides, LinkFails
<1>5. CASE FinalizedEvent \/ Complete \/ UnlinkStaging \/ CleanupDone
  BY <1>5, AfterType DEF FinalizedEvent, Complete, UnlinkStaging, CleanupDone, ClosedPhase
<1>6. CASE CandidateLink \/ CandidateUnlink \/ CandidateEvent
  BY <1>6 DEF CandidateLink, CandidateUnlink, CandidateEvent
<1>7. CASE CandidateReview
  <2>1. job.why \in CandidateReasons
    BY <1>7 DEF CandidateReview, LocalsPhase
  <2>2. review' = "ENAMETOOLONG" => review = "ENAMETOOLONG"
    BY <1>7, <2>1 DEF CandidateReview, CandidateReasons, ReviewCodes, RepresentationReview
  <2> QED
    BY <1>7, <2>2 DEF CandidateReview
<1>8. CASE StillUnavailable \/ AvailableAgain
  BY <1>8 DEF StillUnavailable, AvailableAgain
<1>9. CASE Boot \/ ReconcilePromotion \/ ScopeRun \/ ScopeExisting
  BY <1>9, ReasonAssumption DEF ReviewCodes, Boot, ReconcilePromotion, ScopeRun, ScopeExisting, Finish, NoJob,
     Tracked
<1>10. CASE CleanupStaging \/ RemediateSafePath \/ RequeueInterrupted
  BY <1>10 DEF CleanupStaging, RemediateSafePath, RequeueInterrupted, NoJob, Remediable, Interrupted
<1>11. CASE Pick \/ ClaimRecheck \/ Exit
  BY <1>11 DEF Pick, ClaimRecheck, Exit, Eligible, Retryable
<1>12. CASE ExcludeItem \/ ResumeNewGeneration \/ RetryAccessDenied \/ RequestStop
  BY <1>12, ReasonAssumption DEF ReviewCodes, ExcludeItem, ResumeNewGeneration, RetryAccessDenied, RequestStop
<1>13. CASE EngineOk \/ EngineFail
  BY <1>13 DEF EngineOk, EngineFail
<1>14. CASE Crash \/ SourceChanges \/ FinalAppears
  BY <1>14 DEF Crash, SourceChanges, FinalAppears
<1>15. ASSUME NEW e \in Epoch, EngineWrite(e) \/ OrphanEnds(e) PROVE TooLong'
  BY <1>15 DEF EngineWrite, OrphanEnds
<1> QED
  BY <1>1, <1>2, <1>3, <1>4, <1>5, <1>6, <1>7, <1>8, <1>9, <1>10, <1>11, <1>12, <1>13, <1>14, <1>15
  DEF Next, Worker, Startup, MainLoop, Control, Engine, Environment

\* Only digests that were compared with the checksum of the row can be promoted under it.
LEMMA DigestStep ==
    ASSUME TypeOK, PhaseInvariant, ClaimPhase, Next
    PROVE  DigestCompared'
<1> USE DEF TypeOK, ThreadType, Jobs, PhaseInvariant, IntentPhase, ClaimPhase, DigestCompared, SameQueue,
            Before, Fetching, Moving,
            Goto, Leave, Quiet,
            ControlOnly, row, version, verdict, closing, scope, files, proof, world
<1>1. CASE Admit \/ Start \/ Probe \/ Activate \/ Spawn
  BY <1>1 DEF Admit, Start, Probe, Activate, Spawn
<1>17. CASE RecordWorker
  <2>1. status # "promoting" /\ review # "ENAMETOOLONG"
    BY <1>17 DEF RecordWorker, AttemptPhase, TooLong
  <2> QED
    BY <1>17, <2>1 DEF RecordWorker
<1>2. CASE JudgeStalled \/ JudgeDiskFull \/ JudgeDenied \/ JudgeUnavailable \/
         JudgeRetry
  BY <1>2 DEF JudgeStalled, JudgeDiskFull, JudgeDenied, JudgeUnavailable, JudgeRetry
<1>3. CASE Hash \/ Intent \/ IntentFails
  BY <1>3, ReasonAssumption DEF CandidateReasons, Hash, Intent, IntentFails, Mismatch, ChecksumDiffers
<1>4. CASE Link \/ LinkCollides \/ LinkFails
  BY <1>4, AfterType, ReasonAssumption DEF ReviewCodes, Link, LinkCollides, LinkFails
<1>5. CASE FinalizedEvent \/ Complete \/ UnlinkStaging \/ CleanupDone
  BY <1>5, AfterType, ReasonAssumption DEF FinalizedEvent, Complete, UnlinkStaging, CleanupDone
<1>6. CASE CandidateLink \/ CandidateUnlink \/ CandidateEvent
  BY <1>6 DEF CandidateLink, CandidateUnlink, CandidateEvent
<1>16. CASE CandidateReview
  <2>1. job.why \in CandidateReasons
    BY <1>16 DEF CandidateReview, LocalsPhase
  <2>2. review' = "ENAMETOOLONG" => review = "ENAMETOOLONG" /\ sha' = sha
    BY <1>16, <2>1 DEF CandidateReview, CandidateReasons, ReviewCodes, RepresentationReview
  <2> QED
    BY <1>16, <2>2 DEF CandidateReview
<1>7. CASE StillUnavailable \/ AvailableAgain
  BY <1>7 DEF StillUnavailable, AvailableAgain
<1>18. CASE Boot
  <2>1. /\ pc' = "reconcile" /\ UNCHANGED <<status, sha, review, lastWriter>>
        /\ \/ UNCHANGED <<run, expected>>
           \/ /\ run' = run + 1 /\ run' \in Run /\ run' > run
              /\ ~QueueMayChange => expected' = expected
    BY <1>18, SizesAssumption DEF Boot, ScopeType, Run
  <2>2. SameQueue' => SameQueue /\ expected' = expected
    <3>1. CASE UNCHANGED <<run, expected>>
      BY <2>1, <3>1
    <3>2. CASE run' \in Run /\ run' > run /\ (~QueueMayChange => expected' = expected)
      BY <2>1, <3>2 DEF AttemptNamed
    <3> QED
      BY <2>1, <3>1, <3>2
  <2> HIDE DEF SameQueue
  <2> QED
    BY <2>1, <2>2
<1>8. CASE ReconcilePromotion \/ ScopeRun \/ ScopeExisting
  BY <1>8, ReasonAssumption DEF ReviewCodes, ReconcilePromotion, ScopeRun, ScopeExisting, Finish, NoJob
<1>9. CASE CleanupStaging \/ RemediateSafePath \/ RequeueInterrupted
  BY <1>9 DEF CleanupStaging, RemediateSafePath, RequeueInterrupted, NoJob, Remediable
<1>10. CASE Pick \/ ClaimRecheck \/ Exit
  BY <1>10 DEF Pick, ClaimRecheck, Exit, NoJob
<1>11. CASE ExcludeItem \/ ResumeNewGeneration \/ RetryAccessDenied \/ RequestStop
  BY <1>11, ReasonAssumption DEF ReviewCodes, ExcludeItem, ResumeNewGeneration, RetryAccessDenied, RequestStop
<1>12. CASE EngineOk \/ EngineFail
  BY <1>12 DEF EngineOk, EngineFail
<1>13. CASE Crash \/ SourceChanges \/ FinalAppears
  BY <1>13 DEF Crash, SourceChanges, FinalAppears
<1>14. ASSUME NEW e \in Epoch, EngineWrite(e) \/ OrphanEnds(e) PROVE DigestCompared'
  BY <1>14 DEF EngineWrite, OrphanEnds
<1> QED
  BY <1>1, <1>2, <1>3, <1>4, <1>5, <1>6, <1>7, <1>8, <1>9, <1>10, <1>11, <1>12, <1>13, <1>14, <1>16, <1>17,
     <1>18
  DEF Next, Worker, Startup, MainLoop, Control, Engine, Environment

\* An event is written with the digest and the checksum of the locals.
LEMMA ClaimsStep ==
    ASSUME PhaseInvariant, ClaimPhase, Next, NEW f \in finalized' \ finalized,
           f.claim # None, job.ctx = "transfer" \/ SameQueue
    PROVE  f.sha = f.claim
<1>1. CASE FinalizedEvent
  <2>1. pc = "ledger" /\ f = [sha |-> job.digest, claim |-> job.expected]
    BY <1>1 DEF FinalizedEvent
  <2>2. SameQueue
    BY <2>1 DEF ClaimPhase, AttemptNamed, SameQueue
  <2>3. status = "promoting" /\ job.digest = sha /\ job.expected = expected /\ expected # None
    BY <2>1 DEF PhaseInvariant, IntentPhase, ClaimPhase, DigestCompared
  <2> QED
    BY <2>1, <2>2, <2>3 DEF ClaimPhase, DigestCompared
<1>2. CASE ~FinalizedEvent
  BY <1>2, EventsFrame DEF CandidateEvent, proof
<1> QED
  BY <1>1, <1>2

\* A finalized event never claims a comparison that did not hold, unless a start writes
\* it for an attempt of an earlier run (transfer(), reconcile_promotions(),
\* remediate_safe_paths(), finalized_event()).
THEOREM ClaimsSafe ==
    ASSUME OneWriter
    PROVE  Spec => ClaimsCompared
<1>1. Init => ClaimPhase
  BY ReasonAssumption DEF Init, ClaimPhase, AttemptNamed, TooLong, DigestCompared, Before, Fetching, Moving,
     ReviewCodes, Run
<1>2. Safe /\ ClaimPhase /\ [Next]_vars => ClaimPhase'
  <2> SUFFICES ASSUME Safe, ClaimPhase, [Next]_vars PROVE ClaimPhase'
    OBVIOUS
  <2>1. CASE Next
    BY <2>1, NamedStep, TooLongStep, DigestStep DEF Safe, ClaimPhase
  <2>2. CASE UNCHANGED vars
    BY <2>2 DEF vars, row, version, verdict, scope, ClaimPhase, AttemptNamed, TooLong, DigestCompared,
       SameQueue
  <2> QED
    BY <2>1, <2>2
<1>3. Safe /\ ClaimPhase /\ [Next]_vars =>
          [\A f \in finalized' \ finalized :
               f.claim # None /\ (job.ctx = "transfer" \/ SameQueue) => f.sha = f.claim]_vars
  BY ClaimsStep DEF Safe
<1> QED
  BY <1>1, <1>2, <1>3, SafeAlways, PTL DEF Spec, ClaimsCompared

-----------------------------------------------------------------------------
(* The resumption of partial bodies: while a validator baseline is         *)
(* recorded and no checksum protects the item, the staged file holds the   *)
(* bytes of one representation.                                            *)

\* The versions in the staged file, and those that are on their way to it.
Held     == IF staging = 0 THEN {} ELSE Sources(disk[staging])
Incoming == {engine[e].ver : e \in {d \in Epoch : engine[d] # None}}
Stream   == Held \cup Incoming

\* A file that was not created yet is empty.
FreshPhase == \A i \in Inode : i > inodes => disk[i] = Empty

\* Versions are served in their order: what is staged is no newer than the source and
\* no older than the baseline, which was observed before the first byte.
ServedPhase ==
    /\ \A v \in Stream : v <= remote /\ (etag # None => etag <= v)
    /\ etag # None => etag <= remote
    /\ job.seen # None /\ job.seen.etag # None => job.seen.etag <= remote

\* The thread compares with the baseline that the row holds, and records a new one
\* for nothing but an empty file.
BaselinePhase ==
    /\ pc \in {"picked", "start", "probe", "activate"} =>
           /\ job.etag = etag /\ job.lastMod = lastMod /\ job.expected = expected
           /\ status # "review_required"
    /\ pc \in {"picked", "start", "probe"} => job.seen = None
    /\ pc \in {"mvLog", "mvReview"} => staging = 0
    /\ pc = "activate" /\ job.seen # None => Held = {}

\* What was staged before an attempt is confirmed to be what the source serves, and
\* what the engine receives is the same version.
OneVersionPhase ==
    Guarded => /\ pc \in {"activate", "spawn"} => Held \subseteq {remote}
               /\ \A v, w \in Stream : v = w

Resumable == FreshPhase /\ ServedPhase /\ BaselinePhase /\ OneVersionPhase

\* The assumptions: the source does not move during an attempt, between the probe and
\* the connection of the engine, and no later run gives the item another checksum.
Steady == SourceMoves # "any_time" /\ (QueueMayChange = FALSE \/ MaxRun = 1)

-----------------------------------------------------------------------------
(* The bytes, staged and under way.                                        *)

\* An empty partial file holds no version.
LEMMA HeldEmpty ==
    ASSUME TypeOK, ~PartialExists
    PROVE  Held = {}
<1>1. CASE staging = 0
  BY <1>1 DEF Held
<1>2. CASE staging # 0
  <2> DEFINE b == disk[staging]
             S == {k \in Chunk : b[k] # None}
  <2>1. IsFiniteSet(Chunk)
    BY FS_Interval, SizesAssumption DEF Chunk
  <2>2. IsFiniteSet(S)
    BY <2>1, FS_Subset
  <2>3. Cardinality(S) = 0
    <3>1. ~(Cardinality(S) > 0)
      BY <1>2 DEF PartialExists, StagedSize, ByteCount
    <3>2. Cardinality(S) \in Nat
      BY <2>2, FS_CardinalityType
    <3> QED
      BY <3>1, <3>2
  <2>4. S = {}
    BY <2>2, <2>3, FS_EmptySet
  <2> QED
    BY <1>2, <2>4 DEF Held, Sources
<1> QED
  BY <1>1, <1>2

\* Where no engine can be, nothing is under way.
LEMMA NothingIncoming ==
    ASSUME PhaseInvariant, pc \notin {"record", "run", "down", "idle"} \cup Booting
    PROVE  Incoming = {}
BY EngineWhere DEF PhaseInvariant, Incoming

\* A version is a number.
LEMMA StreamType ==
    ASSUME TypeOK
    PROVE  Stream \subseteq Version
<1>1. Incoming \subseteq Version
  BY DEF Incoming, TypeOK, WorldType, Engines
<1>2. Held \subseteq Version
  <2>1. CASE staging = 0
    BY <2>1 DEF Held
  <2>2. CASE staging # 0
    <3>1. staging \in Inode
      BY <2>2, SizesAssumption DEF TypeOK, FilesType, Inode
    <3>2. disk[staging] \in Body
      BY <3>1 DEF TypeOK, FilesType
    <3> QED
      BY <2>2, <3>2 DEF Held, Sources, Body
  <2> QED
    BY <2>1, <2>2
<1> QED
  BY <1>1, <1>2 DEF Stream

\* A spawned engine is going to receive what the source serves now.
LEMMA SpawnStream ==
    ASSUME TypeOK, PhaseInvariant, Spawn
    PROVE  Held' = Held /\ Incoming' \subseteq {remote} /\ Incoming = {}
<1>1. UNCHANGED <<disk, staging>>
  BY DEF Spawn, files
<1>2. \A e \in Epoch : engine[e] = None
  BY EngineWhere DEF Spawn, PhaseInvariant, Booting
<1>3. epoch \in Epoch /\ engine' = [engine EXCEPT ![epoch] =
           [ver |-> remote, at |-> StagedSize, ino |-> staging, recorded |-> FALSE]]
  BY DEF Spawn, TypeOK, WorldType
<1> QED
  BY <1>1, <1>2, <1>3 DEF Held, Incoming, TypeOK, WorldType

\* A chunk is one of those under way.
LEMMA WriteStream ==
    ASSUME TypeOK, PhaseInvariant, FreshPhase, NEW e \in Epoch, EngineWrite(e)
    PROVE  Stream' \subseteq Stream
<1> DEFINE g   == engine[e]
           ino == IF staging # 0 THEN staging ELSE inodes + 1
<1>1. /\ g \in Engines /\ g # None /\ g.ver \in Incoming /\ g.at + 1 \in Chunk
      /\ staging' = ino
      /\ disk' = [disk EXCEPT ![ino] = [disk[ino] EXCEPT ![g.at + 1] = g.ver]]
      /\ engine' = [engine EXCEPT ![e] = [g EXCEPT !.at = g.at + 1, !.ino = ino]]
  <2>1. g \in Engines /\ g # None /\ g.ino = staging
    BY DEF EngineWrite, TypeOK, WorldType, PhaseInvariant, EnginePhase
  <2>2. g.at + 1 \in Chunk
    BY <2>1, SizesAssumption DEF EngineWrite, Engines, Chunk
  <2> QED
    BY <2>1, <2>2 DEF EngineWrite, Incoming
<1>2. ino \in Inode
  BY SizesAssumption DEF EngineWrite, TypeOK, FilesType, Inode, PhaseInvariant, EnginePhase
<1>3. Incoming' \subseteq Incoming
  <2>1. [g EXCEPT !.at = g.at + 1, !.ino = ino].ver = g.ver
    BY <1>1 DEF Engines
  <2>2. \A d \in Epoch : engine'[d] # None => engine[d] # None /\ engine'[d].ver = engine[d].ver
    BY <1>1, <2>1 DEF TypeOK, WorldType
  <2> QED
    BY <2>2 DEF Incoming
<1>4. Held' \subseteq Held \cup {g.ver}
  <2>1. disk[ino] \in Body
    BY <1>2 DEF TypeOK, FilesType
  <2>2. disk'[ino] = [disk[ino] EXCEPT ![g.at + 1] = g.ver]
    BY <1>1, <1>2 DEF TypeOK, FilesType
  <2>3. Sources(disk'[ino]) \subseteq Sources(disk[ino]) \cup {g.ver}
    BY <2>1, <2>2 DEF Sources, Body
  <2>4. Sources(disk[ino]) = Held
    <3>1. CASE staging # 0
      BY <3>1 DEF Held
    <3>2. CASE staging = 0
      <4>1. disk[ino] = Empty
        BY <1>2, <3>2 DEF FreshPhase, TypeOK, FilesType
      <4>2. Sources(Empty) = {}
        BY DEF Sources, Empty
      <4> QED
        BY <3>2, <4>1, <4>2 DEF Held
    <3> QED
      BY <3>1, <3>2
  <2>5. ino # 0
    BY <1>2, SizesAssumption DEF Inode
  <2>6. Held' = Sources(disk'[ino])
    BY <1>1, <2>5 DEF Held
  <2> QED
    BY <2>3, <2>4, <2>6
<1> QED
  BY <1>1, <1>3, <1>4 DEF Stream

\* An engine that ends or goes with its controller takes what was under way with it.
LEMMA EndedStream ==
    ASSUME NEW gone, gone \subseteq Epoch,
           engine' = [e \in Epoch |-> IF e \in gone THEN None ELSE engine[e]]
    PROVE  Incoming' \subseteq Incoming
BY DEF Incoming

\* Where the staged file is written or linked, and where it is not.
LEMMA HeldFrame ==
    ASSUME TypeOK, Next
    PROVE  \/ Held' \subseteq Held
           \/ \E e \in Epoch : EngineWrite(e)
<1>1. CASE UNCHANGED <<disk, staging>>
  BY <1>1 DEF Held
<1>2. CASE UnlinkStaging \/ CandidateUnlink
  BY <1>2 DEF UnlinkStaging, CandidateUnlink, Held
<1>3. CASE FinalAppears
  BY <1>3, AppearsElsewhere DEF Held
<1> QED
  BY <1>1, <1>2, <1>3, FilesFrame DEF files, Link, LinkFails, CandidateLink

\* Nothing but a new engine adds to what is under way.
LEMMA IncomingFrame ==
    ASSUME TypeOK, Next
    PROVE  \/ Incoming' \subseteq Incoming
           \/ Spawn \/ \E e \in Epoch : EngineWrite(e)
<1>1. CASE UNCHANGED engine
  BY <1>1 DEF Incoming
<1>2. CASE RecordWorker
  <2>1. CASE engine[epoch] = None
    BY <1>2, <2>1 DEF RecordWorker, Incoming
  <2>2. CASE engine[epoch] # None
    <3> DEFINE g == engine[epoch]
    <3>1. g \in Engines /\ epoch \in Epoch
      BY <2>2 DEF TypeOK, WorldType
    <3>2. engine' = [engine EXCEPT ![epoch] = [g EXCEPT !.recorded = TRUE]]
      BY <1>2, <2>2 DEF RecordWorker
    <3>3. [g EXCEPT !.recorded = TRUE].ver = g.ver
      BY <3>1 DEF Engines
    <3>4. \A d \in Epoch : engine'[d] # None => engine[d] # None /\ engine'[d].ver = engine[d].ver
      BY <2>2, <3>1, <3>2, <3>3 DEF TypeOK, WorldType
    <3> QED
      BY <3>4 DEF Incoming
  <2> QED
    BY <2>1, <2>2
<1>3. CASE EngineOk \/ EngineFail
  BY <1>3 DEF EngineOk, EngineFail, EngineGone, Incoming, TypeOK, WorldType
<1>4. ASSUME NEW e \in Epoch, OrphanEnds(e) PROVE Incoming' \subseteq Incoming
  BY <1>4 DEF OrphanEnds, EngineGone, Incoming, TypeOK, WorldType
<1>5. CASE Crash
  BY <1>5 DEF Crash, Incoming
<1>6. CASE RequeueInterrupted
  BY <1>6 DEF RequeueInterrupted, Incoming
<1>7. CASE SourceChanges
  BY <1>7 DEF SourceChanges, Incoming
<1> QED
  BY WorldFrame, <1>1, <1>2, <1>3, <1>4, <1>5, <1>6, <1>7 DEF world

\* What is staged or under way grows by the version that a new engine receives.
LEMMA StreamFrame ==
    ASSUME TypeOK, PhaseInvariant, FreshPhase, Next
    PROVE  Stream' \subseteq Stream \/ Spawn
BY HeldFrame, IncomingFrame, WriteStream DEF Stream

\* The source moves on, and not during an attempt.
LEMMA RemoteFrame ==
    ASSUME TypeOK, Steady, Next
    PROVE  /\ remote \in Nat /\ remote' \in Nat /\ remote <= remote'
           /\ UNCHANGED remote \/ (SourceChanges /\ ~InAttempt)
<1>1. remote \in Nat
  BY DEF TypeOK, WorldType, Version
<1>2. UNCHANGED remote \/ SourceChanges
  BY WorldFrame DEF world, Spawn, RecordWorker, EngineOk, EngineFail, Crash,
     RequeueInterrupted, EngineWrite, OrphanEnds
<1>3. SourceChanges => remote' = remote + 1 /\ ~InAttempt
  BY FlagsAssumption DEF Steady, SourceChanges
<1> QED
  BY <1>1, <1>2, <1>3

\* The baseline changes where it is observed, where a candidate is set aside and
\* where a confirmed command starts a new generation.
LEMMA BaselineFrame ==
    ASSUME TypeOK, Steady, Next
    PROVE  /\ UNCHANGED expected
           /\ UNCHANGED <<etag, lastMod>> \/ Activate \/ CandidateReview
                  \/ (ResumeNewGeneration /\ etag' = None /\ lastMod' = None)
<1> USE DEF row, version, verdict, closing, Quiet, ControlOnly, scope
<1>1. ~Boot => UNCHANGED expected
  BY RowFrame DEF Admit, Start, Activate, JudgeDiskFull, JudgeDenied,
     JudgeUnavailable, JudgeRetry, Intent, IntentFails, LinkCollides, LinkFails,
     Complete, CleanupDone, CandidateReview, AvailableAgain, ExcludeItem,
     ResumeNewGeneration, RetryAccessDenied, ReconcilePromotion, ScopeExisting,
     RemediateSafePath, RequeueInterrupted
<1>2. Boot => UNCHANGED expected
  BY FlagsAssumption DEF Boot, Steady, TypeOK, ScopeType, Run
<1>3. UNCHANGED <<etag, lastMod>> \/ Activate \/ CandidateReview \/ ResumeNewGeneration
  BY RowFrame DEF Admit, Start, JudgeDiskFull, JudgeDenied,
     JudgeUnavailable, JudgeRetry, Intent, IntentFails, LinkCollides, LinkFails,
     Complete, CleanupDone, AvailableAgain, ExcludeItem,
     RetryAccessDenied, Boot, ReconcilePromotion, ScopeExisting,
     RemediateSafePath, RequeueInterrupted
<1> QED
  BY <1>1, <1>2, <1>3 DEF ResumeNewGeneration

-----------------------------------------------------------------------------
(* The phases, step by step.                                               *)

\* A file is empty until it is created.
LEMMA FreshStep ==
    ASSUME TypeOK, PhaseInvariant, FreshPhase, Next
    PROVE  FreshPhase'
<1> USE DEF FreshPhase
<1>1. CASE UNCHANGED <<disk, inodes>>
  BY <1>1
<1>2. CASE FinalAppears
  <2>1. inodes \in Nat /\ inodes' = inodes + 1
    BY <1>2, SizesAssumption DEF FinalAppears, TypeOK, FilesType
  <2>2. \A i \in Inode : i # inodes + 1 => disk'[i] = disk[i]
    BY <1>2 DEF FinalAppears, TypeOK, FilesType
  <2> QED
    BY <2>1, <2>2 DEF Inode
<1>3. ASSUME NEW e \in Epoch, EngineWrite(e) PROVE FreshPhase'
  <2> DEFINE ino == IF staging # 0 THEN staging ELSE inodes + 1
  <2>1. engine[e].ino = staging
    BY <1>3 DEF EngineWrite, PhaseInvariant, EnginePhase
  <2>2. inodes \in Nat /\ staging \in Nat /\ ino \in Nat
    BY SizesAssumption DEF TypeOK, FilesType
  <2>3. inodes' = IF ino > inodes THEN ino ELSE inodes
    BY <1>3, <2>1 DEF EngineWrite
  <2>4. \A i \in Inode : i # ino => disk'[i] = disk[i]
    BY <1>3, <2>1 DEF EngineWrite, TypeOK, FilesType
  <2>5. \A i \in Inode : i > inodes' => i > inodes /\ i # ino
    BY <2>2, <2>3 DEF Inode
  <2> QED
    BY <2>4, <2>5
<1> QED
  BY <1>1, <1>2, <1>3, FilesFrame DEF files, Link, LinkFails, UnlinkStaging, CandidateLink,
     CandidateUnlink

\* What the source answers to a HEAD request is about the version that it serves, but
\* for a weak ETag.
LEMMA ReplyServed ==
    ASSUME NEW r \in HeadReplies, r # None
    PROVE  r.etag \in {remote, Weak, None} /\ r.date \in {remote, None}
BY DEF HeadReplies, ETagIn

\* What the thread has observed of the source.
LEMMA SeenFrame ==
    ASSUME TypeOK, Next
    PROVE  \/ job'.seen = job.seen \/ job'.seen = None
           \/ job'.seen \in HeadReplies /\ UNCHANGED <<remote, etag, lastMod, staging, disk, engine>>
<1> USE DEF TypeOK, ThreadType, Jobs, NoJob
<1>1. CASE UNCHANGED job \/ job' = NoJob
  BY <1>1
<1>2. CASE Pick \/ ClaimRecheck \/ ReconcilePromotion \/ CleanupStaging \/ RemediateSafePath
  BY <1>2 DEF Pick, ClaimRecheck, ReconcilePromotion, CleanupStaging, RemediateSafePath,
     Finish, Goto
<1>3. CASE EngineOk \/ EngineFail \/ JudgeStalled \/ Hash \/ LinkCollides
  <2>1. CASE EngineOk
    <3>1. PICK known \in BOOLEAN : job' = [job EXCEPT !.sized = known]
      BY <2>1 DEF EngineOk
    <3> QED
      BY <3>1
  <2>2. CASE EngineFail
    <3>1. PICK err : job' = [job EXCEPT !.error = err]
      BY <2>2 DEF EngineFail
    <3> QED
      BY <3>1
  <2>3. CASE JudgeStalled \/ LinkCollides
    BY <2>3 DEF JudgeStalled, LinkCollides, Leave
  <2>4. CASE Hash
    BY <2>4 DEF Hash
  <2> QED
    BY <1>3, <2>1, <2>2, <2>3, <2>4
<1>4. CASE Probe
  BY <1>4 DEF Probe, Goto, Quiet, world, version, files
<1>5. CASE AvailableAgain
  <2>1. UNCHANGED <<remote, etag, lastMod, staging, disk, engine>>
    BY <1>5 DEF AvailableAgain, Quiet, world, version, files
  <2>2. PICK r \in HeadReplies : \/ job' = NoJob
                                 \/ \E why : job' = [job EXCEPT !.seen = r, !.why = why]
    BY <1>5 DEF AvailableAgain, Leave
  <2>3. CASE job' = NoJob
    BY <2>3
  <2>4. ASSUME NEW why, job' = [job EXCEPT !.seen = r, !.why = why]
        PROVE  job'.seen \in HeadReplies
    <3>1. [job EXCEPT !.seen = r, !.why = why].seen = r
      OBVIOUS
    <3> QED
      BY <2>4, <3>1
  <2> QED
    BY <2>1, <2>2, <2>3, <2>4
<1> QED
  BY <1>1, <1>2, <1>3, <1>4, <1>5, JobFrame

\* The order of the versions is kept.
LEMMA ServedStep ==
    ASSUME TypeOK, PhaseInvariant, Steady, FreshPhase, ServedPhase, BaselinePhase, Next
    PROVE  ServedPhase'
<1>0. remote \in Nat /\ remote' \in Nat /\ remote <= remote' /\ Stream \subseteq Nat
  BY RemoteFrame, StreamType DEF Version
<1>n. /\ Weak \in Nat /\ Weak <= remote'
      /\ etag # None => etag \in Nat
      /\ job.seen # None /\ job.seen.etag # None => job.seen.etag \in Nat
  <2>1. Tag \subseteq Nat /\ Weak \in Nat /\ Weak <= remote'
    BY <1>0 DEF Tag, Weak, Version
  <2>2. etag \in Tag \cup {None} /\ job.seen \in Seen \cup {None}
    BY DEF TypeOK, RowType, ThreadType, Jobs
  <2> QED
    BY <2>1, <2>2 DEF Seen
<1>1. job'.seen # None /\ job'.seen.etag # None => job'.seen.etag <= remote'
  <2>1. CASE job'.seen = job.seen \/ job'.seen = None
    BY <1>0, <1>n, <2>1 DEF ServedPhase
  <2>2. CASE job'.seen \in HeadReplies /\ UNCHANGED <<remote, etag, lastMod, staging, disk, engine>>
    BY <1>0, <1>n, <2>2, ReplyServed
  <2> QED
    BY <2>1, <2>2, SeenFrame
<1>2. etag' # None => etag' <= remote'
  <2>1. CASE UNCHANGED <<etag, lastMod>> \/ etag' = None
    BY <1>0, <1>n, <2>1 DEF ServedPhase
  <2>2. CASE Activate \/ CandidateReview
    BY <1>0, <1>n, <2>2 DEF ServedPhase, Activate, CandidateReview
  <2> QED
    BY <2>1, <2>2, BaselineFrame
<1>3. ASSUME NEW v \in Stream' PROVE v <= remote'
  <2>1. CASE v \in Stream
    BY <1>0, <2>1 DEF ServedPhase
  <2>2. CASE v \notin Stream
    BY <1>0, <1>3, <2>2, StreamFrame, SpawnStream DEF Stream
  <2> QED
    BY <2>1, <2>2
<1>4. ASSUME NEW v \in Stream', etag' # None PROVE etag' <= v
  <2>1. CASE Spawn
    <3>1. UNCHANGED <<etag, remote>> /\ v \in Stream \cup {remote}
      BY <1>4, <2>1, SpawnStream DEF Spawn, Stream, row, version
    <3> QED
      BY <1>4, <3>1 DEF ServedPhase
  <2>2. CASE ~Spawn /\ etag' = etag
    BY <1>4, <2>2, StreamFrame DEF ServedPhase
  <2>3. CASE Activate /\ job.seen # None
    <3>1. Held = {} /\ Incoming = {}
      BY <2>3, NothingIncoming DEF BaselinePhase, Activate, Booting
    <3>2. ~Spawn
      BY <2>3 DEF Activate, Spawn
    <3> QED
      BY <1>4, <3>1, <3>2, StreamFrame DEF Stream
  <2>4. CASE CandidateReview
    <3>1. Held = {} /\ Incoming = {}
      BY <2>4, NothingIncoming DEF BaselinePhase, CandidateReview, Booting, Held
    <3>2. ~Spawn
      BY <2>4 DEF CandidateReview, Spawn
    <3> QED
      BY <1>4, <3>1, <3>2, StreamFrame DEF Stream
  <2>5. CASE Activate /\ job.seen = None
    BY <2>2, <2>5 DEF Activate, Spawn
  <2> QED
    BY <1>4, <2>1, <2>2, <2>3, <2>4, <2>5, BaselineFrame
<1> QED
  BY <1>1, <1>2, <1>3, <1>4 DEF ServedPhase

\* The locals keep agreeing with the row.
LEMMA BaselineStep ==
    ASSUME TypeOK, PhaseInvariant, FreshPhase, BaselinePhase, Next
    PROVE  BaselinePhase'
<1> USE DEF PhaseInvariant, BaselinePhase, Goto, Leave, Quiet, row, scope, files, version,
            verdict, closing, proof, world
<1>1. CASE Admit \/ Start \/ Activate \/ Spawn \/ RecordWorker
  BY <1>1 DEF Admit, Start, Activate, Spawn, RecordWorker, Held
<1>2. CASE Probe
  <2>1. UNCHANGED <<status, etag, lastMod, expected, staging, disk>> /\ pc = "probe" /\ job.seen = None
        /\ pc' \in {"activate", "mvLink"}
    BY <1>2 DEF Probe
  <2>2. CASE UNCHANGED job
    BY <2>1, <2>2
  <2>3. ASSUME NEW r, job' = [job EXCEPT !.seen = r], ~PartialExists
        PROVE  BaselinePhase'
    <3>1. Held = {} /\ Held' = {}
      BY <2>1, <2>3, HeldEmpty DEF Held
    <3>2. job'.etag = job.etag /\ job'.lastMod = job.lastMod /\ job'.expected = job.expected
      BY <2>3 DEF TypeOK, ThreadType, Jobs
    <3> QED
      BY <2>1, <3>1, <3>2
  <2>4. CASE pc' = "mvLink"
    BY <2>4
  <2> QED
    BY <1>2, <2>2, <2>3, <2>4 DEF Probe
<1>3. CASE JudgeStalled \/ JudgeDiskFull \/ JudgeDenied \/ JudgeUnavailable \/ JudgeRetry
  BY <1>3 DEF JudgeStalled, JudgeDiskFull, JudgeDenied, JudgeUnavailable, JudgeRetry
<1>4. CASE Hash \/ Intent \/ IntentFails \/ Link \/ LinkCollides \/ LinkFails
           \/ FinalizedEvent \/ Complete \/ UnlinkStaging \/ CleanupDone
  BY <1>4, AfterType DEF Hash, Intent, IntentFails, Link, LinkCollides, LinkFails,
     FinalizedEvent, Complete, UnlinkStaging, CleanupDone
<1>5. CASE CandidateLink \/ CandidateUnlink \/ CandidateEvent \/ CandidateReview
           \/ StillUnavailable \/ AvailableAgain
  BY <1>5 DEF CandidateLink, CandidateUnlink, CandidateEvent, CandidateReview,
     StillUnavailable, AvailableAgain
<1>6. CASE Startup
  BY <1>6 DEF Startup, Boot, ReconcilePromotion, ScopeRun, ScopeExisting, CleanupStaging,
     RemediateSafePath, RequeueInterrupted, Finish
<1>7. CASE MainLoop
  BY <1>7 DEF MainLoop, Pick, ClaimRecheck, Exit, Eligible, Retryable, NoJob
<1>8. CASE Control
  BY <1>8 DEF Control, ExcludeItem, ResumeNewGeneration, RetryAccessDenied, RequestStop,
     ControlOnly, Held
<1>9. CASE EngineOk \/ EngineFail
  BY <1>9 DEF EngineOk, EngineFail
<1>10. ASSUME NEW e \in Epoch, EngineWrite(e) PROVE BaselinePhase'
  BY <1>10, ChunkWritten DEF Booting
<1>11. ASSUME NEW e \in Epoch, OrphanEnds(e) PROVE BaselinePhase'
  BY <1>11 DEF OrphanEnds, Held
<1>12. CASE Crash \/ SourceChanges
  BY <1>12 DEF Crash, SourceChanges, Held
<1>13. CASE FinalAppears
  BY <1>13, AppearsElsewhere DEF FinalAppears, Held
<1> QED
  BY <1>1, <1>2, <1>3, <1>4, <1>5, <1>6, <1>7, <1>8, <1>9, <1>10, <1>11, <1>12, <1>13
  DEF Next, Worker, Engine, Environment

\* The activation follows the probe, and the engine the activation.
LEMMA AttemptFrame ==
    ASSUME TypeOK, Next, pc' \in {"activate", "spawn"}
    PROVE  Probe \/ Activate \/ pc' = pc
<1> USE DEF Goto, Leave, ControlOnly
<1>1. CASE Worker
  BY <1>1, AfterType DEF Worker, Admit, Start, Spawn, RecordWorker, JudgeStalled, JudgeDiskFull,
     JudgeDenied, JudgeUnavailable, JudgeRetry, Hash, Intent, IntentFails, Link,
     LinkCollides, LinkFails, FinalizedEvent, Complete, UnlinkStaging, CleanupDone,
     CandidateLink, CandidateUnlink, CandidateEvent, CandidateReview, StillUnavailable,
     AvailableAgain
<1>2. CASE Startup
  BY <1>2 DEF Startup, Boot, ReconcilePromotion, ScopeRun, ScopeExisting, CleanupStaging,
     RemediateSafePath, RequeueInterrupted, Finish
<1>3. CASE MainLoop \/ Control \/ Engine \/ Environment
  BY <1>3 DEF MainLoop, Pick, ClaimRecheck, Exit, Control, ExcludeItem, ResumeNewGeneration,
     RetryAccessDenied, RequestStop, Engine, EngineOk, EngineFail, EngineWrite, OrphanEnds,
     Environment, Crash, SourceChanges, FinalAppears
<1> QED
  BY <1>1, <1>2, <1>3 DEF Next

\* The probe lets an attempt resume only what an equal ETag confirms: if that of the
\* baseline is a strong one, the source still serves the version of the baseline.
LEMMA ProbeStep ==
    ASSUME TypeOK, PhaseInvariant, Resumable, Probe, pc' = "activate", Guarded
    PROVE  Held \subseteq {remote}
<1> USE DEF Resumable
<1>1. /\ pc = "probe" /\ job.etag = etag /\ job.lastMod = lastMod /\ job.expected = None
      /\ etag # None \/ lastMod # None
      /\ etag # Weak
  BY DEF Probe, BaselinePhase, Guarded
<1>2. CASE ~PartialExists
  BY <1>2, HeldEmpty
<1>3. CASE PartialExists
  <2>1. PICK r \in HeadReplies :
           Decision(job.etag, job.lastMod, r) = "confirmed_unchanged"
    BY <1>1, <1>3 DEF Probe
  <2>2. r # None /\ etag # None /\ etag = r.etag
    BY <1>1, <2>1 DEF Decision, Classify
  <2>3. etag = remote
    BY <1>1, <2>2, ReplyServed
  <2>4. \A v \in Held : v <= remote /\ etag <= v
    BY <2>2 DEF ServedPhase, Stream
  <2>5. \A v \in Held : v \in Nat /\ remote \in Nat
    BY StreamType DEF Stream, Version, TypeOK, WorldType
  <2> QED
    BY <2>3, <2>4, <2>5
<1> QED
  BY <1>2, <1>3

\* Only a confirmed representation is resumed.
LEMMA OneVersionStep ==
    ASSUME TypeOK, PhaseInvariant, Steady, Resumable, Next
    PROVE  OneVersionPhase'
<1> SUFFICES ASSUME Guarded'
             PROVE  /\ pc' \in {"activate", "spawn"} => Held' \subseteq {remote'}
                    /\ \A v, w \in Stream' : v = w
  BY DEF OneVersionPhase
<1> USE DEF Resumable
<1>1. CASE Activate /\ job.seen # None
  <2>1. Stream = {} /\ ~Spawn
    BY <1>1, NothingIncoming DEF BaselinePhase, Activate, Booting, Stream, Spawn
  <2> QED
    BY <2>1, StreamFrame DEF Stream
<1>2. CASE CandidateReview
  <2>1. Stream = {} /\ ~Spawn
    BY <1>2, NothingIncoming DEF BaselinePhase, CandidateReview, Booting, Stream, Held, Spawn
  <2> QED
    BY <2>1, StreamFrame DEF Stream
<1>3. CASE UNCHANGED <<etag, lastMod>>
  <2>1. Guarded
    BY <1>3, BaselineFrame DEF Guarded
  <2>2. /\ pc \in {"activate", "spawn"} => Held \subseteq {remote}
        /\ \A v, w \in Stream : v = w
    BY <2>1 DEF OneVersionPhase
  <2>3. \A v, w \in Stream' : v = w
    <3>1. CASE Spawn
      <4>1. pc = "spawn" /\ Held' = Held /\ Incoming' \subseteq {remote}
        BY <3>1, SpawnStream DEF Spawn
      <4> QED
        BY <2>2, <4>1 DEF Stream
    <3>2. CASE ~Spawn
      BY <2>2, <3>2, StreamFrame
    <3> QED
      BY <3>1, <3>2
  <2>4. ASSUME pc' \in {"activate", "spawn"} PROVE Held' \subseteq {remote'}
    <3>1. CASE Probe
      <4>1. pc' = "activate" /\ UNCHANGED <<disk, staging, remote>>
        BY <2>4, <3>1 DEF Probe, Goto, Quiet, world, files
      <4> QED
        BY <2>1, <3>1, <4>1, ProbeStep DEF Held
    <3>2. CASE Activate
      <4>1. pc = "activate" /\ UNCHANGED <<disk, staging, remote>>
        BY <3>2 DEF Activate, Quiet, world, files
      <4> QED
        BY <2>2, <4>1 DEF Held
    <3>3. CASE pc' = pc
      <4>1. remote' = remote
        BY <2>4, <3>3, RemoteFrame DEF InAttempt
      <4>2. Held' \subseteq Held
        BY <2>4, <3>3, HeldFrame, ChunkWritten DEF Booting
      <4> QED
        BY <2>2, <2>4, <3>3, <4>1, <4>2
    <3> QED
      BY <2>4, <3>1, <3>2, <3>3, AttemptFrame
  <2> QED
    BY <2>3, <2>4
<1>4. CASE Activate /\ job.seen = None
  BY <1>3, <1>4 DEF Activate
<1>5. ~(etag' = None /\ lastMod' = None)
  BY DEF Guarded
<1> QED
  BY <1>1, <1>2, <1>3, <1>4, <1>5, BaselineFrame

-----------------------------------------------------------------------------
(* The theorems.                                                           *)

\* A set whose elements are all equal has one element at most.
LEMMA AtMostOne ==
    ASSUME NEW S, \A v, w \in S : v = w
    PROVE  Cardinality(S) <= 1
<1>1. CASE S = {}
  BY <1>1, FS_EmptySet
<1>2. CASE S # {}
  <2>1. PICK v \in S : S = {v}
    BY <1>2
  <2> QED
    BY <2>1, FS_Singleton
<1> QED
  BY <1>1, <1>2

\* The phases hold from the first state on.
THEOREM ResumeAlways ==
    ASSUME OneWriter, Steady
    PROVE  Spec => []Resumable
<1>1. Init => Resumable
  BY DEF Init, Resumable, FreshPhase, ServedPhase, BaselinePhase, OneVersionPhase, Stream, Held,
     Incoming, NoJob
<1>2. Safe /\ Resumable /\ [Next]_vars => Resumable'
  <2> SUFFICES ASSUME Safe, Resumable, [Next]_vars PROVE Resumable'
    OBVIOUS
  <2>1. CASE Next
    BY <2>1, FreshStep, ServedStep, BaselineStep, OneVersionStep DEF Safe, Resumable
  <2>2. CASE UNCHANGED vars
    BY <2>2 DEF vars, row, version, verdict, files, world, Resumable, FreshPhase, ServedPhase,
       BaselinePhase, OneVersionPhase, Guarded, Stream, Held, Incoming
  <2> QED
    BY <2>1, <2>2
<1> QED
  BY <1>1, <1>2, SafeAlways, PTL DEF Spec

\* While a baseline is recorded and no checksum protects the item, the staged bytes
\* come from one representation, whatever a kill leaves behind: transfer() probes
\* before it resumes, and check_representation() confirms nothing but an equal ETag.
\* A baseline with a weak ETag is excepted, for an equal one proves nothing.
THEOREM BaselineSafe ==
    ASSUME OneWriter, Steady
    PROVE  Spec => []BaselineGuardsResume
<1>1. Resumable => BaselineGuardsResume
  BY AtMostOne DEF Resumable, OneVersionPhase, BaselineGuardsResume, Guarded, Stream, Held
<1> QED
  BY <1>1, ResumeAlways, PTL

\* An engine that the manifest names is stopped before the next one starts:
\* requeue_interrupted_transfers() finds it by the run's last worker entry.
THEOREM WriterStopped ==
    ASSUME OneWriter
    PROVE  Spec => []RecordedWriterStopped
<1>1. Safe => RecordedWriterStopped
  BY EngineWhere DEF Safe, PhaseInvariant, RecordedWriterStopped, Booting
<1> QED
  BY <1>1, SafeAlways, PTL
==============================================================================
