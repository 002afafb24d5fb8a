----------------------------- MODULE Acquisition -----------------------------
(***************************************************************************)
(* One item of a tod-dl run, from its queue row to its published final     *)
(* file: the durable row of manifest.sqlite, the files that hold its       *)
(* bytes, the provenance events written about it, the thread of control    *)
(* that works on it (the startup sequence of run(), the main loop, the     *)
(* worker in transfer(), the recheck in recheck_unavailable()), the        *)
(* control thread, the aria2 process and the source.                       *)
(*                                                                         *)
(* Items meet only through admission, which module Scheduler models; one   *)
(* thread at a time works on an item, so one program counter is enough.    *)
(* Every durable commit, every link, unlink and provenance write is a step *)
(* of its own, because the controller may be killed between any two.       *)
(*                                                                         *)
(* A definition named Fault_... is a plausible mistake in the definition   *)
(* below it; replacing the one by the other breaks a property.             *)
(***************************************************************************)
EXTENDS Integers, FiniteSets

CONSTANTS
    None,            \* SQL NULL, an absent value
    Size,            \* chunks in a full body
    Versions,        \* representations the source serves, one after another
    MaxAttempts,     \* --max-attempts
    MaxGen,          \* bound on staging generations
    MaxInode,        \* bound on files ever created
    MaxEpoch,        \* bound on controller deaths, plus one
    MaxRun,          \* bound on run identifiers
    Headers,         \* sets of validators a HEAD response may carry
    QueueSums,       \* sha256= values (or None) a queue may give the item
    QueueMayChange,  \* may a later run import a queue with another value?
    Survivors,       \* which aria2 may outlive a killed controller
    SourceMoves      \* when the source may publish a new version

Version == 1..Versions
\* An ETag: a strong one differs from version to version, a weak one (W/) may stay.
Weak == 0
Tag  == Version \cup {Weak}
Inode   == 1..MaxInode
Epoch   == 1..MaxEpoch
Run     == 1..MaxRun
Chunk   == 1..Size

\* A body is a file's content chunk by chunk: the version each byte range came
\* from, None where nothing is written yet. Its digest is the body itself.
Body  == [Chunk -> Version \cup {None}]
Empty == [k \in Chunk |-> None]
ByteCount(b) == Cardinality({k \in Chunk : b[k] # None})
Sources(b) == {b[k] : k \in Chunk} \ {None}

ASSUME SizesAssumption ==
    /\ Size \in Nat \ {0} /\ Versions \in Nat \ {0} /\ MaxAttempts \in Nat \ {0}
    /\ MaxGen \in Nat \ {0} /\ MaxInode \in Nat \ {0}
    /\ MaxEpoch \in Nat \ {0} /\ MaxRun \in Nat \ {0}
ASSUME NoneAssumption == None \notin 0..Size /\ None \notin Tag /\ None \notin Body
ASSUME QueueAssumption == QueueSums \subseteq Body \cup {None} /\ QueueSums # {}
ASSUME FlagsAssumption ==
    /\ QueueMayChange \in BOOLEAN /\ Survivors \in {"none", "recorded", "all"}
    /\ Headers \subseteq SUBSET {"strong", "weak", "date"}
    /\ SourceMoves \in {"never", "between_attempts", "any_time"}

VARIABLES
    \* the row of table downloads
    status, attempts, gen, etag, lastMod, expected, sha, review, stall,
    cleaned, remediation,
    \* run_items, and the manifest's last worker entry of each run
    run, selected, lastWriter,
    \* files: contents by inode, and the names that link to them
    disk, inodes, staging, final, cands,
    \* provenance events about the item
    finalized, logged,
    \* the controller's volatile state
    pc, job, stop,
    \* processes and the source
    epoch, engine, remote

version == <<gen, etag, lastMod>>
verdict == <<sha, review, stall>>
closing == <<cleaned, remediation>>
row   == <<status, attempts, version, verdict, closing, expected>>
scope == <<run, selected>>
files == <<disk, inodes, staging, final, cands>>
proof == <<finalized, logged>>
world == <<epoch, engine, remote>>
vars  == <<row, scope, lastWriter, files, proof, pc, job, stop, world>>

\* What a step of the controller leaves alone unless it says otherwise.
Quiet == UNCHANGED <<scope, lastWriter, stop, world, expected>>

\* Statuses the code writes; "failed", "running", "pending" and "existing" are
\* read for rows of older releases only and never written.
Retryable  == {"queued", "retry_wait"}
Interrupted == {"active", "admitted"}
Excludable == {"queued", "active", "admitted", "retry_wait",
               "review_required", "unavailable"}
Tracked    == {"complete", "existing_unverified", "review_required",
               "excluded", "unavailable"}
Statuses   == Retryable \cup Interrupted \cup Tracked \cup {"promoting"}

RepresentationReview == {"changed_remote_representation",
                         "no_reliable_version_protection"}
ReviewCodes == RepresentationReview \cup
    {"access_denied", "checksum_mismatch", "size_mismatch", "ENAMETOOLONG"}
CandidateReasons == RepresentationReview \cup
    {"incomplete_body", "checksum_mismatch", "size_mismatch",
     "destination_collision"}
Errors == {"eof", "disk_full", "access_denied", "unavailable", "other",
           "stopped"}

ASSUME ReasonAssumption == None \notin CandidateReasons \cup ReviewCodes

Booting == {"reconcile", "scope", "cleanup", "remediate", "requeue"}
Steps   == {"picked", "start", "probe", "activate", "spawn", "record", "run",
            "judge", "hash", "intent", "link", "ledger", "complete", "unlink",
            "cleaned", "mvLink", "mvUnlink", "mvLog", "mvReview", "recheck"}
Contexts == {"transfer", "reconcile", "cleanup", "remediate"}

\* Validators one HEAD response can carry; None is a probe that failed.
Seen == [etag : Tag \cup {None}, date : Version \cup {None}]
ETagIn(h) == IF "strong" \in h THEN remote ELSE IF "weak" \in h THEN Weak ELSE None
HeadReplies ==
    {None} \cup {[etag |-> ETagIn(h), date |-> IF "date" \in h THEN remote ELSE None] :
                 h \in Headers}

\* The locals of the thread that works on the item: the row it selected, what
\* it observed of the source, the digest it computed, why it gives up.
NoJob == [ctx |-> "transfer", attempts |-> 0, gen |-> 0, etag |-> None,
          lastMod |-> None, expected |-> None, seen |-> None, sized |-> FALSE,
          digest |-> None, error |-> None, why |-> None]
Jobs == [ctx : Contexts, attempts : 0..MaxAttempts, gen : 0..MaxGen,
         etag : Tag \cup {None}, lastMod : Version \cup {None},
         expected : Body \cup {None}, seen : Seen \cup {None},
         sized : BOOLEAN, digest : Body \cup {None},
         error : Errors \cup {None}, why : CandidateReasons \cup {None}]
Engines == [ver : Version, at : 0..Size, ino : 0..MaxInode, recorded : BOOLEAN]

Init ==
    /\ status = "queued" /\ attempts = 0 /\ gen = 0
    /\ etag = None /\ lastMod = None /\ expected \in QueueSums /\ sha = None
    /\ review = None /\ stall = None /\ cleaned = FALSE /\ remediation = None
    /\ run = 1 /\ selected = FALSE /\ lastWriter = [r \in Run |-> 0]
    /\ disk = [i \in Inode |-> Empty] /\ inodes = 0
    /\ staging = 0 /\ final = 0 /\ cands = {}
    /\ finalized = {} /\ logged = {}
    /\ pc = "down" /\ job = NoJob /\ stop = FALSE
    /\ epoch = 1 /\ engine = [e \in Epoch |-> None] /\ remote = 1

\* target.exists() and the partial_exists test of transfer().
TargetExists  == final # 0
StagedSize    == IF staging = 0 THEN 0 ELSE ByteCount(disk[staging])
PartialExists == StagedSize > 0

\* Where the thread goes when the shared finalization steps are done.
After(ctx) == CASE ctx = "transfer"  -> "idle"
                [] ctx = "reconcile" -> "scope"
                [] ctx = "cleanup"   -> "remediate"
                [] ctx = "remediate" -> "requeue"

\* The thread ends its work on the item and continues at place.
Leave(place) == pc' = place /\ job' = NoJob
Goto(place)  == pc' = place /\ UNCHANGED job

-----------------------------------------------------------------------------
(* Admission and the start of transfer().                                  *)

\* The WHERE clause of next_pending(); the clock makes a retry due at any time.
Fault_NoCeiling == selected /\ status \in Retryable
Eligible == selected /\ status \in Retryable /\ attempts < MaxAttempts

\* next_pending() selects the row; the main loop has not written yet.
Pick ==
    /\ pc = "idle" /\ ~stop /\ Eligible
    /\ pc' = "picked"
    /\ job' = [NoJob EXCEPT !.attempts = attempts, !.gen = gen, !.etag = etag,
                            !.lastMod = lastMod, !.expected = expected]
    /\ Quiet /\ UNCHANGED <<status, attempts, version, verdict, closing, files, proof>>

\* transition(db, url, "admitted") writes whatever the status is by now.
Admit ==
    /\ pc = "picked"
    /\ status' = "admitted"
    /\ Goto("start")
    /\ Quiet /\ UNCHANGED <<attempts, version, verdict, closing, files, proof>>

Start ==
    /\ pc = "start"
    /\ \/ /\ TargetExists
          /\ status' = "existing_unverified" /\ Leave("idle")
       \/ /\ ~TargetExists
          /\ Goto("probe") /\ UNCHANGED status
    /\ Quiet /\ UNCHANGED <<attempts, version, verdict, closing, files, proof>>

\* classify_representation(): an equal ETag confirms, and nothing else does. Whether
\* the tag is a weak one is not looked at.
Fault_NoTagIsUnchanged(oldTag, oldDate, seen) ==
    IF oldTag # seen.etag /\ seen.etag # None THEN "changed" ELSE "confirmed_unchanged"
Classify(oldTag, oldDate, seen) ==
    CASE oldTag # None /\ seen.etag # None /\ oldTag = seen.etag -> "confirmed_unchanged"
      [] oldTag # None /\ seen.etag # None /\ oldTag # seen.etag -> "changed"
      [] oldTag = None /\ oldDate # None /\ seen.date # None
         /\ oldDate # seen.date -> "changed"
      [] OTHER -> "unconfirmed"
Decision(oldTag, oldDate, seen) ==
    IF seen = None THEN "unconfirmed" ELSE Classify(oldTag, oldDate, seen)
ReviewCause(decision) == IF decision = "changed" THEN "changed_remote_representation"
                                                 ELSE "no_reliable_version_protection"

\* Record a baseline before the first byte, or compare with the recorded one.
Probe ==
    LET guarded == PartialExists /\ job.expected = None
                   /\ (job.etag # None \/ job.lastMod # None)
        asked   == ~PartialExists /\ job.expected = None
    IN /\ pc = "probe"
       /\ \/ /\ ~guarded /\ ~asked
             /\ Goto("activate")
          \/ /\ asked
             /\ \E r \in HeadReplies : job' = [job EXCEPT !.seen = r]
             /\ pc' = "activate"
          \/ /\ guarded
             /\ \E r \in HeadReplies :
                  LET d == Decision(job.etag, job.lastMod, r) IN
                  IF d = "confirmed_unchanged"
                  THEN Goto("activate")
                  ELSE /\ pc' = "mvLink"
                       /\ job' = [job EXCEPT !.seen = r, !.why = ReviewCause(d)]
       /\ Quiet /\ UNCHANGED <<status, attempts, version, verdict, closing, files, proof>>

Activate ==
    /\ pc = "activate"
    /\ status' = "active" /\ attempts' = job.attempts + 1
    /\ gen' = IF job.gen = 0 THEN 1 ELSE gen
    /\ IF job.seen # None
       THEN etag' = job.seen.etag /\ lastMod' = job.seen.date
       ELSE UNCHANGED <<etag, lastMod>>
    /\ Goto("spawn")
    /\ Quiet /\ UNCHANGED <<verdict, closing, files, proof>>

-----------------------------------------------------------------------------
(* run_aria2() and the engine process. The request carries no condition,   *)
(* so the engine receives whatever the source serves when it connects.     *)

Spawn ==
    /\ pc = "spawn"
    /\ engine' = [engine EXCEPT ![epoch] =
           [ver |-> remote, at |-> StagedSize, ino |-> staging, recorded |-> FALSE]]
    /\ Goto("record")
    /\ UNCHANGED <<row, scope, lastWriter, files, proof, stop, epoch, remote>>

\* record_worker(): the manifest file names the process.
RecordWorker ==
    /\ pc = "record"
    /\ engine' = IF engine[epoch] = None THEN engine
                 ELSE [engine EXCEPT ![epoch].recorded = TRUE]
    /\ lastWriter' = [lastWriter EXCEPT ![run] = epoch]
    /\ Goto("run")
    /\ UNCHANGED <<row, scope, files, proof, stop, epoch, remote>>

\* One chunk reaches the disk: the engine of this session, or one that a
\* killed controller left behind. The first write creates a missing file.
EngineWrite(e) ==
    LET g     == engine[e]
        ino   == IF g.ino # 0 THEN g.ino ELSE IF staging # 0 THEN staging ELSE inodes + 1
    IN /\ g # None /\ g.at < Size /\ ino <= MaxInode
       /\ disk' = [disk EXCEPT ![ino][g.at + 1] = g.ver]
       /\ inodes' = IF ino > inodes THEN ino ELSE inodes
       /\ staging' = IF g.ino = 0 THEN ino ELSE staging
       /\ engine' = [engine EXCEPT ![e].at = g.at + 1, ![e].ino = ino]
       /\ UNCHANGED <<row, scope, lastWriter, final, cands, proof, pc, job, stop,
                      epoch, remote>>

\* The process is waited for before its outcome is used.
Fault_NotReaped(e) == UNCHANGED engine
EngineGone(e) == engine' = [engine EXCEPT ![e] = None]

\* aria2 reports success: nothing more to receive, no control file left. The
\* response may or may not have announced the size of the whole body.
EngineOk ==
    /\ pc = "run" /\ engine[epoch] # None /\ PartialExists
    /\ EngineGone(epoch)
    /\ \E known \in BOOLEAN : job' = [job EXCEPT !.sized = known]
    /\ pc' = "hash"
    /\ UNCHANGED <<row, scope, lastWriter, files, proof, stop, epoch, remote>>

\* aria2 fails, or the poll loop sees the stop request and terminates it.
EngineFail ==
    /\ pc = "run" /\ engine[epoch] # None
    /\ EngineGone(epoch)
    /\ \E err \in Errors :
         /\ err = "stopped" => stop
         /\ job' = [job EXCEPT !.error = err]
    /\ pc' = "judge"
    /\ UNCHANGED <<row, scope, lastWriter, files, proof, stop, epoch, remote>>

\* A leftover engine ends by itself.
OrphanEnds(e) ==
    /\ e < epoch /\ engine[e] # None
    /\ EngineGone(e)
    /\ UNCHANGED <<row, scope, lastWriter, files, proof, pc, job, stop, epoch, remote>>

-----------------------------------------------------------------------------
(* What transfer() makes of a failed attempt. The attempt_finished event   *)
(* that precedes each transition is not part of the item's state.          *)

\* A second short body with no more bytes than the first is a real one.
Stalled == job.error = "eof" /\ StagedSize > 0 /\ stall # None /\ StagedSize <= stall

JudgeStalled ==
    /\ pc = "judge" /\ Stalled
    /\ pc' = "mvLink" /\ job' = [job EXCEPT !.why = "incomplete_body"]
    /\ Quiet /\ UNCHANGED <<status, attempts, version, verdict, closing, files, proof>>

\* A full disk must not cost an attempt.
JudgeDiskFull ==
    /\ pc = "judge" /\ job.error = "disk_full"
    /\ status' = "queued" /\ attempts' = job.attempts /\ stall' = None
    /\ Leave("idle")
    /\ Quiet /\ UNCHANGED <<version, sha, review, closing, files, proof>>

JudgeDenied ==
    /\ pc = "judge" /\ job.error = "access_denied"
    /\ status' = "review_required" /\ review' = "access_denied" /\ stall' = None
    /\ Leave("idle")
    /\ Quiet /\ UNCHANGED <<attempts, version, sha, closing, files, proof>>

JudgeUnavailable ==
    /\ pc = "judge" /\ job.error = "unavailable"
    /\ status' = "unavailable" /\ stall' = None
    /\ Leave("idle")
    /\ Quiet /\ UNCHANGED <<attempts, version, sha, review, closing, files, proof>>

\* Everything else retries; an incomplete body leaves its byte count to compare.
JudgeRetry ==
    /\ pc = "judge" /\ job.error \in {"eof", "other", "stopped"} /\ ~Stalled
    /\ status' = "retry_wait"
    /\ stall' = IF job.error = "eof" THEN StagedSize ELSE None
    /\ Leave("idle")
    /\ Quiet /\ UNCHANGED <<attempts, version, sha, review, closing, files, proof>>

-----------------------------------------------------------------------------
(* Validation and promotion.                                               *)

Fault_SizedOnly(digest) == job.sized /\ job.expected # None /\ digest # job.expected
ChecksumDiffers(digest) == job.expected # None /\ digest # job.expected

SizeDiffers(digest) == job.sized /\ ByteCount(digest) # Size
Mismatch(digest) == IF ChecksumDiffers(digest) THEN "checksum_mismatch"
                    ELSE IF SizeDiffers(digest) THEN "size_mismatch" ELSE None

\* Hash the staged file, compare what there is to compare it with.
Hash ==
    /\ pc = "hash"
    /\ job' = [job EXCEPT !.digest = disk[staging], !.why = Mismatch(disk[staging])]
    /\ pc' = IF Mismatch(disk[staging]) = None THEN "intent" ELSE "mvLink"
    /\ Quiet /\ UNCHANGED <<status, attempts, version, verdict, closing, files, proof>>

Intent ==
    /\ pc = "intent"
    /\ status' = "promoting" /\ sha' = job.digest
    /\ Goto("link")
    /\ Quiet /\ UNCHANGED <<attempts, version, review, stall, closing, files, proof>>

\* The parent directory or the flush failed: the staged bytes wait for review.
IntentFails ==
    /\ pc = "intent"
    /\ status' = "review_required" /\ sha' = job.digest /\ stall' = None
    /\ review' \in {None, "ENAMETOOLONG"}
    /\ Leave("idle")
    /\ Quiet /\ UNCHANGED <<attempts, version, closing, files, proof>>

Fault_Replaces ==
    /\ pc = "link"
    /\ final' = staging
    /\ Goto("ledger")
    /\ Quiet /\ UNCHANGED <<status, attempts, version, verdict, closing, disk, inodes,
                            staging, cands, proof>>

\* os.link() creates the final name exclusively.
Link ==
    /\ pc = "link" /\ ~TargetExists
    /\ final' = staging
    /\ Goto("ledger")
    /\ Quiet /\ UNCHANGED <<status, attempts, version, verdict, closing, disk, inodes,
                            staging, cands, proof>>

\* The name was taken since it was last seen free.
LinkCollides ==
    /\ pc = "link" /\ TargetExists
    /\ \/ /\ job.ctx = "transfer"
          /\ pc' = "mvLink" /\ job' = [job EXCEPT !.why = "destination_collision"]
          /\ UNCHANGED <<status, review, stall, remediation>>
       \/ /\ job.ctx = "reconcile"
          /\ status' = "review_required" /\ review' = None /\ stall' = None
          /\ Leave("scope") /\ UNCHANGED remediation
       \/ /\ job.ctx = "remediate"
          /\ status' = "review_required" /\ stall' = None
          /\ remediation' = "manual_collision"
          /\ Leave("requeue") /\ UNCHANGED review
    /\ Quiet /\ UNCHANGED <<attempts, version, sha, cleaned, files, proof>>

\* Any other error of link(); in remediate_safe_paths() also of the directory
\* flush after a successful link.
LinkFails ==
    /\ pc = "link"
    /\ status' = "review_required" /\ stall' = None
    /\ IF job.ctx = "remediate"
       THEN /\ remediation' = "manual_error" /\ UNCHANGED review
            /\ final' \in (IF TargetExists THEN {final} ELSE {final, staging})
       ELSE /\ review' \in {None, "ENAMETOOLONG"} /\ UNCHANGED <<remediation, final>>
    /\ Leave(After(job.ctx))
    /\ Quiet /\ UNCHANGED <<attempts, version, sha, cleaned, disk, inodes, staging,
                            cands, proof>>

\* finalized_event(): written and synced before the completion commit.
FinalizedEvent ==
    /\ pc = "ledger"
    /\ finalized' = finalized \cup {[sha |-> job.digest, claim |-> job.expected]}
    /\ Goto("complete")
    /\ Quiet /\ UNCHANGED <<status, attempts, version, verdict, closing, files, logged>>

Complete ==
    /\ pc = "complete"
    /\ status' = "complete" /\ sha' = job.digest
    /\ remediation' = IF job.ctx = "remediate" THEN "complete" ELSE remediation
    /\ IF job.ctx = "reconcile" /\ staging = 0 THEN Leave("scope") ELSE Goto("unlink")
    /\ Quiet /\ UNCHANGED <<attempts, version, review, stall, cleaned, files, proof>>

UnlinkStaging ==
    /\ pc = "unlink"
    /\ staging' = 0
    /\ Goto("cleaned")
    /\ Quiet /\ UNCHANGED <<status, attempts, version, verdict, closing, disk, inodes,
                            final, cands, proof>>

CleanupDone ==
    /\ pc = "cleaned"
    /\ status' = "complete" /\ cleaned' = TRUE
    /\ Leave(After(job.ctx))
    /\ Quiet /\ UNCHANGED <<attempts, version, verdict, remediation, files, proof>>

-----------------------------------------------------------------------------
(* move_candidate(), candidate_event() and the review transition after it. *)

CandidateLink ==
    /\ pc = "mvLink"
    /\ cands' = cands \cup {staging}
    /\ Goto("mvUnlink")
    /\ Quiet /\ UNCHANGED <<status, attempts, version, verdict, closing, disk, inodes,
                            staging, final, proof>>

CandidateUnlink ==
    /\ pc = "mvUnlink"
    /\ staging' = 0
    /\ Goto("mvLog")
    /\ Quiet /\ UNCHANGED <<status, attempts, version, verdict, closing, disk, inodes,
                            final, cands, proof>>

CandidateEvent ==
    /\ pc = "mvLog"
    /\ logged' = logged \cup {job.why}
    /\ Goto("mvReview")
    /\ Quiet /\ UNCHANGED <<status, attempts, version, verdict, closing, files, finalized>>

CandidateReview ==
    LET why == job.why IN
    /\ pc = "mvReview"
    /\ status' = "review_required"
    /\ review' = IF why \in ReviewCodes THEN why ELSE review
    /\ sha' = IF why \in {"checksum_mismatch", "size_mismatch"} THEN job.digest ELSE sha
    /\ IF why \in RepresentationReview
       THEN /\ etag' = IF job.seen = None THEN None ELSE job.seen.etag
            /\ lastMod' = IF job.seen = None THEN None ELSE job.seen.date
       ELSE UNCHANGED <<etag, lastMod>>
    \* after these two the item never retries, so its byte count is not read again
    /\ stall' = IF why \in {"incomplete_body", "destination_collision"} THEN stall ELSE None
    /\ Leave("idle")
    /\ Quiet /\ UNCHANGED <<attempts, gen, closing, files, proof>>

-----------------------------------------------------------------------------
(* The daily recheck of an unavailable item.                               *)

\* next_recheck() and claim_recheck(); the clock may make it due at any time.
ClaimRecheck ==
    /\ pc = "idle" /\ ~stop /\ selected /\ status = "unavailable"
    /\ pc' = "recheck"
    /\ job' = [NoJob EXCEPT !.gen = gen, !.etag = etag, !.lastMod = lastMod,
                            !.expected = expected]
    /\ Quiet /\ UNCHANGED <<status, attempts, version, verdict, closing, files, proof>>

StillUnavailable ==
    /\ pc = "recheck"
    /\ Leave("idle")
    /\ Quiet /\ UNCHANGED <<status, attempts, version, verdict, closing, files, proof>>

AvailableAgain ==
    /\ pc = "recheck"
    /\ \E r \in HeadReplies \ {None} :
         LET decision == Classify(job.etag, job.lastMod, r)
             safe     == \/ job.gen = 0 \/ ~PartialExists \/ job.expected # None
                         \/ decision = "confirmed_unchanged"
         IN IF safe
            THEN status' = "queued" /\ Leave("idle")
            ELSE /\ pc' = "mvLink"
                 /\ job' = [job EXCEPT !.seen = r, !.why = ReviewCause(decision)]
                 /\ UNCHANGED status
    /\ Quiet /\ UNCHANGED <<attempts, version, verdict, closing, files, proof>>

-----------------------------------------------------------------------------
(* Confirmed commands, run by the control thread of a running controller.  *)

ControlOpen == pc \notin Booting \cup {"down"} /\ job.ctx = "transfer" /\ selected
ControlOnly == UNCHANGED <<scope, lastWriter, files, proof, pc, job, stop, world,
                           expected, closing, sha>>

ExcludeItem ==
    /\ ControlOpen /\ status \in Excludable
    /\ status' = "excluded"
    /\ ControlOnly /\ UNCHANGED <<attempts, version, review, stall>>

\* SQL leaves a NULL generation NULL when it adds one to it.
ResumeNewGeneration ==
    /\ ControlOpen /\ status = "review_required" /\ review \in RepresentationReview
    /\ gen < MaxGen
    /\ status' = "queued" /\ review' = None /\ stall' = None
    /\ etag' = None /\ lastMod' = None
    /\ gen' = IF gen = 0 THEN 0 ELSE gen + 1
    /\ ControlOnly /\ UNCHANGED attempts

RetryAccessDenied ==
    /\ ControlOpen /\ status = "review_required" /\ review = "access_denied"
    /\ status' = "queued" /\ review' = None /\ stall' = None
    /\ ControlOnly /\ UNCHANGED <<attempts, version>>

\* A signal, the time limit, the storage reserve or checkpoint_stop.
RequestStop ==
    /\ ControlOpen /\ ~stop
    /\ stop' = TRUE
    /\ UNCHANGED <<row, scope, lastWriter, files, proof, pc, job, world>>

\* The main loop ends: on request, or with nothing left that it could admit.
Exit ==
    /\ pc = "idle"
    /\ stop \/ ~Eligible
    /\ pc' = "down" /\ stop' = FALSE
    /\ UNCHANGED <<row, scope, lastWriter, files, proof, job, world>>

\* aria2 is a process of its own; "recorded" leaves out the kill between its
\* start and record_worker().
Survives(e) == \/ Survivors = "all"
               \/ Survivors = "recorded" /\ engine[e] # None /\ engine[e].recorded

\* The controller is killed, or dies of a local failure (a provenance or
\* SQLite error raised out of a worker ends the run).
Crash ==
    /\ pc # "down" /\ epoch < MaxEpoch
    /\ Leave("down") /\ stop' = FALSE /\ epoch' = epoch + 1
    /\ engine' = [e \in Epoch |-> IF Survives(e) THEN engine[e] ELSE None]
    /\ UNCHANGED <<row, scope, lastWriter, files, proof, remote>>

-----------------------------------------------------------------------------
(* run() up to the main loop.                                              *)

\* The run ID is bound to its queue inputs; only a new run may import a queue
\* that gives the item another checksum.
Boot ==
    /\ pc = "down"
    /\ Goto("reconcile")
    /\ \/ UNCHANGED <<scope, expected>>
       \/ /\ run < MaxRun
          /\ run' = run + 1 /\ selected' = FALSE
          /\ expected' \in (IF QueueMayChange THEN QueueSums ELSE {expected})
    /\ UNCHANGED <<status, attempts, version, verdict, closing, lastWriter, files,
                   proof, stop, world>>

\* reconcile_promotions(): finish what a promotion intent started.
Fault_AnyTarget == TargetExists /\ sha # None
TargetMatches == TargetExists /\ sha # None /\ disk[final] = sha
Fault_SelectedOnly == status = "promoting" /\ selected
Intended      == status = "promoting"
Relinkable    == ~TargetExists /\ sha # None /\ staging # 0
Finish(place) ==
    /\ pc' = place
    /\ job' = [NoJob EXCEPT !.ctx = "reconcile", !.digest = sha, !.expected = expected]
    /\ UNCHANGED <<status, review, stall>>
ReconcilePromotion ==
    /\ pc = "reconcile"
    /\ \/ ~Intended /\ Goto("scope") /\ UNCHANGED <<status, review, stall>>
       \/ Intended /\ TargetMatches /\ Finish("ledger")
       \/ Intended /\ ~TargetMatches /\ Relinkable /\ Finish("link")
       \/ /\ Intended /\ ~TargetMatches /\ ~Relinkable
          /\ status' = "review_required" /\ stall' = None /\ UNCHANGED review
          /\ Goto("scope")
       \/ \* the target cannot be read
          /\ Intended /\ TargetExists
          /\ status' = "review_required" /\ stall' = None /\ review' = None
          /\ Goto("scope")
    /\ Quiet /\ UNCHANGED <<attempts, version, sha, closing, files, proof>>

\* scope_run(): keep an earlier selection, or select the item if no final file
\* is there yet and --max-files is not reached.
ScopeRun ==
    /\ pc = "scope"
    /\ \/ UNCHANGED selected
       \/ ~selected /\ ~TargetExists /\ selected' = TRUE
    /\ Goto("cleanup")
    /\ UNCHANGED <<row, run, lastWriter, files, proof, stop, world>>

\* scope_run() meets an existing final file: reconcile_existing_file().
ScopeExisting ==
    /\ pc = "scope" /\ ~selected /\ TargetExists /\ status \notin Tracked
    /\ \/ /\ expected = None
          /\ status' = "existing_unverified" /\ Goto("cleanup")
          /\ UNCHANGED verdict
       \/ /\ expected # None /\ disk[final] # expected
          /\ status' = "review_required" /\ Goto("cleanup")
          /\ sha' = disk[final] /\ review' = "checksum_mismatch" /\ stall' = None
       \/ \* the file cannot be read
          /\ expected # None
          /\ status' = "review_required" /\ Goto("cleanup")
          /\ review' = None /\ stall' = None /\ UNCHANGED sha
       \/ \* scope_run() passes path objects where finalized_event() needs
          \* text: json.dumps() raises and the start fails
          /\ expected # None /\ disk[final] = expected
          /\ pc' = "down" /\ UNCHANGED <<status, verdict, job>>
    /\ Quiet /\ UNCHANGED <<attempts, version, closing, files, proof>>

Fault_AnyStatus == selected /\ ~cleaned
NeedsCleanup == selected /\ status = "complete" /\ ~cleaned

\* cleanup_completed_staging(): repeat an unlink that a kill prevented.
CleanupStaging ==
    /\ pc = "cleanup"
    /\ \/ /\ NeedsCleanup
          /\ pc' = "unlink" /\ job' = [NoJob EXCEPT !.ctx = "cleanup"]
       \/ \* nothing to clean, or the unlink failed and the next start repeats it
          Goto("remediate")
    /\ Quiet /\ UNCHANGED <<status, attempts, version, verdict, closing, files, proof>>

\* remediate_safe_paths(): promote staged bytes whose old name was too long.
Remediable == selected /\ status = "review_required" /\ review = "ENAMETOOLONG"
              /\ remediation = None
RemediateSafePath ==
    /\ pc = "remediate"
    /\ \/ /\ ~Remediable
          /\ Goto("requeue") /\ UNCHANGED <<status, stall, remediation>>
       \/ /\ Remediable /\ staging # 0 /\ sha # None /\ disk[staging] = sha
          /\ status' = "promoting" /\ UNCHANGED <<stall, remediation>>
          /\ pc' = "link" /\ job' = [NoJob EXCEPT !.ctx = "remediate", !.digest = sha]
       \/ \* no staged file, no digest, another digest, or a local error
          /\ Remediable
          /\ remediation' = "manual_error" /\ stall' = None /\ UNCHANGED status
          /\ Goto("requeue")
    /\ Quiet /\ UNCHANGED <<attempts, version, sha, review, cleaned, files, proof>>

\* requeue_interrupted_transfers(): stop the writer that this run's manifest
\* names last, then return the item to the queue.
Fault_OwnSessionOnly(e) == engine[e] # None /\ engine[e].recorded /\ e = epoch
Survivor(e) == engine[e] # None /\ engine[e].recorded /\ lastWriter[run] = e
RequeueInterrupted ==
    /\ pc = "requeue"
    /\ IF selected /\ status \in Interrupted
       THEN /\ status' = "queued"
            /\ engine' = [e \in Epoch |-> IF Survivor(e) THEN None ELSE engine[e]]
       ELSE UNCHANGED <<status, engine>>
    /\ Goto("idle")
    /\ UNCHANGED <<attempts, version, verdict, closing, expected, scope, lastWriter,
                   files, proof, stop, epoch, remote>>

-----------------------------------------------------------------------------
(* The source, and other programs that write below the destination.        *)

InAttempt == pc \in {"probe", "activate", "spawn", "record", "run"}
SourceChanges ==
    /\ SourceMoves # "never" /\ (SourceMoves = "between_attempts" => ~InAttempt)
    /\ remote < Versions
    /\ remote' = remote + 1
    /\ UNCHANGED <<row, scope, lastWriter, files, proof, pc, job, stop, epoch, engine>>

\* A final file appears that this controller did not create.
FinalAppears ==
    /\ final = 0 /\ inodes < MaxInode
    /\ inodes' = inodes + 1 /\ final' = inodes + 1
    /\ \E v \in Version :
         disk' = [disk EXCEPT ![inodes + 1] = [k \in Chunk |-> v]]
    /\ UNCHANGED <<row, scope, lastWriter, staging, cands, proof, pc, job, stop, world>>

-----------------------------------------------------------------------------
Worker ==
    \/ Admit \/ Start \/ Probe \/ Activate \/ Spawn \/ RecordWorker
    \/ JudgeStalled \/ JudgeDiskFull \/ JudgeDenied \/ JudgeUnavailable \/ JudgeRetry
    \/ Hash \/ Intent \/ IntentFails \/ Link \/ LinkCollides \/ LinkFails
    \/ FinalizedEvent \/ Complete \/ UnlinkStaging \/ CleanupDone
    \/ CandidateLink \/ CandidateUnlink \/ CandidateEvent \/ CandidateReview
    \/ StillUnavailable \/ AvailableAgain
Startup ==
    \/ Boot \/ ReconcilePromotion \/ ScopeRun \/ ScopeExisting \/ CleanupStaging
    \/ RemediateSafePath \/ RequeueInterrupted
MainLoop == Pick \/ ClaimRecheck \/ Exit
Control  == ExcludeItem \/ ResumeNewGeneration \/ RetryAccessDenied \/ RequestStop
Engine   == EngineOk \/ EngineFail \/ \E e \in Epoch : EngineWrite(e) \/ OrphanEnds(e)
Environment == Crash \/ SourceChanges \/ FinalAppears

Next == Worker \/ Startup \/ MainLoop \/ Control \/ Engine \/ Environment

\* Threads run, the engine ends, and the operator starts the controller again
\* after it died. Nothing obliges the operator to send a command.
Fairness == WF_vars(Worker) /\ WF_vars(Startup) /\ WF_vars(EngineOk \/ EngineFail)
Spec     == Init /\ [][Next]_vars
FairSpec == Spec /\ Fairness

-----------------------------------------------------------------------------
(* Properties.                                                             *)

\* Type invariant of the row, the files, the events, the locals of the working
\* thread (row columns as open_db() declares them) and the processes.
RowType ==
    /\ status \in Statuses /\ attempts \in 0..MaxAttempts /\ gen \in 0..MaxGen
    /\ etag \in Tag \cup {None} /\ lastMod \in Version \cup {None}
    /\ expected \in Body \cup {None} /\ sha \in Body \cup {None}
    /\ review \in ReviewCodes \cup {None} /\ stall \in 0..Size \cup {None}
    /\ cleaned \in BOOLEAN
    /\ remediation \in {None, "manual_error", "manual_collision", "complete"}
ScopeType == run \in Run /\ selected \in BOOLEAN /\ lastWriter \in [Run -> 0..MaxEpoch]
FilesType ==
    /\ disk \in [Inode -> Body] /\ inodes \in 0..MaxInode
    /\ staging \in 0..inodes /\ final \in 0..inodes /\ cands \subseteq 1..inodes
EventsType ==
    /\ finalized \subseteq [sha : Body, claim : Body \cup {None}]
    /\ logged \subseteq CandidateReasons
ThreadType ==
    pc \in {"down", "idle"} \cup Booting \cup Steps /\ job \in Jobs /\ stop \in BOOLEAN
WorldType ==
    /\ epoch \in Epoch /\ engine \in [Epoch -> Engines \cup {None}]
    /\ remote \in Version
TypeOK == RowType /\ ScopeType /\ FilesType /\ EventsType /\ ThreadType /\ WorldType

\* A row says complete only when the final file exists, its bytes have the
\* recorded digest, and a finalized event with that digest was written before:
\* whatever was killed, collided or failed on the way (transfer(),
\* reconcile_promotions(), remediate_safe_paths()).
CompleteHasFinal ==
    status = "complete" =>
        /\ final # 0 /\ disk[final] = sha
        /\ \E f \in finalized : f.sha = sha

\* No engine holds the published file open, as run_aria2() waits for the process
\* before transfer() hashes and links what it wrote.
PublishedHasNoWriter ==
    final # 0 => \A e \in Epoch : engine[e] # None => engine[e].ino # final

Moving   == {"mvLink", "mvUnlink", "mvLog", "mvReview"}
Fetching == {"probe", "activate", "spawn", "record", "run", "judge", "hash", "intent"}
Before   == Fetching \cup Moving \cup {"picked", "start", "recheck"}

\* An engine that outlived its controller: the manifest of the run names it, and the
\* next start stops it before anything is admitted, unless the item was excluded
\* while it ran, and then nothing works on the item any more.
Outlived(e) ==
    /\ Survivors = "recorded" /\ engine[e].recorded /\ lastWriter[run] = e /\ selected
    /\ \/ status = "active" /\ pc \in Booting \cup {"down"}
       \/ status = "excluded" /\ pc \in Booting \cup {"down", "idle"}

\* No other engine exists but that of the attempt in progress, and it holds the file
\* that the staging name links to, which is not the published one.
EnginePhase ==
    \A e \in Epoch : engine[e] # None =>
        /\ engine[e].ino = staging /\ (staging = 0 \/ staging # final)
        /\ (e = epoch /\ pc \in {"record", "run"}) \/ Outlived(e)

\* An attempt is of a selected item, which is active until it ends or is excluded; the
\* manifest names its process before the poll loop watches it.
AttemptPhase ==
    /\ pc \in {"picked", "start", "probe", "activate", "spawn", "record", "run"} => selected
    /\ pc \in {"spawn", "record", "run"} => status \in {"active", "excluded"}
    /\ \A e \in Epoch : engine[e] # None =>
           /\ pc = "record" => ~engine[e].recorded
           /\ pc = "run" => lastWriter[run] = e

\* From the target check to the promotion intent the staged file is not the
\* published one; it exists where it is hashed, linked or set aside.
StagedPhase ==
    /\ pc \in Fetching => staging = 0 \/ staging # final
    /\ pc \in {"hash", "intent", "link", "mvLink", "mvUnlink"} => staging # 0
    /\ pc = "intent" => job.digest = disk[staging]
    /\ pc = "mvUnlink" => staging \in cands

\* An intent names the digest of the staged bytes until it is resolved, and the
\* steps after link() find that digest under the final name.
IntentPhase ==
    /\ status = "promoting" =>
           /\ pc \in {"down", "reconcile", "link", "ledger", "complete"} \cup Moving
           /\ sha # None /\ (staging # 0 => disk[staging] = sha)
    /\ pc \in {"link", "ledger", "complete"} => status = "promoting" /\ job.digest = sha
    /\ pc \in {"ledger", "complete"} => final # 0 /\ disk[final] = sha
    /\ pc = "complete" => \E f \in finalized : f.sha = sha

\* No thread fetches, moves or rechecks a completed item, and what its staging
\* name still links to is a copy of what was published.
ClosedPhase ==
    /\ pc \in {"unlink", "cleaned"} => status = "complete"
    /\ pc \in Before => status # "complete"
    /\ status = "complete" /\ staging # 0 => disk[staging] = sha

\* The locals: an attempt was counted below the ceiling, a move has its reason.
LocalsPhase ==
    /\ pc \in {"picked", "start", "probe", "activate"} => job.attempts < MaxAttempts
    /\ pc \in Moving => job.why # None

\* Where the thread stands decides what the files, the row and the locals look
\* like: run_aria2() waits for its process, transfer() hashes what it links, an
\* intent survives a kill until it is resolved, nothing works on a completed item.
PhaseInvariant ==
    EnginePhase /\ AttemptPhase /\ StagedPhase /\ IntentPhase /\ ClosedPhase /\ LocalsPhase

\* The item implements Custody: a final file appears at most once and its bytes
\* never change (link() is exclusive, and no engine holds a published inode),
\* and a row that says complete names these bytes for good.
Evidence == INSTANCE Custody WITH
    Bytes <- Body,
    published <- IF final = 0 THEN None ELSE disk[final],
    recorded  <- IF status = "complete" THEN sha ELSE None
CustodyKept == Evidence!Spec

\* Staged bytes are never lost: the staging name is removed only when a
\* candidate links to the same file or the final file holds the same bytes
\* (move_candidate(), the cleanup after completion and at startup).
EvidenceKept ==
    [][staging # 0 /\ staging' # staging =>
          \/ staging \in cands'
          \/ final' # 0 /\ disk'[final'] = disk[staging]]_vars

\* Is the checksum of the queue the one that the digest on record was compared with?
\* So it is while no queue changes it, and in a run that made an attempt of its own.
SameQueue == QueueMayChange => lastWriter[run] # 0

\* A finalized event that claims the expected checksum was compared is true: the
\* published digest is that checksum (transfer() compares before the promotion intent;
\* finalized_event() writes compared:true). That holds for every event of a worker,
\* and for one by which a start finishes a promotion, unless the start belongs to a
\* later run than the attempt, whose queue may have replaced the checksum meanwhile
\* (import_queues() comes before reconcile_promotions()).
ClaimsCompared ==
    [][\A f \in finalized' \ finalized :
          f.claim # None /\ (job.ctx = "transfer" \/ SameQueue) => f.sha = f.claim]_vars

\* What ClaimsCompared follows from. An attempt on its way to promotion has its writer
\* in the manifest of the run:
AttemptNamed ==
    /\ \A r \in Run : r > run => lastWriter[r] = 0
    /\ pc \in {"run", "judge", "hash", "intent"} => lastWriter[run] # 0
    /\ pc \in {"link", "ledger", "complete"} /\ job.ctx = "transfer" => lastWriter[run] # 0
\* an item whose name is too long is not in an attempt:
TooLong ==
    review = "ENAMETOOLONG" =>
        /\ status \in {"review_required", "excluded", "promoting", "complete"}
        /\ pc \notin Before /\ (pc = "link" => job.ctx # "transfer")
\* and the locals hold the checksum of the row, with which every digest that can still
\* be promoted was compared.
DigestCompared ==
    /\ pc \in Before \/ (pc = "link" /\ job.ctx = "transfer") => job.expected = expected
    /\ pc \in {"link", "ledger", "complete"} => job.expected \in {None, expected}
    /\ expected # None =>
           /\ pc = "intent" => job.digest = expected
           /\ SameQueue /\ (status = "promoting" \/ review = "ENAMETOOLONG") => sha = expected
ClaimPhase == AttemptNamed /\ TooLong /\ DigestCompared

\* While a validator baseline is recorded and no checksum protects the item,
\* the staged bytes come from one representation: check_representation() stops
\* every resume that it cannot confirm. A baseline whose ETag is a weak one is
\* excepted: the code takes an equal weak tag for confirmation, and the versions
\* may then mix.
Guarded == expected = None /\ (etag # None \/ lastMod # None) /\ etag # Weak
BaselineGuardsResume ==
    Guarded /\ staging # 0 => Cardinality(Sources(disk[staging])) <= 1

\* A promotion intent does not stay: the worker finishes it, or the next start
\* completes it or hands it to review.
PromotionResolved ==
    status = "promoting" ~> status \in {"complete", "review_required"}

\* Within one run ID, a writer that the manifest names does not live to see the
\* next engine of the item start (terminate_surviving_writer()).
RecordedWriterStopped ==
    pc = "spawn" => \A e \in Epoch : engine[e] # None => ~engine[e].recorded
==============================================================================
