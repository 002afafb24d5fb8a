# A TLA+ model of the tod-dl acquisition controller

tod-dl downloads a fixed selection of files through Tor, keeps evidence-grade
records of every step, and may be killed and restarted at any moment. This
directory holds TLA+ modules that model the controller, TLC configurations that
check them on small instances, and TLAPS proofs of the properties that matter
most. Everything is translated from `src/src/*.py`; the specifications in
`src/specs` and `src/docs` are used only as statements the code is compared with.

## 1. Inventory

| Component | Source | State it keeps | Operations |
|---|---|---|---|
| Item lifecycle | `tod-dl.py` `transfer`, `recheck_unavailable`, `reconcile_*`, `remediate_safe_paths`, `requeue_interrupted_transfers`, `control_exclude_item`, ... | a row of `downloads` in SQLite; staging, candidate and final files; provenance events; manifest workers | admit, probe, start engine, judge, hash, promote, move aside, recheck, exclude, new generation, startup recovery |
| Scheduler | `tod-dl.py` `run` (main loop), `next_pending`, `retry_wait`, `reserve_worker_id` | futures, worker slots, stop/drain/pause flags, deadline | admit, collect, sleep, pause, resume, drain, checkpoint, signals |
| State projection | `tod-dl.py` `TelemetryStateProjection`, `transition` | counts by display bucket, revision, retry aggregates | hydrate, apply, set_revision, copy |
| Run selection | `tod-dl.py` `import_queues`, `scope_run` | `run_items` | import, scope, dry run |
| Tor control | `tod-dl.py` `request_newnym`, `send_tor_newnym`, `verify_tor_isolation` | `tor_renewals` with `successful_at`, cooldown | NEWNYM for an operator or a transfer, cooldown wait |
| Provenance writer | `provenance.py` | one record set per session: `events.jsonl`, the sequence number, the previous digest and the count of finalized events of the open writer, a signed summary | event, close |
| Provenance verifier | `verify_provenance.py` | none | verify a record set: chain, counts, final files, signature |
| Control channel | `controller.py`, `monitor.py` | confirmations by nonce (60 seconds), responses by request ID (in memory), `control_requests` (durable) | state, prepare, act, replay; the monitor's prepare and confirm dialog |
| Telemetry publisher | `download_telemetry.py` | lifecycle, busy slots, event ring, sequence number, `snapshot.json` and its temporary file | set_active, clear_active, set_lifecycle, request_publish, publish loop, stop |
| Inspection service | `inspection.py` | session, read-only SQLite connection | list_queue with cursors, item, worker and attempt records |
| Queue pane | `monitor.py` `QueuePane` | filters, cursor stack, page index, page, request flag, export | filter, page keys, revision poll, export |
| Monitor console | `monitor.py` | screen state | rendering, keys; changes the system only through the control channel |
| Inventory | `inventory.py` | snapshot store, activation log, manifest, queue with sidecar, diff report | snapshot, activate, manifest, queue, diff |
| Evaluation harness | `acquisition_evaluation.py`, `run_acquisition_evaluation.py`, `aria2_evaluation_adapter.py` | reports | supervise engines in a test bench |

How they meet. The main loop of `run` selects rows and submits `transfer` or
`recheck_unavailable` to a thread pool. Workers, the main loop and the control
thread share one SQLite connection under `db_lock`; every change of a row goes
through `transition`, which reads the old row, writes the new one and the audit
record in one transaction, and applies the change to the projection after the
lock is released. Provenance events are written and synced before the row they
justify. The publisher copies the projection and the runtime samples from a
thread of its own into `snapshot.json`, which the monitor polls. The monitor sends
commands to the control thread and page requests to the inspection thread, each
over a local socket with a timeout. aria2 is a child process that may outlive a
killed controller. The inventory tool runs on its own; its queue files are what
`import_queues` reads.

What is hard: a kill between any two of commit, link, unlink and event; engines
that survive; a destination that appears meanwhile; commands that arrive while a
worker holds a row it read earlier; a source that changes its representation
between attempts; stop, drain, pause and deadline racing the admission loop;
worker slots released after the row was; projection updates applied in another
order than they were committed; an event that is written only in part; answers
that time out while the request goes on; a rate limit checked under a lock that
is released before the act; two writers of one temporary file; answers applied to
a page the operator has left. `PROJECT.json` lists each hazard at its line.

What makes each component correct:

- Item lifecycle: a published file never changes and is never replaced; a row
  says complete only for bytes that are there and were recorded; no staged byte
  is lost; two writers never share a partial; versions are never mixed; every
  promotion intent is resolved after a kill.
- Scheduler: every stop ends the run, slots never leak, no item has two tasks,
  nothing is left in hand, nobody starves, pause and access denial hold.
- Projection: counts account for every item in every snapshot and agree with the
  rows once applied.
- Provenance: a record set that verifies has lost nothing; a session that met no
  failure verifies; a completed item has a record; nothing written is changed.
- Control channel: a request and a nonce act at most once, within what was
  confirmed, and every effect leaves a durable trace. Tor renewal: one shared rate
  limit.
- Publisher: a reader finds a whole snapshot, never an older one than before; the
  last one is the outcome; no change stays unpublished.
- Inspection and queue pane: the page shown is the page the pane stands on, an
  export is one revision, every request ends, changes are announced.
- Inventory: a file is found under the directory of its section; a queue holds
  what the policy gives it; a diff category is the one the two entries call for.

## 2. Modules

| Module | What it is |
|---|---|
| `Acquisition` | One item: row, files, events, worker, recheck, startup, control thread, engine, source |
| `Custody` | The abstract promise of an item: published once, recorded once, never taken back |
| `AcquisitionProofs` | Lemmas and theorems about `Acquisition`: types, phases, evidence, `Custody`, the baseline of a resumed partial, writers that outlive a kill |
| `Scheduler` | The main loop, the pool, the slots and the flags, for several items |
| `Projection` | Committed changes and the summary they are applied to |
| `Provenance` | Record sets of several sessions, the writer with its failures, the order of events and rows, the verifier |
| `Control` | Monitor dialog, control socket, server, durable requests, Tor renewal |
| `Consent` | The abstract promise of the channel: nothing is done but what an operator was asked and confirmed while the offer stood, at most once |
| `Publisher` | Busy slots and lifecycle on their way to `snapshot.json` |
| `Queue` | `list_queue` and the queue pane of the monitor |
| `Inventory` | The listing parser, the snapshot store and what is made of a snapshot |
| `SchedulerProofs` `ProjectionProofs` `ProvenanceProofs` `ControlProofs` `PublisherProofs` `QueueProofs` `InventoryProofs` | Lemmas and theorems about the module each is named after |
| `MC...` | The constants of each for TLC |

Definitions named `Fault_...` are plausible mistakes in the definition that
follows them. They are not part of any specification; each exists to show that
some property fails when the code is wrong in that way (`PROJECT.json`, `mutants`).

The modules share no variables. They meet in what each leaves out: `Scheduler`
has the tasks and slots that `Acquisition` has one of, `Projection` the summary of
their commits, `Provenance` their events in one file, `Control` the commands whose
effects the first three have as actions, `Publisher` the snapshots that copy the
projection, `Queue` the rows as an operator sees them.

### Acquisition

One thread at a time works on an item, so a single program counter `pc` with the
record `job` of its locals stands for the startup sequence, the main loop, the
worker and the recheck. The control thread, the engine processes and the source
interleave with it.

| Variables | Code |
|---|---|
| `status attempts gen etag lastMod expected sha review stall cleaned remediation` | columns of `downloads`; `stall` is `bytes` of a previous incomplete body (with its `last_error`), `gen` 0 is a NULL `staging_generation` |
| `run selected lastWriter` | run ID, `run_items`, the item's last `workers` entry in each run's manifest |
| `disk inodes staging final cands` | file contents by inode and the names that link to them, because `link` and `unlink` are what the code promotes and moves with |
| `finalized logged` | provenance events about the item |
| `epoch engine remote` | controller lives, the aria2 process each started, the version the source serves |

A body is a function from chunks to the version each chunk came from, so that
mixing versions, truncation and equality of digests are visible; a digest is the
body itself. `Survivors` says which aria2 processes a kill of the controller
leaves running: none, those already recorded in the manifest, or all. A crash
(`Crash`) is possible in every state with a running controller and keeps exactly
the durable part.

| Actions | Code |
|---|---|
| `Pick Admit` | main loop, `next_pending` |
| `Start Probe Activate Spawn RecordWorker EngineOk EngineFail Judge*` | `transfer`, `run_aria2`, `classify_representation` |
| `Hash Intent Link* FinalizedEvent Complete UnlinkStaging CleanupDone` | promotion in `transfer`, shared with `reconcile_promotions`, `remediate_safe_paths` and `cleanup_completed_staging` (the field `ctx` says for whom) |
| `Candidate*` | `move_candidate`, `candidate_event`, `enter_representation_review` |
| `ClaimRecheck StillUnavailable AvailableAgain` | `claim_recheck`, `recheck_unavailable` |
| `ExcludeItem ResumeNewGeneration RetryAccessDenied RequestStop` | confirmed commands |
| `Boot ReconcilePromotion ScopeRun ScopeExisting CleanupStaging RemediateSafePath RequeueInterrupted` | `run` up to the main loop |
| `EngineWrite OrphanEnds SourceChanges FinalAppears` | external: aria2, the source, other programs |

Left out: paths that were made unsafe by somebody else (symbolic links in the
staging or destination tree lead to review in the code; the model assumes nobody
plants them), a run ID that is taken up again after a later one (runs follow one
another), statuses only older releases wrote, the text of errors (an outcome
class is enough), and byte counts other than the one the stall rule reads.

### Scheduler

`task[s]` is a future and where its worker stands, `ids` is `worker_ids`, `main`
the place in the loop. A worker's stages are only those at which it touches
shared state: it takes a slot, commits a status, looks its slot up
(`record_worker`), sees a stop, gives its slot back. `Events` names what may
happen from outside in a run of TLC, so that each question is asked with the
events that matter to it. Times are abstracted to `due` and `expired`: a deadline
may pass at any moment. The one assumption about durations is that a recheck
request takes less than a day.

### Projection

`pending[t]` holds the changes thread `t` has committed and not applied; `Apply`
is one call of `apply` or `set_revision`. The publisher copies under the lock of
the projection, so each state of the projection may be a snapshot. A sum over
items or changes is a fold (`Sum`), in which no order matters.

### Provenance

A digest is the number `event` gave its record. `lines[s]` is `events.jsonl` of
session `s`; a write (`Event`) is whole and synced, whole and not synced, cut
short and not noticed, or fails, and the next record then follows a line without
an end. `writer` advances as the code's does, before the write for the sequence
number and after it for the digest and the count. The actions are the places
that write events (`Start`, `Reconcile*`, `Admit`, `Attempt`, `Candidate`,
`Review`, `Finalize`, `LocalFailure`, `Close`, ...) with the rows they justify.
At a start, `reconcile_promotions` is done with one row before it turns to the
next (`BetweenRows`). `Verify` is the verdict of the verifier on a session. `lost` holds the sessions
in which a write failed or fell short and `spoiled` those that met another
failure (a kill, the database, a URL with credentials that is refused before
anything is written); both only serve the properties.

### Control

One operator has one request on its way (`call`); `late` is one that its client
gave up on and the server still has. `ctl` is where the control thread stands,
`renew` where each caller of `request_newnym` does, a transfer that renews on
its own included; `confirmations`, `completed` and `pending` (the monitor's
remembered selection) are in memory, `requests` and `renewals` in the database.
Each socket operation is `state`, `prepare` or `act`, and `act` is served in the
order of the code: replay, nonce, durable record, effect, record, answer. The flag
of a pause, resume, drain or stop is set in memory just before its record is
committed (`tod-dl.py:1412-1425`); `HandleCommand` joins the two, for a kill between
them ends the flag with the process.
`ChannelSpec` is the channel alone; `Spec` adds the automatic renewals and their
clock.

`Agreement` maps the channel to `Consent`. A nonce stands for what it was prepared
for, in its session and while its confirmation is live (`Stands`); that of a
renewal, which is taken before the locks of `request_newnym`, stands until its
signal is accepted or refused. Whatever is neither an `Offer` nor an `Act` is a
`Lapse`, if only of nothing.

### Publisher

`at`, `data` and `handle` are the place of a writer in `publish`, what it built
and the open file; a file stays open when its name changes. The telemetry thread
and, at the end, the main thread are the writers. `overran` notes that the final
join expired with the loop inside `publish`, `late` that a stop was shown after
the outcome was set, `ended` that the session ended by itself.

### Queue

A row is its rank; `tables` keeps every revision, so that a page can be compared
with the revision it claims. `flight` is the request on its way and its answer,
`stack`, `index`, `page` and `banner` are the pane, `export` the export in
progress. A page is described by what it holds: the first matching ranks behind the
cursor, in order, and none left out but later ones when it is full (`Lists`).
`Place` is Python's index, in which a negative one counts from the end; one outside
of the list (not `Listed`) raises `IndexError`, which ends the monitor.
`disturbed` notes that the operator's last keys met a dropped, refused, failed or
exhausting request, after which the pane repairs itself only at the first page.

### Inventory

`ParseLine` is a step of the parser, folded over a listing. A text is what it is
as a header (`HeadOf`) and as an entry (`EntryOf`), so a line that could be either
is one value. A directory, a name and a path are sequences of segments and a path
is the two joined, as the code joins strings: a name with a slash is unsafe, but
its path may be that of a safe name in another section, and the first entry of a
path decides for all (`FirstOf`). The store, the log, the manifest, the queue, its
sidecar and the diff are the variables. Each command is an action, except the
export of a queue, which is three (`LinkQueue`, `CreateSidecar`, `WriteSidecar`): a
kill may come between any two, and leaves an empty sidecar after the second. An
empty one stands for every one that is cut short. `Damage*` changes a file behind
the tool's back.

## 3. Runs

| Run | Expect | Shows |
|---|---|---|
| `crash` | pass | With two kills anywhere, a second run ID, a foreign final file and an optional checksum that a later queue may replace: types, the phase invariant, `CompleteHasFinal`, `ClaimsCompared`, refinement of `Custody`, `EvidenceKept`, and `PromotionResolved`: every promotion intent ends in complete or review |
| `resume` | pass | With a source that changes between attempts and recorded engines that survive a kill: a recorded baseline with a strong ETag or a date alone keeps a partial in one version, and a writer named in the manifest is stopped before the next engine of the item starts |
| `admission` | pass | Slots, tasks and rows agree under failures, full disks, requeues and exclusions |
| `endings` | pass | Stop and deadline end the run though no engine ends by itself; a drain ends it though items are requeued for ever; no admissible item starves while attempts have a ceiling |
| `pause` | violation | A pause with an item due stops the run |
| `projection` | pass | Counts and bytes agree with the rows in every order of application |
| `provenance` | pass | With one failure anywhere, two sessions and overlapping queues: the verifier's verdict is right in both directions, a completed item has a record, a record set is append-only and sealed |
| `control` | pass | With timeouts, repetitions, late requests, changed selections and a restart: at most one effect for a request and a nonce, with a durable trace; refinement of `Consent`: an effect is what its nonce was prepared for, in its session, while it stood |
| `newnym` | violation | Two callers pass the rate limit before either success is recorded |
| `publisher` | pass | With failed writes, kills and a join that expires: whole snapshots in order, the last one the outcome, no change lost |
| `queue` | pass | Any four keys, a changing row, a failed request or a restart: pages, exports, requests and announcements |
| `inventory` | pass | All listings of five lines of five kinds, repeated, unsafe and differently normalized names, a name with a slash, a damaged file and a kill: parser, queue and diff |

Each violation is a disagreement between the code and a line of the repository
that `PROJECT.json` quotes under `findings`.

The models also contain behaviours that a reader of the specifications may not
expect and that no run is about; where a property excepts one, its comment says so.

- Item lifecycle. A worker, a recheck or an admission that holds a row it read
  before a confirmed exclusion writes its own status over it (`transition` does
  not look at the old one). An item selected before its origin was denied is still
  admitted. Without a recorded validator and without a checksum a partial is
  continued with what the source serves now; `BaselineGuardsResume` says exactly
  what is guarded. An equal ETag confirms the representation whether it is strong
  or weak (`tod-dl.py:2388-2390`), so a source whose weak tag stays equal across
  versions makes the next attempt mix them, although the docstring above it
  (`tod-dl.py:2374-2376`) and `specs/SPEC-reliable-acquisition.md:245-251` treat
  anything short of a strong ETag or a checksum as unconfirmed. `Weak` is such a tag,
  `Guarded` excepts it, and without that conjunct TLC finds the mixture. A kill between the two halves of `move_candidate` leaves the
  candidate and the staging name on one file, which the next attempt continues. A
  kill between the start of aria2 and its record in the manifest leaves a writer
  that no start finds, although
  `specs/SPEC-reliable-acquisition.md:308` asks never to start a second one
  (`Survivors = "all"`). A start under a new run ID imports its queue, which may
  replace the checksum of an item that is being promoted (`tod-dl.py:1782`), before
  it finishes the promotion (`tod-dl.py:2817`), and then records the new checksum
  as available and compared although nothing was compared with it
  (`tod-dl.py:849`; `docs/CHAIN-OF-CUSTODY.md:185` says that the event "states
  whether the value was available and whether the controller compared it").
  `SameQueue` excepts exactly these events from `ClaimsCompared`; without it TLC
  finds the behaviour within seconds. A start that meets an existing file with the
  expected checksum fails in the event encoder (`ScopeExisting`, `tod-dl.py:1869`).
- Scheduler. An item that becomes due between `next_pending` and `retry_wait`
  stops the run like the pause does. An item that is readmitted before its former
  worker has cleaned up loses its slot to that clean-up, and `record_worker` then
  fails with a `KeyError` (`tod-dl.py:2786`); for a moment two transfers may show
  one worker ID, which makes the monitor reject the snapshot (`monitor.py:115`).
- Projection. The published revision may go back, a late `apply` may leave an
  entry of an admitted item in the retry index, and a count may be negative in a
  snapshot (`tod-dl.py:694`), which the monitor rejects (`monitor.py:97`).
- Provenance. A start with another run ID that finishes a promotion writes a
  finalized event for an item its own run does not count; the session may then
  fail verification (`verify_provenance.py:161`) although nothing was lost. `Own`
  excepts it.
- Control. An exception in a handler that the server does not catch ends the
  control thread (`controller.py:174`). The monitor drops a confirmed command
  without a word while another request is on its way (`monitor.py:2742`).
- Publisher. A drain or stop accepted at the very end shows "stopping" after the
  outcome was set, and the last snapshot is not final, so the monitor reports a
  finished run as disconnected (`tod-dl.py:1496`, `specs/SPEC-download-telemetry.md:155`).
  `late` excepts it. A join that expires lets two writers mix one file up; `overran`
  excepts it.
- Queue. A page request that only confirms the end of the queue moves `page_index`
  (`monitor.py:2065`; `specs/SPEC-console-queue.md:116` says it pushes nothing), and
  PageUp in front of the first page makes it negative. Clearing the filters reloads
  twice. A change is announced on the first page only. `disturbed` and `FirstPage`
  except these. In the attempt history, outside this model, the key for the next
  page adds the first one again at the end (`monitor.py:1626`).
- Inventory. A line directly after a header that is too long or not UTF-8 leaves
  the parser waiting for the separator: the next blank line is taken for it, the
  header that follows is read as an entry, and the files of that section go under
  the previous directory (`inventory.py:122-143`; "Listing format" in
  `specs/SPEC-inventory-snapshot-manifest.md`). `Skewed` excepts it; such a listing
  has an issue, so it is accepted only with a `--max-issues` above zero. A
  path whose only variants on the other side are listed twice or unsafe stays
  "added" or "removed" (`inventory.py:669-678`), where the same specification
  (lines 230-232) calls it ambiguous; `DiffRight` leaves it open. A safe path is
  rejected as a duplicate if an unsafe name with a slash came to the same path
  before it (`inventory.py:494-505`), so no queue ever holds it; `QueueFaithful` asks
  only for paths whose first entry is safe. A listing with `data/ALL_FILES` makes the export of its whole queue
  fail, below a base URL that does not end in `/data`. A kill between a queue and
  the end of its sidecar leaves a queue without provenance or with an empty or cut
  one (`write_new`, `inventory.py:65-69`), which cannot be exported again under that
  name.

Bounds.

- `crash`, `resume`: two chunks tell empty, partial and full bodies apart and are
  the least with which versions can mix. Three attempts allow a stall after a
  version change (`resume`). Three controller lives (two kills) let a kill hit the
  recovery from a kill; `crash` spends its states on these with one attempt, since
  what it checks is also proved for any number of attempts (section 4), except
  `PromotionResolved`, which no retry can reach. Three inodes hold a final file, a
  candidate and a new partial.
- `admission`, `endings`, `pause`: `MaxAttempts` is the ceiling of
  `--max-attempts`; with the default 0 (no ceiling) it is a bound on how long the
  run is observed. Two items and two workers are the least with which slots can
  clash and origins be shared; two items on one worker are used where the order of
  the queue matters.
- `projection`: six revisions let one item complete and be cleaned up while a
  second change is in flight.
- `provenance`: two items and two run IDs whose queues overlap, so a start can meet
  an item that is not its own; two sessions; three attempts in all; one failure,
  since the properties are about what a single one can hide.
- `control`: one item, two request IDs and two nonces (a repetition and a
  substitution), two sessions; a command for items, one for the run and the renewal
  (`retry_now`, which takes either, does what these two do). Time stands still in it,
  so expiry is an event of its own; `newnym` has one automatic renewal and one tick.
- `publisher`: one transfer in a session, two sessions, one repeated snapshot and
  two failures, so that a kill can follow an expired join.
- `queue`: pages and exports of one row, so that two rows make two pages; a cap of
  two cursors (100 in the code), so that four keys pass it; one change.
- `inventory`: five lines of all listings imported together, which holds a section,
  its separator and the start of the next; three commands, which is import,
  manifest, queue and import, import, diff. The ListingParser is also run on every
  sequence of its five kinds of line up to that length.

Deadlock is checked in the runs of `Acquisition` and `Scheduler`: an item always
has a next step there, and a loop that is over has `Ended`. It is not in the others, where a bound ends every behaviour
(`MaxRevision`, `MaxSessions`, `MaxRequests`, `MaxCommands`) or the pane waits for
the operator.

Fairness. Pool threads, the main loop and the startup sequence run when they can
(weak fairness): nothing in the code blocks them for good, all waits have
timeouts. After a kill the operator starts the controller again in `crash`; no
command is ever required. Engines end by themselves only where a property says so
(`EnginesEnd`, their connect and read timeouts, in `DrainEnds` and `Served`);
`StopEnds` holds without. In `Publisher` the threads run and time passes; no
transfer need end and no failure is fair. In `Queue` a request ends after at most
one second, its answer is applied, and the pane polls. `Provenance`, `Control` and
`Inventory` have safety properties only.

## 4. Proofs

Every safety property of a passing run is proved for all values of the constants.
In each proof module `Inv` (`Safe` and `Resumable` in `AcquisitionProofs`) is the
inductive invariant: `Init` implies it, one lemma for each action, group of actions
or part shows that a step preserves it, and the theorems follow from it.

| Module | Theorem | Statement |
|---|---|---|
| `AcquisitionProofs` | `SafeAlways` | the inductive invariant |
| | `TypeCorrect`, `PhasesKept`, `CompleteSafe` | its parts, which `crash` checks too |
| | `PublishedSafe` | no engine ever holds a published file |
| | `EvidenceSafe` | `EvidenceKept`, an action property |
| | `CustodySafe` | `CustodyKept`: `Acquisition` implements `Custody` |
| | `ClaimsSafe` | `ClaimsCompared`, an action property |
| | `ResumeAlways` | the inductive invariant of resumption |
| | `BaselineSafe` | `BaselineGuardsResume` (a strong ETag or a date alone) while the source is steady |
| | `WriterStopped` | `RecordedWriterStopped` |
| `SchedulerProofs` | `InvHolds`, `Typed` | the inductive invariant, `TypeOK` |
| | `SlotsSuffice`, `OneTask` | `SlotFree`, `OneTaskPerItem` |
| `ProjectionProofs` | `InvHolds`, `Typed` | the inductive invariant, `TypeOK` |
| | `SummaryExact` | `CountsAgree` |
| `ProvenanceProofs` | `InvHolds`, `Typed` | the inductive invariant, `TypeOK` |
| | `NothingUnrecorded`, `LossIsVisible`, `CleanVerifies` | `CompletedHasRecord`, `FailureIsVisible`, `CleanSessionVerifies` |
| | `EvidenceStays` | `Sealed`, an action property |
| `ControlProofs` | `InvHolds`, `Typed` | the inductive invariant, `TypeOK` |
| | `AtMostOnce`, `NothingUnrecorded` | `OnlyOnce`, `EffectsAudited` |
| | `NothingBeyondGrant` | `WithinGrant`, which says of the recorded grants what `ConsentKept` says of every step |
| | `OnlyByConsent` | `ConsentKept`: `Control` implements `Consent` |
| | `ChannelIsPart` | the channel alone is a behaviour of the whole, so all of it holds there too |
| `PublisherProofs` | `InvHolds`, `Typed` | the inductive invariant, `TypeOK` |
| | `ReadersSafe`, `LastIsFinal` | `PathWhole`, `FinalIsLast` |
| | `InOrder` | `Forward`, an action property |
| `QueueProofs` | `InvHolds`, `Typed` | the inductive invariant, `TypeOK` |
| | `ExportsWhole`, `PlaceKept` | `ExportWhole`, `Aligned` |
| `InventoryProofs` | `InvHolds`, `Typed` | the inductive invariant, `TypeOK` |
| | `ParsedRight` | `ParsedByPosition`: what the parser makes of any listing |
| | `QueueRight`, `DiffIsRight` | `QueueFaithful`, `DiffRight` |

The arguments.

- Acquisition. `CompleteHasFinal` is not inductive: it says nothing about how the
  thread got to the completion commit. `Safe` adds `TypeOK` and `PhaseInvariant`,
  which ties the place of the thread to files, row and locals in six parts. The
  only engine holds the staged inode and is that of the attempt in progress, or it
  outlived its controller and is the one the manifest names (`EnginePhase`,
  `Outlived`), so a file that is hashed, linked or set aside has no writer; an
  attempt is on a selected item whose row is active or excluded, and the manifest
  names its engine once it runs (`AttemptPhase`); the staged inode is not the
  published one up to the intent (`StagedPhase`); an intent names the digest of the
  staged bytes until it is resolved (`IntentPhase`), which is what makes completion
  after a kill sound; no thread fetches or moves a completed item (`ClosedPhase`);
  the attempt was counted below the ceiling (`LocalsPhase`). `ClaimsSafe` adds
  `ClaimPhase`: an attempt on its way to promotion has its writer in the manifest of
  the run (`AttemptNamed`), an item whose name is too long is in no attempt
  (`TooLong`), and every digest that can still be promoted was compared with the
  checksum of the row, unless a later run replaced it (`DigestCompared`).
- Resumption. That the staged bytes are of one version while validators are
  recorded, and no weak ETag among them, rests on four facts: an inode not made yet is empty; what is staged or
  on its way is no newer than the source and no older than the baseline, because
  the baseline is observed before the first byte; the thread compares with the
  baseline its row holds, and records a new one for nothing but an empty file; and
  between the probe and the engine everything staged is what the source serves.
- Scheduler. `SlotFree` is a statement about counting that never counts: `Room`
  says there is an injection from the items that hold a slot into the slots that no
  transfer is about to take, which every step can extend or restrict. `Exclusive`
  and `Reserved` say why an admitted row is nobody else's, `Attended` that a row in
  hand has a task until its failure is collected.
- Projection. Every snapshot equals the sum over the committed rows with each
  change that was not applied yet undone (`Owed`), for each bucket and for the
  bytes. A commit moves a row and adds the change to what is left, an `apply` takes
  it out of both; so the order of application does not matter, and with nothing
  left the summary is that of the rows. `Ledger` says that the changes left are
  finitely many and distinct, `Carried` what a task may rely on of its row.
- Provenance. A failed or short write leaves an unreadable line, a missing number or
  a link that is not there, and no later event mends it (`Trace`); without one the
  file is what the writer thinks it is, line by line (`Intact`), and each finalized
  record is of an item of its own (`Honest`).
- Control. An effect rests on a nonce that is spent and was granted for it
  (`Grounded`), and it has a durable trace (`Traced`), which is what the next
  request under its ID meets before anything happens; a renewal in progress is the
  one case in which trace and effect are apart (`Renewed`). For `OnlyByConsent` each
  handler is shown to be a step of `Consent`: a prepare is an `Offer` of a fresh
  nonce; a command that takes effect and an accepted signal are an `Act` on what
  their nonce stands for; a refusal, a record that is met, an expiry and a crash are
  a `Lapse`; nothing else touches an offer.
- Publisher. Unless a join expired there is one handle on the temporary file and it
  is its writer's (`Handles`), so what is renamed is whole; the snapshot in hand
  has the latest number and nothing published has it (`Numbered`).
- Queue. What an export has collected is exactly what matches up to its cursor in
  the revision the cursor names (`Collected`), and an answer adds the ranks between
  two cursors (`Added`). As long as no answer was lost, the pane stands where it
  should: the page awaited or shown is that of the current cursor, the cursor to go
  on lies behind it, and the list is at most one over its cap (`InPlace`). Each flag
  stands for the one request that takes it back (`Flags`).
- Inventory. The state is simple (`Inv`): the log names stored, accepted snapshots;
  the digest a manifest records is that of the items of an accepted snapshot, a
  queue and its sidecar hold the rows of that manifest, and a report is the diff
  of two listings, whatever was done to the files since. The difficulty is in what
  a command computes. `Induct` gives induction up to a number for a set in place
  of a predicate, from the library's facts on well-founded orderings. With it
  `KnownLines` shows, line by line, what the parser knows after a prefix of a
  listing in terms of positions in it: whether it is before, in or behind a header
  (`PlaceKnown`), the section a line belongs to is that of the last header above
  it (`SectionKnown`), the files are those of the entries so far (`FilesKnown`),
  and each fault counts once (`FaultsKnown`). `ParsedByPosition` is that fact for
  the whole listing. The queue's order is a sorting by bucket and line:
  `InOrderLists` says that listing a finite set in an order leaves nothing out and
  repeats nothing, and `OrderedIs`, `RowsAre` and `QueueIs` that the rows are then
  those of the policy's buckets. `DiffIs` says which category a path gets from the
  entries on both sides.

TLC checked each of these invariants on the constants of the run of its module
(that of `Projection` with five revisions, that of `Queue` also with three rows and
five keys). `PhaseInvariant` is a property of `crash`.

Assumptions. The constants satisfy the named assumptions of each module, which TLC
evaluates in its runs: sizes are numbers and mostly positive, sets of items are
finite, and `None` is none of the values it stands beside. Beyond these:

- `OneWriter` (all of `AcquisitionProofs`): engines die with
  their controller, or only those survive that the manifest names and the item
  keeps its run ID, so that the next start finds and stops them. Without it the
  theorems are false: a writer nobody stops may hold the file that the next life
  publishes (section 3).
- `Steady` (`ResumeAlways`, `BaselineSafe`): the source does not move between the
  probe of an attempt, which is where the code compares validators, and the
  connection of its engine, and no later run gives the item a checksum.

That a strong ETag differs between versions is part of the model (`ETagIn`): it is
what a strong one means. Nothing is assumed of a weak one, and the theorem says
nothing about it.

The other proof modules assume nothing beyond the constants. The exceptions in
their properties (`overran`, `late`, `Own`, `disturbed`) are those section 3
describes; `broken` is a main loop of the scheduler that an exception has left.

Only model-checked:

- liveness, which is out of the prover's reach: `PromotionResolved`, `StopEnds`,
  `DrainEnds`, `Served`, `ChangePublished`, `RequestsEnd`, `ChangeAnnounced`;
- the two disagreements (`pause`, `newnym`), which are counterexamples.

## 5. Plan

1. Done: `Acquisition` and its proofs, `Scheduler`, `Projection`, `Provenance`,
   `Control`, `Publisher`, `Queue`, `Inventory`.
2. Done: the inductive invariant of every module, and its safety properties from it.
3. Done: `Acquisition` implements `Custody`, `Control` implements `Consent`. To
   come: an abstract specification of the scheduler that the detailed one implements.
4. A module `RunScope` for the selection of a run (limits, order, immutability
   across kills), and the details windows of the monitor with their own cursors.

Not modelled, and why: the rendering, key maps and contents of the monitor's
windows (a terminal user interface without further shared state); telemetry
samples, phases and validation progress (data that no property tells apart); the
Tor isolation preflight and connectivity cooldown (network I/O with one verdict);
the policy and base URL formats of the inventory (validation of a file, no state);
the evaluation harness (a test bench for engines, not part of a run).
