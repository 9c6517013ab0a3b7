# A TLA+ model of athar

athar is a runtime that observes the business events of an application. A PHP
*shim* inside the application sends events over a local socket to a Rust
*daemon*, which writes them to an append-only evidence log, commits to them in a
hash-chained audit trail, projects them onto lifecycles, looks for signals in
them and, when asked, answers with a decision. The daemon limits its own disk
use, evicts the oldest evidence, and degrades under pressure down to a safe mode
in which events are dropped and the loss is recorded as a *coverage gap*. A
command line tool reads the same files while the daemon runs.

This directory holds TLA+ modules for the parts of that system that keep state
and share it, TLC configurations that check them on small instances, and proofs
for TLAPS. Paths below are relative to the repository; `crates/` stands for
`daemon/crates/`.

    tlc -config Eviction.cfg Eviction.tla          # one run, see "Runs"
    tlapm EvictionProofs.tla                       # one module of proofs

## 1. Inventory

| Part | Source | State | Operations | Shares with |
|---|---|---|---|---|
| Evidence log, quota | `crates/athar-storage/src/segment_log.rs`, `quota.rs` | segment files (`.wip`, `.seg`, `.quarantine`), active file and its size, byte counter, next id | open, append, rotate, evict_oldest_closed, close | ingest, eviction driver and spool collector, behind one `Arc<Mutex>` |
| Eviction driver | `crates/athar-daemon/src/eviction.rs` | how many segments this tick has evicted | tick, evict, look at the fill ratio | the log's mutex, taken anew for each step |
| Audit chain | `crates/athar-audit/src/{lib,writer,persistence}.rs` | pending records, tip, next sequence number and segment id; segment files | observe, close_segment, flush, open, verify_segment, verify_all, mark_redacted | ingest and spool collector, behind one mutex; the commands, behind none |
| Commands | `crates/athar-cli/src/main.rs` | none of their own | audit verify, policy validate, policy show; doctor, status and lists | the daemon's directories, databases, policy file and port |
| Lifecycles | `crates/athar-lifecycle/src/` | tables of lifecycles and of event bindings, in SQLite or in memory | apply (correlate, transition, late class, upsert), staleness sweep | the store; the engine's mutex covers apply only |
| Event model | `crates/athar-event/src/lib.rs`, `schema/event.v1.0.json` | none | parse, validate, serialize anew | every shim and every reader of the evidence |
| Ingest server | `crates/athar-daemon/src/ingest.rs`, `main.rs` | connections, the tasks, what each frame has gone through | accept, ingest_one, emit_coverage_gap_if_any, shutdown | everything above |
| Drop counters | `ingest.rs` (`DropCounters`, coverage watcher) | three atomics; the watcher's last level | record, take, watch, drain | all connections, watcher, shutdown |
| Governor | `crates/athar-governor/src/lib.rs` | last reports, breach and heartbeat instants, level, dead-man's switch | report_host, report_budget, shim_heartbeat, tick | read by every connection; a `watch` channel |
| Host metrics | `crates/athar-daemon/src/host_metrics.rs` | none | a periodic report | the governor |
| Signal engine, trackers | `crates/athar-detection/src/{signal,trackers}.rs` | known resources, three trackers with an lru each | evaluate | one RwLock, three mutexes, all connections |
| Policies, decisions | `crates/athar-detection/src/{policy,decision,store}.rs` | the policy config; the decision database | evaluate, swap, write_signal, write_decision | an RwLock; SQLite |
| Policy reload | `crates/athar-daemon/src/policy_reload.rs` | mtime last seen, config last applied | stat, read, swap | the file system; the policy engine |
| Spool collector | `crates/athar-daemon/src/shim_spool.rs` | the spool directory | scan, ingest a loss record, delete the file | the shim through the directory; log and chain |
| Shim | `shim/src/Runtime.php`, `shim/src/Shim/{Buffer,Transport,Spool}.php` | bounded buffer, socket, spool file | observe, flush, write, writeLoss, evaluate | the daemon through socket and spool |
| Configuration, keys, adapters | `config.rs`, `signer.rs`, the shim's factories and Laravel glue | none, or files read once | parse, create | |

A frame takes this way: shim buffer, socket, `ingest_one`; there the level is
read once, the frame is parsed and validated, appended to the log, committed to
the chain, applied to a lifecycle, evaluated, decided, stored and, if it asked
for a decision, answered. Each of these steps takes its own lock and gives it
back. What cannot be sent is summed up in a spool file, and what is dropped in
safe mode in counters; both end as a `coverage_gap` record in the log, with a
commitment in the chain.

What is hard:

* **Interleaving.** No lock spans two components, so between the log and the
  chain, between a look at the fill ratio and an eviction, between reading a
  lifecycle and writing it back, any other task may run. The commands take no
  lock at all.
* **Failure.** Every file operation may fail after the state in memory has moved; a
  database that cannot be read answers like one that holds nothing;
  the process and the machine may stop anywhere; append does not fsync.
* **Reopening.** Ids, tips and counters are rebuilt from whatever files are left.
* **Order.** Instants are read before the locks they are used under; events and
  frames arrive twice, late and out of order.
* **Bounds.** Quota, buffer and trackers throw away by age, as they see age.
* **Formats.** What the daemon takes for an event is written twice, as Rust types
  with a few checks and as a published schema, and evidence outlives both.

What makes each part correct is stated in section 4, hazard by hazard, with its
line, in `PROJECT.json`.

## 2. Plan and structure

The order in which the modules are written follows from what the others rely on:
first the evidence log, the system's reason to exist, then what destroys it
(eviction), what vouches for it (the chain), who feeds both (ingest), and then
the components around them.

    EvidenceLedger  <--implements--  SegmentLog  <--EXTENDS--  Eviction
          ^
          | INSTANCE
       Ingest  --EXTENDS-->  EventModel
          | INSTANCE
          v
    AuditTrail      <--implements--  AuditChain  <--EXTENDS--  AuditVerify

    EventChannel    <--implements--  ShimDelivery

    Lifecycle      DropCounters      Governor
    Trackers  <--EXTENDS--  Detection      PolicyReload

    MCIngest, MCLifecycle, MCDetection, MCShimDelivery  give those modules their
                                events and frames for TLC; MCDetection runs
                                PolicyReload beside Detection
    XProofs  EXTENDS X  for X = Eviction, AuditVerify, Ingest, Lifecycle, Detection,
                                ShimDelivery, DropCounters, Governor

Three abstract specifications say what is promised. `EvidenceLedger` says what the
log promises: records are sealed in order, expire oldest first, and are set aside
by a crash. `AuditTrail` says what the chain promises: commitments are persisted
in batches, and a batch that is not persisted is lost whole. `EventChannel` says what
the way from the shim to the daemon promises: an event is received, told of as lost, or
lost in silence, one of the three and for good. The detailed modules are proved to
implement them, and checked to (`ImplementsLedger`, `ImplementsTrail`,
`ImplementsChannel`), and `Ingest` is written against the first two: the composed
system is small enough to check, and to prove about, because of that.

| Module | Models | State and actions, and where they come from |
|---|---|---|
| `EvidenceLedger`, `AuditTrail` | what log and chain promise | sets of records and commitments; `Seal`, `SetAside`, `Persist`, `Lose` and what surrounds them |
| `EventChannel` | what shim, spool and daemon promise | sets of events by their fate; `Make`, `Receive`, `Tell`, `Lose` |
| `SegmentLog` | `segment_log.rs`, `quota.rs` | the directory as three sets of ids and one set of bytes; the fields of the Rust struct under their names; one action per method and per way it can fail (`AppendTorn`, `OpenFails`, `RotateFailsToClose`, `RotateFailsToOpen`), `Crash` with or without loss of unsynced records |
| `Eviction` | `eviction.rs` on top of the log | `driver` is the place in `evict_to_low_water`; `Wake`, `EvictOne`, `GiveUp`, `Check`; `Traffic` is the rest of the daemon |
| `AuditChain` | `lib.rs`, `writer.rs`, `persistence.rs` of athar-audit | the two writers' fields, the store as a function from ids to segments; a hash is the sequence of what was hashed, so equality of hashes is equality of histories |
| `AuditVerify` | `cmd_audit_verify` of athar-cli beside the chain | `unread` and `prev_tip` are the locals of verify_all, which reads one file per step while the daemon goes on; `at` is where it is, and its outcome |
| `EventModel` | athar-event and the schema | operators over bodies, field by field: what deserializes, validates, is stored, conforms |
| `Lifecycle` | `engine.rs`, `scanner.rs`, `store.rs`, `sqlite_store.rs` | the tables; an apply is `Begin`, `Write`, `Bind`, a sweep is `StartSweep` and one `SweepOne` per row; the transition table, the tiers of correlation, those of them that a failed read leaves deaf, and the late classes are operators; the in-memory store is written beside the SQLite one |
| `Ingest` | `ingest.rs` | `conn[c]` is where a connection is in `ingest_one`; `emitter` the same for `emit_coverage_gap_if_any`; `daemon` the steps of the shutdown |
| `DropCounters` | the counters of `ingest.rs` | every atomic access of `record` and `take` is an action; `seen` and `was_l4` are the watcher's |
| `Governor` | `athar-governor` | ages instead of instants (the code only subtracts them); `Recompute` is the tail of every operation |
| `PolicyReload` | `policy_reload.rs`, `policy validate`, `policy show` | `Stat`, `Read`, and an operator's `Edit` |
| `Trackers` | `trackers.rs` | operators: the tracker after `observe` |
| `Detection` | `signal.rs` | `conn[c]` is where a connection is in `evaluate`, one action per lock it takes |
| `ShimDelivery` | shim buffer, transport, spool and `shim_spool.rs` | `at[r]` is where a request is in `flush`, `collector` where the collector is with a file; the buffer is bounded in frames and in bytes |

Definitions keep the source's names where they have one. `PROJECT.json` gives the
lines of every definition. Definitions introduced by "Mutant of" are plausible
mistakes in the definition they name; replacing it by the mutant makes the
property that goes with it fail.

## 3. Runs and bounds

| Run | Configuration | Checks | Distinct states |
|---|---|---|---|
| log | `Eviction.cfg` | the log under its driver: appends, I/O errors, evictions, crashes, reopens | 479 k |
| audit | `AuditVerify.cfg` | the chain through failed writes, exits, failed and successful reopens, redaction, and a command that reads it meanwhile | 1.6 M |
| lifecycle | `Lifecycle.cfg` | applies against sweeps, failed reads and writes, crashes; both stores | 217 k |
| drops | `DropCounters.cfg` | two connections, two takers | 680 k |
| ingest | `Ingest.cfg` | two connections, both emitters, refusals, exits | 1.4 M |
| governor | `Governor.cfg` | reports in any order, late instants | 22 k |
| detection | `Detection.cfg` | two connections, trackers that evict; the policy file under edit beside its watcher | 2.5 M |
| delivery | `ShimDelivery.cfg` | two requests, one collector | 225 k |
| eviction_stuck, audit_lost_write, lifecycle_lost, lifecycle_twice | `EvictionStuck.cfg`, `AuditChainLostWrite.cfg`, `LifecycleLost.cfg`, `LifecycleTwice.cfg` | a documented promise the code does not keep; a counterexample is expected | |

Every bound is a CONSTANT marked "bound" in its module, and every guard on one is
in the action that counts it.

* *Log.* Records of 1 and 2 units, segments of 3, quota 5: a record can fill a
  segment, not fit the active one, not fit the quota. Four appends, four segment
  ids and three opens give every order of rotate, evict, crash and reopen in which
  an id is handed out twice. Marks at 80 % and 50 % of the quota, so that one
  eviction may not be enough, and a cap of two per tick.
* *Audit.* Segments of two records, six commitments, three opens: three full
  segments, or short ones among them, and a hole at each place between them. Longer chains repeat
  the same adjacent pairs, all that verify_all looks at. One command reads while all
  of this goes on: commands do not see each other, and what a command is about to
  say does not depend on one before it.
* *Lifecycle.* Two creates that compete for one resource, and a settlement found by
  causation and sent by another tenant; two of the events arrive twice. Correlation and
  collision relate two lifecycles, so two are enough for them to go wrong. Any subset of
  an apply's lookups, the read of the row after them and the read of any stale row may
  fail, as often as they are made. The clock runs long enough for a row to go stale after
  the last arrival.
* *Drops and ingest.* The hazards are between two parties: two connections, and the
  two callers of the emitter. Of four frames, one of each kind (an event, an event
  that wants a decision, one with a reserved identity, a status query), any two are
  sent; the connections are interchangeable (symmetry; no liveness is checked there).
  Two records fill an audit segment, so that one commitment is in memory only and the
  next is not.
* *Governor.* The default windows, 30, 10 and 15 s, in units of 10 s. Ages saturate
  where no comparison can tell them apart, so nothing else is bounded.
* *Detection.* Two subjects of three and one target of two per tracker, so that the
  third subject evicts the first; a window of one unit and a lag of one in three units of
  time, so that times come out of order and a time behind a younger one is older than the
  window. Two policy configs and two edits, each under any of three mtimes: the engine can
  be a config behind, and an mtime can repeat. Events and edits are three together: the two
  halves share no state, so what matters is that each has enough of them, not both at once.
* *Delivery.* A buffer of two frames and two units of bytes for three events: a large
  frame pushes out both before it, one that is too large is dropped itself. One failure
  per file, two starts of the daemon.

What is proved (section 6) needs no bound: these are constants of any value there.

`CHECK_DEADLOCK FALSE` stands where a bounded system may stop: all events used up,
the daemon down for good. The governor never stops, and its run checks for deadlock.

## 4. What the runs show

**Evidence log.** What was acknowledged is on disk, evicted, or was lost with the
machine's power before its segment was closed (`AcknowledgedIsKept`); a receipt names
at most one record on disk, although ids are handed out again after a reopen
(`ReceiptsNameRecords`). Until a write stops half way, the counter is the directory's
size and the quota bounds it (`AccountingExact`, `QuotaRespected`). Records are sealed
in order, set aside by crashes and expire oldest first (`ImplementsLedger`).

**Eviction.** A segment is only deleted under pressure that still exists at that
moment (`EvictsUnderPressure`), and pressure that can be relieved is
(`PressureIsRelieved`). `CaptureResumes` fails: see section 7.

**Audit chain.** Without a failed write or a redaction the stored chain verifies and
is whole back to genesis (`IntactIsVerifiable`). With them, a chain verify_all accepts
has no hole between two records it holds (`VerifiedIsComplete`), and a stored segment
keeps its id, hashes and signature (`SegmentsAreFinal`). Commitments are persisted or
lost in whole batches (`ImplementsTrail`). `ChainIsVerifiable`, without conditions, fails.

**Commands.** verify_all lists the segments and then reads them one after the other.
Nothing the daemon does meanwhile makes it report a break where no write failed and
nothing was redacted (`FailIsRight`), or exit with 0 for a chain that did not verify when
it began (`PassIsRight`).

**Lifecycles.** The SQLite store answers "not found" when it cannot read. An apply whose
lookups all fail takes its event for the first of a new lifecycle: that is a *miss*. One of
them is enough to delete the row of the lifecycle it missed, so most of what holds here
holds until the first. Without a refused write, a miss or a sweep that overlaps an apply
no event is lost (`KeptUntilTrouble`) and bindings lead to the row that holds the
event (`BoundUntilTrouble`). A closed lifecycle stays as it was closed, whatever
SQLite refuses, if no sweep overlaps an apply and no lookup misses (`ClosedIsFinal`). Until
a miss the replacing upsert never deletes another lifecycle (`NoRowVanishes`), also when a
lookup fails and a later tier finds the lifecycle; until SQLite refuses something or
misses, the in-memory store, which the tests use, answers every lookup as it does
(`StoresAgree`); every open lifecycle is closed in the end (`NothingStaysOpen`).
`EventsAreKept` and `AppliedOnce`, which have no conditions, fail.

**Ingest.** Whatever commitment exists, its record exists or left in a way the history
names (`EvidenceBacksCommitments`); no record waits for its commitment but those a task
has in hand (`CommitmentsKeepUp`); whatever ends, a process, a machine or a write of the
chain, orphans less than one audit segment (`LittleIsLost`); an answer has its evidence,
its commitment and its decision, unless the store refused or lost that (`AnsweredIsRecorded`); a dropped
frame is counted, in an emitter's hands or spoken of in the chain, also when the log
refuses its gap (`DropsAreReported`); and no event gets into the evidence whose stored form
lacks an identity or would not be read back (`EvidenceIsGenuine`).

**Drops.** Each dropped frame and byte is counted once, by whichever taker
(`DropsConserved`); a safe mode the watcher knows of is reported when it ends
(`KnownDropsAreTaken`); what was counted at the signal is in a gap at the end, or in
the hands of the watcher that the shutdown aborts (`ShutdownDrains`).

**Governor.** However instants are reordered, a sustained breach trips the switch
(`SustainedBreachTrips`), a level is only lowered after it has stood for its window
(`RaisedLevelsLast`), and calm brings L0 back (`CalmRestores`).

**Detection.** Map and lru of a tracker agree and are bounded (`TrackersBounded`); a
count is exact for the window before the subject's latest event (`WindowsAreExact`); a
resource is reported new once per race (`ReportedOnce`).

**Policies.** The engine ends up with the policy file as it was left, unless the watcher
overlooked it (`PolicyConverges`).

**Delivery.** Every observed event is somewhere, or lost in one of the ways listed in
the module (`NothingVanishes`), never both received and reported lost (`NeverBoth`). A
loss record is ingested once, and again only after an attempt that failed with it in hand
(`IngestedOnce`), and the spool drains (`SpoolDrains`). Seen from afar it is a channel
(`ImplementsChannel`): a fate is final, so that an event the daemon has read is never
counted as lost later, and a loss record that is told again tells of nothing new. Silent
losses are those of a killed request, of a full buffer, of a daemon that died or closed the
connection over a frame it could not decode, and of a spool file read while empty.

## 5. Fairness

No fairness is assumed where only safety is checked. Elsewhere:

* *Eviction:* the driver's task is polled (WF on `Wake`, `Check`); `remove_file` may fail,
  but not every time it is tried (SF on `EvictOne`). Nothing is assumed of the traffic.
* *Lifecycle:* an apply that holds the lock runs to its end, the scanner's timer and the
  clock go on (WF); SQLite does not refuse every write of every sweep, and does not fail to
  read one and the same stale row for every sweep (SF, per row). Arrivals, crashes, misses
  are free.
* *Drops:* the watcher is woken by a new version and runs to its await (WF).
* *Governor:* time passes (WF), and the host collector, an endless loop with an interval,
  reports again and again (WF per level, which also covers a level that no longer changes).
* *Policy reload:* the polling loop ends with the daemon only (WF). A file that cannot be
  looked at, other than for not being there, is skipped by the code (`policy_reload.rs:107-109`)
  and a stutter here; fairness of `Stat` means that this does not last for ever. A file that
  cannot be read is not taken to be readable later: the code does not try again, which is
  part of `Overlooked`.
* *Delivery:* the collector scans every interval and is polled to the end of a scan. A file
  is scanned again and again (SF, as the daemon may be down in between). `MaxTroubles` bounds
  its failures: a log that refuses gaps for good, or a file that cannot be deleted, keeps
  its file in the spool, and `SpoolDrains` does not speak of it.

## 6. Proofs

TLC finds out whether a formula holds on a small instance; the theorems hold for
every value of the constants that satisfies the named ASSUMEs of the modules: sizes
are natural numbers, a record is not empty, a buffer and an audit segment hold
something, sentinels are no values, the sets of connections are finite. The bounds on
histories (appends, opens, observes, drops) are constants like the others, so that
nothing depends on how large they are. None of the properties is preserved by a step
on its own: each follows from an inductive invariant that says what the code relies on
without writing it down.

* `EvictionProofs`, about `SegmentLog` and `Eviction`. `LogInv` adds to the types that a
  file's id is unique, lies below the next id and, if it is active, above all others
  (`FilesInv`); that bytes lie in existing files in the order of their records
  (`BytesInv`); and that what was evicted is older than what is in a closed or the
  active segment (`HistoryInv`). Ids are handed out again after a reopen, and only the
  relation between the next id and the files left keeps them in order. Theorems:
  `LogInvariant`, `FilesKeepTheirIds`, `IdsAreChronological`, `EvictionIsOldestFirst`,
  `AcknowledgedRecordsAreKept`, `ReceiptsAreUnambiguous`, `ClosedSegmentsAreImmutable`;
  with `QuotaInv`, which relates counter, bytes on disk and quota until a write stops
  half way, `CounterIsExact` and `DirectoryFitsQuota`. `LogImplementsLedger` maps every
  action to a step of `EvidenceLedger` or a stutter. `DriverImplementsLog`: every step of
  the driver and of the traffic is a step of the log, so that all of this holds with
  eviction running (`DriverKeepsLedger`). `DriverInv` (`DriverInvariant`) says that what
  the driver saw still holds when it acts, as traffic only adds bytes; hence
  `EvictionNeedsPressure`.
* `AuditVerifyProofs`, about `AuditChain` and `AuditVerify`. `WriterInv` says that pending records
  are linked one to the next from the tip on, and that no stored segment has the id the
  next one gets; `ChainInv` that, while nothing is damaged, the stored chain verifies, ends
  at the writer's tip, and holds whatever a hash covers. Without the tip one could not show
  that the next segment continues the chain, and an exit or a reopen would break it.
  Theorems: `AuditInvariant`, `UndamagedChainVerifies`, `CrashLosesLessThanASegment`,
  `StoredSegmentsAreFinal`, and `ChainImplementsTrail`, which also needs that commitments
  are numbered in the order in which they are observed. `VerifiedChainsAreComplete` is by
  a least counterexample: if the chain verifies, take the shortest hash covered by the
  last record but not on disk after the first; the record before it, or the
  segment before that, would have to be missing too. `VerifyImplementsAudit` carries all of
  it over to the daemon with a command beside it. `ReportedBreaksAreReal` rests on the
  reader's position: what it has listed and not read is what the store still holds behind
  its anchor, as segments are final and new ids are higher. `PassedChainsVerified` follows a
  break from the moment the command begins until it is read: nothing mends it.
* `IngestProofs`, about `EventModel` and `Ingest`. Of the event model, by cases on the
  fields: what the schema admits is accepted, given that a lifecycle says how it is bound
  (`SchemaIsAccepted`), what is stored of it still conforms (`SchemaIsKept`), and what is stored
  of any accepted body names everything (`StoredIsGenuine`) and would be accepted again
  (`StoredIsAccepted`). Of the server, `IngestInv` says where every record is (`Everywhere`),
  that commitments and tasks only refer to records that are there (`Referenced`), what an
  emitter and a connection hold at each await (`Emitting`, `Checked`) and what a frame on its
  way to its answer has left behind (`Traced`). Theorems: `IngestInvariant`,
  `EvidenceComesFirst`, `CommitmentsFollow`, `NoDropIsForgotten`, `OnlyGenuineEvidence`,
  `AnswersAreRecorded`. `LogIsALedger` and `ChainIsATrail`: what `Ingest` does to its log
  and its chain is a behaviour of `EvidenceLedger` and of `AuditTrail`, so that the server
  asks no more of them than `SegmentLog` and `AuditChain` are proved to do beneath. What a
  failure costs is counted by a second invariant, `OnceInv` (`OnceInvariant`): no two
  connections or emitters hold the same record between the two mutexes (`HeldOnce`), none
  is committed twice, and none is committed once it was left behind (`CommittedOnce`). So
  what an exit leaves without a commitment was in the batch and nowhere else, and the
  batch maps onto it: fewer than a segment (`LossesAreBounded`). Without `HeldOnce` a
  record left behind could still be in somebody's hands.
* `LifecycleProofs`. `BaseInv` (`LifecyclesStayApart`): rows keep the columns they were created
  with, and until a miss no two lifecycles, written or about to be, share a resource or a
  business key. That is why the replacing upsert deletes no other row until then (`RowsStay`): a
  failed lookup is harmless as long as a later tier finds the lifecycle, and one that no tier
  finds is counted as a miss before anything is written. Above it, `FinalInv`
  relates the copy an apply or a sweep holds to the row it will replace while the two do not
  overlap (`ClosedLifecyclesAreFinal`); `KeptInv` says that such a copy has at least the row's
  events (`HandledEventsAreKept`, `BindingsLeadToTheirRow`); and `AgreeInv` says
  that the in-memory store's indexes are what the SQLite queries compute (`TheStoresAgree`).
* `ShimDeliveryProofs`. `StageInv` (`DeliveryStages`) ties a request's place in `flush`, its spool
  file and the collector together; `OnceInv` counts appended gaps against failures, one less while
  the file is still to be taken (`RecordsAreIngestedOnce`); `OrderInv` says that buffered frames
  are numbered without a gap and that a frame on the wire is before all of them and not among the
  lost (`ReceivedIsNotLost`); `PlaceInv` that every frame has a place (`NoEventVanishes`). `FateInv`
  says what has no fate yet: no frame is on the wire twice, and none of those on the wire, in the
  buffer or waiting in a spool file was received, told of or lost before, as what is lost in
  silence is older than what the buffer holds. So every step is a step of `EventChannel`, or
  none of it (`DeliveryIsAChannel`).
* `DetectionProofs`. `RaceInv` counts the connections between the read lock and the write lock of
  the known resources together with the reports made: the sum exceeds the races by one at most
  (`SightInvariant`, `NewResourcesAreReportedOnce`). `TrackersInv` says that the lru of a
  tracker names each of its subjects once and nobody else, so that the first of it is
  always a subject to evict; `Retain` lists what is left of a sequence without
  one element, which is a count of the positions before, not an induction
  (`TrackersStayBounded`, from `TrackersInvariant`). `WindowInv` (`WindowInvariant`) is
  about times that come out of order: between two elements of a queue the earlier one is
  later by the lag at most (`Orderly`), which follows from how long a connection may hold
  the time it read (`LagInv`); so cutting the
  front leaves every time of the window of the latest, counted as often as the tracker was
  told of it (`WindowsStayExact`).
* `GovernorProofs`. `BreachInv` relates the breach instant the governor keeps to the age
  of the breach: it is dated no later than it was reported; `HeldInv` relates
  the instant of the level to its age, which differ by no more than the delay between reading
  a clock and taking the lock. Theorems: `GovInvariant`, `LevelCoversItsInputs`,
  `BreachesTripTheSwitch`, `LevelsLast`.
* `DropCountersProofs`. The sum of counters, takers' hands and gaps is kept by
  every single atomic access, where a connection half way through `record` counts for the
  frame whose bytes are still to come; the drain is followed stage by stage (`DrainInv`).
  Theorems: `DropInvariant`, `DropsAreConserved`, `ShutdownLeavesNothing`.

Only model-checked are: everything about liveness, which the prover cannot do
(`PressureIsRelieved`, `NothingStaysOpen`, `CalmRestores`, `PolicyConverges`, `SpoolDrains`),
and `KnownDropsAreTaken`, which promises something later. Every invariant and every
other action property of the passing runs is a theorem.

## 7. Where the code differs from what is said of it

Four disagreements are shown by a run of their own:

* *A full quarantine stops the log* (`CaptureResumes`). Only closed segments are
  evictable (`segment_log.rs:304-311`), and no append can close the active one when the
  quota has no room for another record, although `eviction.rs:14-18` expects other work to
  bring relief. In the trace a crash leaves a file that the next open quarantines; the new
  active segment fills the rest of the quota, and from there nothing is evictable and every
  append is refused, although the daemon is healthy. Only a restart frees the active segment, by closing or
  quarantining it; the quarantined bytes no operation of the daemon frees. A `.wip` that a
  failed rotate abandons holds its bytes the same way until the next open.
* *A failed segment write breaks the chain for good* (`ChainIsVerifiable`). The writer has
  moved on before the write (`writer.rs:112-124`), against `writer.rs:18-19`.
* *A sweep loses an event* (`EventsAreKept`). It writes back the copy it read before the
  apply (`scanner.rs:19`), against `store.rs:7-10` and `engine.rs:11-17`.
* *An event delivered again is applied again* (`AppliedOnce`). OPS-7 (`SPEC.md:488`) says
  that ingest is idempotent on `event_id`; apply looks for a duplicate only among the late
  events of a closed lifecycle (`engine.rs:56`, 198) and appends to an open one whatever
  arrives (`engine.rs:64`).

The following were met while modelling. The models contain the behaviour; the properties
are stated so that they hold with it.

* Evidence log: bytes of a torn write are never counted before the next open
  (`segment_log.rs:195` against OPS-12); a torn record may end up in front of good ones in a
  closed segment; the test `segment_id_monotonic_across_reopens` (490) does not hold when
  the highest segment was evicted, or was empty when the log was closed.
* Audit: a segment's rename is not followed by an fsync of its directory
  (`persistence.rs:57-58`), so a power failure may take a segment that the model lets survive;
  verify_all accepts a chain that does not begin at genesis (`persistence.rs:95`,
  SEC-13); redaction changes hashed bytes (`lib.rs:328`, 175-187, against 7-10).
* Commands: `doctor` looks for the segments in `<data>/audit` (`athar-cli/src/main.rs:496`),
  the daemon writes them to `<data>/audit/segments` (`ingest.rs:131-137`), so "audit chain
  verifies to genesis" (82-87) is said of an empty list; `audit verify` of a mistyped directory creates it and prints that no segments are
  fine; `doctor --deep` fails against a daemon in safe mode, which drops its query; `policy
  show` prints the defaults, "from file", for a file that does not parse.
* Event model: `lib.rs:4` calls the types a mirror of the schema. They take more: unknown
  fields are ignored, patterns, date-times and confidences other than the event's own are not
  checked, ids that only callers, services and resources have may be missing, and `""` or
  `unknown` pass in fields `validate` does not name; `data` and `attributes` may be any JSON,
  and `auth_ref`, which the schema's `allOf` rules out, is read. They take less in one
  place: a lifecycle must say how it is bound. JSON integers such as 1.0, or beyond 64 bits, are
  the schema's and not the types'.
* Lifecycles: a failed lookup reopens a closed lifecycle, as `get` and the three lookups of
  the SQLite store answer None for any error (`sqlite_store.rs:127-175`) and the row of the
  lifecycle that is then made replaces the closed one (194, against `engine.rs:6`, MOD-27):
  the properties hold until such a miss; a sweep that overlaps an apply may reopen or re-close a lifecycle
  (`scanner.rs:19`, MOD-27); an upsert that fails still lets the binding through
  (`engine.rs:72`, 97); lookups ignore the tenant (`sqlite_store.rs:141-175`,
  PRI-14), so that equal ids of two tenants meet in one lifecycle, and the unique columns,
  which do look at it, never collide.
* Ingest: a safe mode the watcher sleeps through is reported with the next one, or at
  shutdown (`ingest.rs:333`); the watcher may be aborted with a summary in hand (297); a gap
  may take frames without their bytes, which the next gap then reports (94-102); the count of a
  gap whose commitment fails is only in a log line (366-368); evidence is
  not synced before the commitment is persisted (486); refused appends are not counted (428,
  MOD-29); a status query in safe mode is dropped and counted as an event, against 590-591; a
  connection that is still open at shutdown leaves the log's segment to quarantine
  (312-314); a decision the store refused is still answered (546-548); the bytes quarantined
  at boot are logged and not recorded (123-126, OPS-14).
* Decisions: `inputs_missing` and `coverage_gaps_overlapping` are always empty and the fail mode
  is always open (`decision.rs:6-11`, INV-17); the policy version stays the same when the
  policies are reloaded.
* Governor: one good report is enough for a demotion if the level is old (`lib.rs:319-325`
  against 117-118); a heartbeat clears the dead-man's switch after all (against 216-217), and
  one that never came trips nothing; a budget report never expires (283); only `report_host`
  is called in production (`host_metrics.rs:101`), so L4 is out of reach there.
* Detection: a subject's velocity queue is unbounded within its window (`trackers.rs:93`,
  SEC-18); samples that came out of order stay behind a younger front; a policy file that
  could not be read, or was rewritten within its mtime, is not looked at again
  (`policy_reload.rs:69`).
* Delivery: a spool file read while still empty is deleted with the record that arrives
  in it (`shim_spool.rs:94-111`); a malformed line is skipped and the file deleted; a gap is
  appended again when its commitment failed; `fwrite` succeeds for bytes nobody reads; a frame
  that does not decode closes the connection, and those behind it are lost unread
  (`ingest.rs:420-426`); what a failed write leaves is reported lost
  and not sent again (`Runtime.php:230-241`), against "rest stay for retry"
  (`Transport.php:16-19`, 34-35); the
  buffer's `dropped` count is reported nowhere (`Buffer.php:10-12`).

## 8. What is not modelled

* *Keys* (`signer.rs`): cryptography and one file. A crash while the key is first written
  leaves a short file, and every later start ends with `BadLength` (46).
* *Configuration* and the shim's *event factory, redaction, classification, ids and Laravel
  adapters*: parsing, defaults and pure functions of one request's data. The numbers of the
  configuration are the models' constants.
* *Lists of the command line tool*: formatted queries (`lifecycle list` without `--open` still
  lists open lifecycles only).
* *`Runtime::evaluate`*: a query with a deadline that fails open and changes nothing; the
  daemon's side of it is in `Ingest`.
* *What `evaluate` answers*: which counts exceed a threshold, the amount of an event, and the
  first policy whose signals fired (`PolicyEngine::evaluate`) are functions of one event and
  of state that is modelled; no later step reads their value.
* *The rows of the signals table*: `Ingest` keeps which events have theirs; they are read
  back only to be counted (`ingest.rs:611`, `athar-cli/src/main.rs:565`).
* *`doctor`*: each of its checks is a look at one file, database or port; and *errors of the
  commands' own reads*, which they print.
* *A malformed line* of a spool file.

The contents of signals, scores, rationales and records are abstracted to what a guard
reads, a field of an event to the seven qualities that the types, the checks and the schema
tell apart. The models take a directory operation (rename, create, unlink) and the listing
of a directory to be atomic and ordered, as POSIX promises without a power failure; a power
failure takes only what is not fsynced. BLAKE3 is injective and signatures cannot be
forged.

## 9. What comes next

1. `ShimDelivery` composed with `Ingest`, frame by frame, with `evaluate` and its deadline.
2. Detection over the decisions that `Ingest` stores, with the inputs a decision records.
3. An abstract specification, with a refinement proof, of what `Lifecycle` promises: a map
   from keys to lifecycles.
