------------------------------- MODULE Ingest -------------------------------
(***************************************************************************)
(* The ingest server of athar-daemon (ingest.rs): the connections and the  *)
(* steps each frame takes, the coverage gaps, shutdown and crashes.        *)
(*                                                                         *)
(* The evidence log and the audit chain are here what they promise to be,  *)
(* EvidenceLedger and AuditTrail, which SegmentLog and AuditChain          *)
(* implement.  ingest_one takes their mutexes one after the other, never   *)
(* both: each append, each observe and each write of the stores behind is  *)
(* one step, and other connections run in between.  The counting of drops  *)
(* is one step here and DropCounters looks into it; the lifecycle a frame  *)
(* is applied to is Lifecycle's.                                           *)
(***************************************************************************)
EXTENDS Naturals, Sequences, FiniteSets, EventModel

CONSTANTS
  Connections,
  Frames,                 \* the frames clients will send, each once
  Queries,                \* those that ask for the daemon's status (__status__)
  Evaluations,            \* those that ask for a decision (__evaluate__)
  Body,                   \* what each of them is as an event
  NoFrame, NoRecord,
  MaxRecordsPerSegment,   \* Config.audit_records_per_segment
  MaxSent,                \* bound: frames dropped or taken
  MaxBoots                \* bound: starts of the daemon

ASSUME FrameKinds == Evaluations \subseteq Frames /\ Queries \subseteq Frames
ASSUME FrameBodies == Body \in [Frames -> Bodies]
ASSUME RecordsAreNumbers == NoRecord \notin Nat
ASSUME SegmentHolds == MaxRecordsPerSegment \in Nat \ {0}

Emitters == {"watcher", "shutdown"}

VARIABLES
  sealed, pending, aside,   \* the evidence log: see EvidenceLedger
  written,                  \* what each of its records is about
  expired,                  \* history: records retention took
  lost,                     \* history: records a power failure took
  persisted, batch,         \* the audit chain: see AuditTrail
  commitments,              \* the record each of its commitments is about
  decisions,                \* the decision store: frames decided on
  signals,                  \* and frames of which it holds a signal
  answered,                 \* history: evaluations that got their decision
  unsaved,                  \* history: decisions the store refused or lost
  daemon,                   \* "down", "up", or a step of the shutdown
  l4,                       \* the governor's level is L4SafeMode
  drops,                    \* frames in the drop counters
  unreported,               \* history: dropped frames no gap speaks of yet
  emitter,                  \* where emit_coverage_gap_if_any is, by caller
  conn,                     \* where each connection is in ingest_one
  sent,                     \* history: frames dropped or taken
  orphans,                  \* history: records without commitment at an exit
  boots                     \* history

log == <<sealed, pending, aside, written, expired, lost>>
audit == <<persisted, batch, commitments>>
served == <<decisions, signals, answered, unsaved>>
counters == <<drops, unreported>>
process == <<daemon, l4, counters, emitter, conn>>
ivars == <<log, audit, served, process, sent, orphans, boots>>

Ledger == INSTANCE EvidenceLedger WITH Records <- Nat
Trail == INSTANCE AuditTrail WITH Commitments <- Nat

-----------------------------------------------------------------------------
Closed == [at |-> "closed", frame |-> NoFrame, rec |-> NoRecord]
Idle == [at |-> "idle", frame |-> NoFrame, rec |-> NoRecord]
NotEmitting == [at |-> "no", frames |-> {}, rec |-> NoRecord]

IngestInit ==
  /\ sealed = {} /\ pending = {} /\ aside = {} /\ written = <<>>
  /\ expired = {} /\ lost = {}
  /\ persisted = {} /\ batch = {} /\ commitments = <<>>
  /\ decisions = {} /\ signals = {} /\ answered = {} /\ unsaved = {}
  /\ daemon = "down" /\ l4 = FALSE /\ drops = {} /\ unreported = {}
  /\ emitter = [e \in Emitters |-> NotEmitting]
  /\ conn = [c \in Connections |-> Closed]
  /\ sent = {} /\ orphans = {} /\ boots = 0

(* SegmentLog::append: into the segment that is open, or into a new one.   *)
NewRecord == Len(written) + 1

LogAppend(kind, frames) ==
  /\ written' = Append(written, [kind |-> kind, frames |-> frames])
  /\ pending' \in {pending \cup {NewRecord}, {NewRecord}}
  /\ sealed' = sealed \cup (pending \ pending')
  /\ UNCHANGED <<aside, expired, lost>>

(* ... which refuses with the quota, or with the disk: then rotate may have *)
(* closed the segment that was open, or left it behind as a `.wip`.        *)
LogRefuses ==
  /\ \/ UNCHANGED <<sealed, pending, aside>>
     \/ Ledger!Seal
     \/ aside' = aside \cup pending /\ Ledger!SetAside
  /\ UNCHANGED <<written, expired, lost>>

(* Mutant of AuditObserve: closes a segment one commitment too late. *)
AuditObserveLate(rec) ==
  /\ commitments' = Append(commitments, rec)
  /\ IF Cardinality(batch) < MaxRecordsPerSegment
     THEN batch' = batch \cup {Len(commitments) + 1} /\ UNCHANGED persisted
     ELSE persisted' = persisted \cup batch \cup {Len(commitments) + 1} /\ batch' = {}

(* AuditChainWriter::observe: the commitment that fills a segment takes    *)
(* the segment to the disk.                                                *)
NewCommitment == Len(commitments) + 1

AuditObserve(rec) ==
  /\ commitments' = Append(commitments, rec)
  /\ IF Cardinality(batch) + 1 < MaxRecordsPerSegment
     THEN batch' = batch \cup {NewCommitment} /\ UNCHANGED persisted
     ELSE persisted' = persisted \cup batch \cup {NewCommitment} /\ batch' = {}

About(batched) == {commitments[k] : k \in batched}

(* SqliteDecisionStore::write_signal, for what was seen in the frame: rows *)
(* of a table of their own.  An event has none, or the store refuses them. *)
WriteSignals(f) == signals' \in {signals, signals \cup {f}}

(* SqliteDecisionStore::write_decision, under a fresh id or not at all. *)
WriteDecision(f) ==
  \/ decisions' = decisions \cup {f} /\ UNCHANGED unsaved
  \/ unsaved' = unsaved \cup {f} /\ UNCHANGED decisions

(* Its SCHEMA: a WAL with synchronous=NORMAL, of which a power failure may *)
(* take what was written last.                                             *)
LoseDecisions ==
  /\ decisions' \in SUBSET decisions
  /\ unsaved' = unsaved \cup (decisions \ decisions')
  /\ signals' \in SUBSET signals

(* The segment that cannot be written is gone with all its commitments.    *)
AuditObserveFails(rec) ==
  /\ Cardinality(batch) + 1 >= MaxRecordsPerSegment
  /\ commitments' = Append(commitments, rec)
  /\ Trail!Lose
  /\ orphans' = orphans \cup (({rec} \cup About(batch)) \ {NoRecord})

-----------------------------------------------------------------------------
Boot ==
  /\ daemon = "down" /\ boots < MaxBoots
  /\ daemon' = "up" /\ boots' = boots + 1
  /\ UNCHANGED <<log, audit, served, l4, counters, emitter, conn, sent, orphans>>

Alive == daemon # "down"

Connect(c) ==
  /\ daemon = "up" /\ conn[c] = Closed
  /\ conn' = [conn EXCEPT ![c] = Idle]
  /\ UNCHANGED <<log, audit, served, daemon, l4, counters, emitter, sent, orphans, boots>>

(* Mutant of Disconnect: drops the frame's future at any of its awaits.    *)
DisconnectAnytime(c) ==
  /\ conn[c].at \in {"idle", "log", "audit"}
  /\ conn' = [conn EXCEPT ![c] = Closed]
  /\ UNCHANGED <<log, audit, served, daemon, l4, counters, emitter, sent, orphans, boots>>

(* The reader's end of file ends process_stream between two frames only.   *)
Disconnect(c) ==
  /\ conn[c] = Idle
  /\ conn' = [conn EXCEPT ![c] = Closed]
  /\ UNCHANGED <<log, audit, served, daemon, l4, counters, emitter, sent, orphans, boots>>

(* ingest_one up to its first append.  Safe mode drops and counts a frame  *)
(* before it is looked at; a query is answered, an event that does not     *)
(* parse or validate is logged and left, and nothing is changed by either. *)
Drop(c) ==
  /\ Alive /\ conn[c] = Idle /\ l4 /\ Cardinality(sent) < MaxSent
  /\ \E f \in Frames \ sent :
       /\ drops' = drops \cup {f} /\ unreported' = unreported \cup {f}
       /\ sent' = sent \cup {f}
  /\ UNCHANGED <<log, audit, served, daemon, l4, emitter, conn, orphans, boots>>

Receive(c) ==
  /\ Alive /\ conn[c] = Idle /\ ~l4 /\ Cardinality(sent) < MaxSent
  /\ \E f \in Frames \ sent :
       /\ f \notin Queries /\ Accepted(Body[f])
       /\ conn' = [conn EXCEPT ![c] = [at |-> "log", frame |-> f, rec |-> NoRecord]]
       /\ sent' = sent \cup {f}
  /\ UNCHANGED <<log, audit, served, daemon, l4, counters, emitter, orphans, boots>>

Appended(c) ==
  /\ Alive /\ conn[c].at = "log"
  /\ LogAppend("event", {conn[c].frame})
  /\ conn' = [conn EXCEPT ![c] = [@ EXCEPT !.at = "audit", !.rec = NewRecord]]
  /\ UNCHANGED <<audit, served, daemon, l4, counters, emitter, sent, orphans, boots>>

(* Mutant of Refused: the error is logged and the frame goes on. *)
RefusedGoesOn(c) ==
  /\ Alive /\ conn[c].at = "log"
  /\ LogRefuses
  /\ conn' = [conn EXCEPT ![c] = [@ EXCEPT !.at = "audit", !.rec = NewRecord]]
  /\ UNCHANGED <<audit, served, daemon, l4, counters, emitter, sent, orphans, boots>>

(* ingest_one returns, process_stream logs. *)
Refused(c) ==
  /\ Alive /\ conn[c].at = "log"
  /\ LogRefuses
  /\ conn' = [conn EXCEPT ![c] = Idle]
  /\ UNCHANGED <<audit, served, daemon, l4, counters, emitter, sent, orphans, boots>>

Commit(c) ==
  /\ Alive /\ conn[c].at = "audit"
  /\ AuditObserve(conn[c].rec)
  /\ conn' = [conn EXCEPT ![c].at = "decide"]
  /\ UNCHANGED <<log, served, daemon, l4, counters, emitter, sent, orphans, boots>>

(* ... or ingest_one returns there, with the evidence logged. *)
CommitFails(c) ==
  /\ Alive /\ conn[c].at = "audit"
  /\ AuditObserveFails(conn[c].rec)
  /\ conn' = [conn EXCEPT ![c] = Idle]
  /\ UNCHANGED <<log, served, daemon, l4, counters, emitter, sent, boots>>

AfterDecision(c) ==
  conn' = IF conn[c].frame \in Evaluations
          THEN [conn EXCEPT ![c].at = "respond"] ELSE [conn EXCEPT ![c] = Idle]

(* Mutant of Decide: answers first and leaves the decision for later. *)
DecideUnsaved(c) ==
  /\ Alive /\ conn[c].at = "decide"
  /\ decisions' = decisions \cup ({conn[c].frame} \ Evaluations)
  /\ WriteSignals(conn[c].frame)
  /\ AfterDecision(c)
  /\ UNCHANGED <<log, audit, answered, unsaved, daemon, l4, counters, emitter, sent, orphans, boots>>

(* engine.apply, the signals and the decision: what the store refuses is   *)
(* logged, row by row, and the handler goes on.                            *)
Decide(c) ==
  /\ Alive /\ conn[c].at = "decide"
  /\ WriteSignals(conn[c].frame)
  /\ WriteDecision(conn[c].frame)
  /\ AfterDecision(c)
  /\ UNCHANGED <<log, audit, answered, daemon, l4, counters, emitter, sent, orphans, boots>>

(* write_decision_response: a shim that has given up does not get it. *)
Respond(c) ==
  /\ Alive /\ conn[c].at = "respond"
  /\ answered' \in {answered, answered \cup {conn[c].frame}}
  /\ conn' = [conn EXCEPT ![c] = Idle]
  /\ UNCHANGED <<log, audit, decisions, signals, unsaved, daemon, l4, counters, emitter, sent, orphans, boots>>

(* The governor enters or leaves safe mode, and leaving it wakes the       *)
(* watcher if it is waiting.                                               *)
Pressure ==
  /\ daemon \in {"up", "drain"}
  /\ l4' = ~l4
  /\ emitter' = IF l4 /\ emitter["watcher"] = NotEmitting
                THEN [emitter EXCEPT !["watcher"].at = "take"] ELSE emitter
  /\ UNCHANGED <<log, audit, served, daemon, counters, conn, sent, orphans, boots>>

Signal ==
  /\ daemon = "up"
  /\ daemon' = "drain"
  /\ emitter' = [emitter EXCEPT !["shutdown"].at = "take"]
  /\ UNCHANGED <<log, audit, served, l4, counters, conn, sent, orphans, boots>>

(* The drain is over when its own gap is emitted, or there was none. *)
AfterEmit(e) == IF e = "shutdown" THEN "flush" ELSE daemon

TakeDrops(e) ==
  /\ Alive /\ emitter[e].at = "take"
  /\ drops' = {}
  /\ IF drops = {}
     THEN emitter' = [emitter EXCEPT ![e] = NotEmitting] /\ daemon' = AfterEmit(e)
     ELSE emitter' = [emitter EXCEPT ![e] = [@ EXCEPT !.at = "log", !.frames = drops]] /\ UNCHANGED daemon
  /\ UNCHANGED <<log, audit, served, l4, unreported, conn, sent, orphans, boots>>

(* Mutant of LogGap: gives up when the log refuses the gap. *)
LogGapOrGiveUp(e) ==
  /\ Alive /\ emitter[e].at = "log"
  /\ \/ /\ LogAppend("gap", emitter[e].frames)
        /\ emitter' = [emitter EXCEPT ![e] = [@ EXCEPT !.at = "audit", !.rec = NewRecord]]
        /\ UNCHANGED daemon
     \/ /\ LogRefuses
        /\ emitter' = [emitter EXCEPT ![e] = NotEmitting]
        /\ daemon' = AfterEmit(e)
  /\ UNCHANGED <<audit, served, l4, counters, conn, sent, orphans, boots>>

(* A refused append is logged: the commitment still says there was a gap.  *)
LogGap(e) ==
  /\ Alive /\ emitter[e].at = "log"
  /\ \/ /\ LogAppend("gap", emitter[e].frames)
        /\ emitter' = [emitter EXCEPT ![e] = [@ EXCEPT !.at = "audit", !.rec = NewRecord]]
     \/ /\ LogRefuses
        /\ emitter' = [emitter EXCEPT ![e].at = "audit"]
  /\ UNCHANGED <<audit, served, daemon, l4, counters, conn, sent, orphans, boots>>

CommitGap(e) ==
  /\ Alive /\ emitter[e].at = "audit"
  /\ \/ AuditObserve(emitter[e].rec) /\ UNCHANGED orphans
     \/ AuditObserveFails(emitter[e].rec)
  /\ unreported' = unreported \ emitter[e].frames
  /\ emitter' = [emitter EXCEPT ![e] = NotEmitting]
  /\ daemon' = AfterEmit(e)
  /\ UNCHANGED <<log, served, l4, drops, conn, sent, boots>>

(* audit.flush(), whose failure is logged *)
Flush ==
  /\ daemon = "flush"
  /\ \/ Trail!Persist /\ UNCHANGED orphans
     \/ batch # {} /\ Trail!Lose /\ orphans' = orphans \cup (About(batch) \ {NoRecord})
  /\ daemon' = "close"
  /\ UNCHANGED <<log, commitments, served, l4, counters, emitter, conn, sent, boots>>

(* Records of the log no commitment is left of. *)
Uncommitted ==
  {n \in 1..Len(written) : \A k \in persisted \cup batch : commitments[k] # n}

(* The process is gone, and what it held in memory. *)
Gone ==
  /\ daemon' = "down" /\ l4' = FALSE /\ drops' = {} /\ unreported' = {}
  /\ emitter' = [e \in Emitters |-> NotEmitting]
  /\ conn' = [c \in Connections |-> Closed]
  /\ Trail!Lose
  /\ orphans' = {n \in 1..Len(written) : \A k \in persisted : commitments[k] # n}
  /\ UNCHANGED <<written, expired, commitments, answered, sent, boots>>

(* Arc::try_unwrap and close: nobody else holds the log any more. *)
CloseLog ==
  /\ daemon = "close" /\ \A c \in Connections : conn[c] = Closed
  /\ Ledger!Seal
  /\ Gone
  /\ UNCHANGED <<decisions, signals, unsaved, lost>>

(* The next boot quarantines the segment that was open. *)
LeaveOpen ==
  /\ aside' = aside \cup pending /\ Ledger!SetAside
  /\ Gone
  /\ UNCHANGED <<decisions, signals, unsaved, lost>>

(* try_unwrap fails: a connection still holds the log, or a task aborted   *)
(* a moment ago has not been dropped yet.                                  *)
StillBorrowed == daemon = "close" /\ LeaveOpen

(* The process dies. *)
Crash == Alive /\ LeaveOpen

(* The machine dies: append does not fsync. *)
PowerFailure ==
  /\ Alive
  /\ aside' \in SUBSET (aside \cup pending) /\ Ledger!SetAside
  /\ lost' = lost \cup ((aside \cup pending) \ aside')
  /\ LoseDecisions
  /\ Gone

(* The eviction driver. *)
Evict ==
  /\ Alive /\ sealed # {}
  /\ sealed' = sealed \ {CHOOSE r \in sealed : \A q \in sealed : r <= q}
  /\ expired' = expired \cup (sealed \ sealed')
  /\ UNCHANGED <<pending, aside, written, lost, audit, served, process, sent, orphans, boots>>

IngestOne(c) ==
  Drop(c) \/ Receive(c) \/ Appended(c) \/ Refused(c) \/ Commit(c) \/ CommitFails(c) \/ Decide(c) \/ Respond(c)

EmitGap(e) == TakeDrops(e) \/ LogGap(e) \/ CommitGap(e)

IngestNext ==
  \/ Boot \/ Crash \/ PowerFailure \/ Evict
  \/ \E c \in Connections : Connect(c) \/ Disconnect(c) \/ IngestOne(c)
  \/ Pressure \/ \E e \in Emitters : EmitGap(e)
  \/ Signal \/ Flush \/ CloseLog \/ StillBorrowed

IngestSpec == IngestInit /\ [][IngestNext]_ivars

-----------------------------------------------------------------------------
InFlight == {conn[c].rec : c \in {d \in Connections : conn[d].at = "audit"}}
              \cup {emitter[e].rec : e \in {d \in Emitters : emitter[d].at = "audit"}}

Steps == {"closed", "idle", "log", "audit", "decide", "respond"}
GapSteps == {"no", "take", "log", "audit"}

IngestTypeOK ==
  /\ written \in Seq([kind : {"event", "gap"}, frames : SUBSET Frames])
  /\ sealed \cup pending \cup aside \cup expired \cup lost \subseteq 1..Len(written)
  /\ commitments \in Seq(Nat \cup {NoRecord})
  /\ persisted \cup batch \subseteq 1..Len(commitments)
  /\ decisions \cup signals \cup answered \cup unsaved \subseteq Frames
  /\ daemon \in {"down", "up", "drain", "flush", "close"} /\ l4 \in BOOLEAN
  /\ drops \cup unreported \cup sent \subseteq Frames
  /\ emitter \in [Emitters -> [at : GapSteps, frames : SUBSET Frames, rec : Nat \cup {NoRecord}]]
  /\ conn \in [Connections -> [at : Steps, frame : Frames \cup {NoFrame}, rec : Nat \cup {NoRecord}]]

(* ingest.rs:483-485, "evidence FIRST": the record a commitment is about   *)
(* is in the log, or was, until retention took it.  The commitment may be  *)
(* on the disk before the record is synced (segment_log.rs:193-200): the   *)
(* only other way to lose the record is a power failure.                   *)
EvidenceBacksCommitments ==
  \A k \in persisted \cup batch :
    commitments[k] # NoRecord =>
      commitments[k] \in sealed \cup pending \cup aside \cup expired \cup lost

(* No frame or gap stops between the log and the audit chain: evidence     *)
(* without a commitment is about to get it, or was left by an exit.        *)
CommitmentsKeepUp == Uncommitted \subseteq orphans \cup InFlight

(* Whatever ends, a process, a machine or a write of the audit chain, it   *)
(* leaves fewer records without a commitment than one audit segment holds, *)
(* besides those that had none yet.                                        *)
LittleIsLost ==
  [][Cardinality(orphans' \ Uncommitted) < MaxRecordsPerSegment]_ivars

(* ingest.rs:361-365: a frame that was dropped is in the counters, in the  *)
(* hands of an emitter, or spoken of in the audit chain, also when the log *)
(* refuses the gap; only an exit or a failed write of the chain forgets.   *)
DropsAreReported ==
  unreported \subseteq drops \cup UNION {emitter[e].frames : e \in Emitters}

(* lib.rs:7-10, MOD-7: no event gets into the evidence whose stored form   *)
(* names nobody by an empty or a reserved identity, or that its own types  *)
(* would not read back; queries and unvalidated frames do not get there.   *)
EvidenceIsGenuine ==
  \A n \in 1..Len(written) :
    written[n].kind = "event" =>
      \A f \in written[n].frames :
        f \notin Queries /\ Genuine(Canonical(Body[f])) /\ Accepted(Canonical(Body[f]))

(* Runtime.php:187-188, "a real, persisted evaluation": an answer only     *)
(* leaves the daemon when its evidence and its commitment are there, and   *)
(* its decision, unless the store failed (ingest.rs:546-548).              *)
AnsweredIsRecorded ==
  \A f \in answered :
    /\ f \in decisions \cup unsaved
    /\ \E k \in 1..Len(commitments) :
         commitments[k] # NoRecord /\ written[commitments[k]].frames = {f}
=============================================================================
