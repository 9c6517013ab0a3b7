---------------------------- MODULE ShimDelivery ----------------------------
(***************************************************************************)
(* How events get from a PHP request to the daemon, or to its records of   *)
(* what was lost: the shim's buffer, flush and socket (shim/src/Runtime,   *)
(* Shim/Buffer, Transport, Spool), the spool directory and the daemon's    *)
(* collector (athar-daemon/shim_spool.rs).                                 *)
(*                                                                         *)
(* A request flushes once, when it ends; a process that serves several is  *)
(* several requests here.  What the daemon does with a frame it has read   *)
(* is Ingest's, how it appends and commits a gap SegmentLog's and          *)
(* AuditChain's.                                                           *)
(***************************************************************************)
EXTENDS Naturals, Sequences, SequencesExt, FiniteSets

CONSTANTS
  Requests,
  MaxFrames,      \* Buffer::maxFrames
  MaxBytes,       \* Buffer::maxBytes
  Size,           \* the length of each frame
  NoRequest,
  MaxObserved,    \* bound: events a request observes
  MaxBoots,       \* bound: starts of the daemon
  MaxTroubles     \* bound: failures to ingest or to delete a spool file

ASSUME BufferHolds ==
  /\ MaxFrames \in Nat \ {0} /\ MaxBytes \in Nat /\ MaxObserved \in Nat
  /\ Size \in [Requests \X (1..MaxObserved) -> Nat]

VARIABLES
  at,             \* where each request is in Runtime::flush
  observed,       \* history: how many events it has observed
  buffer,         \* the frames it holds: buffered, or being sent
  lost,           \* those it is to spool, or has spooled
  file,           \* its spool file: "none", "empty", "full", "gone"
  socket,         \* its connection: frames sent and not read yet
  reset,          \* the daemon it is still connected to is gone, or hung up
  up,             \* the daemon runs
  received,       \* frames the daemon has read
  collector,      \* ShimSpoolCollector: the file it is at, and the step
  gaps,           \* frames a coverage_gap in the evidence log tells of
  silent,         \* history: frames lost without a trace
  appended,       \* history: gaps appended per spool file
  troubles,       \* history: failures per spool file
  boots           \* history

shim == <<at, observed, buffer, lost>>
link == <<socket, reset, received>>
spool == <<collector, gaps, appended, troubles>>
svars == <<shim, file, link, up, spool, silent, boots>>

NoScan == [file |-> NoRequest, at |-> "idle"]

DeliveryInit ==
  /\ at = [r \in Requests |-> "serving"] /\ observed = [r \in Requests |-> 0]
  /\ buffer = [r \in Requests |-> <<>>] /\ lost = [r \in Requests |-> {}]
  /\ file = [r \in Requests |-> "none"]
  /\ socket = [r \in Requests |-> <<>>] /\ reset = [r \in Requests |-> FALSE]
  /\ up = FALSE /\ received = {}
  /\ collector = NoScan /\ gaps = {} /\ silent = {}
  /\ appended = [r \in Requests |-> 0] /\ troubles = [r \in Requests |-> 0]
  /\ boots = 0

-----------------------------------------------------------------------------
Bytes(frames) == FoldSeq(LAMBDA f, n : Size[f] + n, 0, frames)
Fits(frames, f) == Len(frames) < MaxFrames /\ Bytes(frames) + Size[f] <= MaxBytes

Without(n, frames) == SubSeq(frames, n + 1, Len(frames))

(* Buffer::push: the oldest frames make room, as many as it takes, and the *)
(* new one goes with them if there is still none.  They are only counted.  *)
Observe(r) ==
  LET frame == <<r, observed[r] + 1>> IN
  \E n \in 0..Len(buffer[r]) :
    LET kept == Without(n, buffer[r]) IN
    /\ at[r] = "serving" /\ observed[r] < MaxObserved
    /\ \A m \in 0..(n - 1) : ~Fits(Without(m, buffer[r]), frame)
    /\ \/ Fits(kept, frame) /\ buffer' = [buffer EXCEPT ![r] = Append(kept, frame)]
       \/ ~Fits(kept, frame) /\ n = Len(buffer[r]) /\ buffer' = [buffer EXCEPT ![r] = <<>>]
    /\ silent' = silent \cup ((ToSet(buffer[r]) \cup {frame}) \ ToSet(buffer'[r]))
    /\ observed' = [observed EXCEPT ![r] = @ + 1]
    /\ UNCHANGED <<at, lost, file, link, up, spool, boots>>

(* flush: drain, and connect. *)
Flush(r) ==
  /\ at[r] = "serving"
  /\ at' = [at EXCEPT ![r] = IF buffer[r] = <<>> THEN "done" ELSE "connect"]
  /\ UNCHANGED <<observed, buffer, lost, file, link, up, spool, silent, boots>>

Connect(r) ==
  /\ at[r] = "connect" /\ up
  /\ at' = [at EXCEPT ![r] = "write"]
  /\ UNCHANGED <<observed, buffer, lost, file, link, up, spool, silent, boots>>

(* Mutant of Write: a frame that went into a dead connection is kept.      *)
WriteAgain(r) ==
  /\ at[r] = "write" /\ buffer[r] # <<>>
  /\ IF reset[r]
     THEN silent' = silent \cup {Head(buffer[r])} /\ UNCHANGED <<buffer, socket>>
     ELSE /\ socket' = [socket EXCEPT ![r] = Append(@, Head(buffer[r]))]
          /\ buffer' = [buffer EXCEPT ![r] = Tail(@)] /\ UNCHANGED silent
  /\ UNCHANGED <<at, observed, lost, file, reset, received, up, spool, boots>>

(* A frame is written when the kernel has taken all of it; nobody waits    *)
(* for the daemon to read it, and the first writes to a connection whose   *)
(* daemon has died may still succeed.                                      *)
Write(r) ==
  /\ at[r] = "write" /\ buffer[r] # <<>>
  /\ buffer' = [buffer EXCEPT ![r] = Tail(@)]
  /\ IF reset[r]
     THEN silent' = silent \cup {Head(buffer[r])} /\ UNCHANGED socket
     ELSE socket' = [socket EXCEPT ![r] = Append(@, Head(buffer[r]))] /\ UNCHANGED silent
  /\ UNCHANGED <<at, observed, lost, file, reset, received, up, spool, boots>>

Sent(r) ==
  /\ at[r] = "write" /\ buffer[r] = <<>>
  /\ at' = [at EXCEPT ![r] = "done"]
  /\ UNCHANGED <<observed, buffer, lost, file, link, up, spool, silent, boots>>

(* Mutant of GiveUp: the frame whose write failed counts as written. *)
GiveUpShort(r) ==
  /\ at[r] = "connect" \/ (at[r] = "write" /\ buffer[r] # <<>>)
  /\ lost' = [lost EXCEPT ![r] = ToSet(Tail(buffer[r]))]
  /\ buffer' = [buffer EXCEPT ![r] = <<>>]
  /\ at' = [at EXCEPT ![r] = "spool"]
  /\ UNCHANGED <<observed, file, link, up, spool, silent, boots>>

(* Mutant of GiveUp: a partial write loses the frames written before, too. *)
GiveUpAll(r) ==
  /\ at[r] = "connect" \/ (at[r] = "write" /\ buffer[r] # <<>>)
  /\ lost' = [lost EXCEPT ![r] = ToSet(buffer[r]) \cup ToSet(socket[r])]
  /\ buffer' = [buffer EXCEPT ![r] = <<>>]
  /\ at' = [at EXCEPT ![r] = "spool"]
  /\ UNCHANGED <<observed, file, link, up, spool, silent, boots>>

(* connect or a write fails or times out: what is not written is lost, and *)
(* goes into a loss record.                                                *)
GiveUp(r) ==
  /\ at[r] = "connect" \/ (at[r] = "write" /\ buffer[r] # <<>>)
  /\ lost' = [lost EXCEPT ![r] = ToSet(buffer[r])]
  /\ buffer' = [buffer EXCEPT ![r] = <<>>]
  /\ at' = [at EXCEPT ![r] = "spool"]
  /\ UNCHANGED <<observed, file, link, up, spool, silent, boots>>

(* Spool::writeLoss: file_put_contents creates the file before it holds    *)
(* the lock and writes.                                                    *)
CreateFile(r) ==
  /\ at[r] = "spool"
  /\ file' = [file EXCEPT ![r] = "empty"]
  /\ at' = [at EXCEPT ![r] = "fill"]
  /\ UNCHANGED <<observed, buffer, lost, link, up, spool, silent, boots>>

(* The record goes into the file, or into one already unlinked. *)
FillFile(r) ==
  /\ at[r] = "fill"
  /\ IF file[r] = "empty"
     THEN file' = [file EXCEPT ![r] = "full"] /\ UNCHANGED silent
     ELSE silent' = silent \cup lost[r] /\ UNCHANGED file
  /\ at' = [at EXCEPT ![r] = "done"]
  /\ UNCHANGED <<observed, buffer, lost, link, up, spool, boots>>

(* The spool cannot be written, which is silent; or the process is killed  *)
(* with what it holds.                                                     *)
Fail(r) ==
  /\ at[r] # "done"
  /\ silent' = silent \cup ToSet(buffer[r]) \cup lost[r]
  /\ buffer' = [buffer EXCEPT ![r] = <<>>]
  /\ at' = [at EXCEPT ![r] = "done"]
  /\ UNCHANGED <<observed, lost, file, link, up, spool, boots>>

-----------------------------------------------------------------------------
Boot ==
  /\ ~up /\ boots < MaxBoots
  /\ up' = TRUE /\ boots' = boots + 1
  /\ UNCHANGED <<shim, file, link, spool, silent>>

(* The daemon stops, and what its connections held unread is gone. *)
Crash ==
  /\ up /\ up' = FALSE
  /\ silent' = silent \cup UNION {ToSet(socket[r]) : r \in Requests}
  /\ socket' = [r \in Requests |-> <<>>]
  /\ reset' = [r \in Requests |-> reset[r] \/ at[r] = "write"]
  /\ collector' = NoScan
  /\ UNCHANGED <<shim, file, received, gaps, appended, boots>>
  /\ troubles' = IF collector = NoScan THEN troubles
                 ELSE [troubles EXCEPT ![collector.file] = @ + 1]

Receive(r) ==
  /\ up /\ socket[r] # <<>>
  /\ received' = received \cup {Head(socket[r])}
  /\ socket' = [socket EXCEPT ![r] = Tail(@)]
  /\ UNCHANGED <<shim, file, reset, up, spool, silent, boots>>

(* Reading from a connection fails, or what is read is no frame: the       *)
(* daemon closes it, with what it held unread.                             *)
Hangup(r) ==
  /\ up /\ ~reset[r] /\ (at[r] = "write" \/ socket[r] # <<>>)
  /\ silent' = silent \cup ToSet(socket[r])
  /\ socket' = [socket EXCEPT ![r] = <<>>]
  /\ reset' = [reset EXCEPT ![r] = (at[r] = "write")]
  /\ UNCHANGED <<shim, file, received, up, spool, boots>>

(* Mutant of Scan: a file left in place is not tried again. *)
ScanOnce(r) ==
  /\ up /\ collector = NoScan /\ file[r] \in {"empty", "full"} /\ troubles[r] = 0
  /\ collector' = [file |-> r, at |-> IF file[r] = "full" THEN "log" ELSE "remove"]
  /\ UNCHANGED <<shim, file, link, up, gaps, appended, troubles, silent, boots>>

(* ShimSpoolCollector::drain comes to a file.  One that is still empty has *)
(* no line to ingest, and is deleted as ingested.                          *)
Scan(r) ==
  /\ up /\ collector = NoScan /\ file[r] \in {"empty", "full"}
  /\ collector' = [file |-> r, at |-> IF file[r] = "full" THEN "log" ELSE "remove"]
  /\ UNCHANGED <<shim, file, link, up, gaps, appended, troubles, silent, boots>>

At(step) == up /\ collector.at = step

(* ingest_record: the gap goes to the log. *)
AppendGap ==
  /\ At("log")
  /\ gaps' = gaps \cup lost[collector.file]
  /\ appended' = [appended EXCEPT ![collector.file] = @ + 1]
  /\ collector' = [collector EXCEPT !.at = "audit"]
  /\ UNCHANGED <<shim, file, link, up, troubles, silent, boots>>

(* Mutant of CommitGap: the file is left for the next scan. *)
CommitAndLeave ==
  /\ At("audit")
  /\ collector' = NoScan
  /\ UNCHANGED <<shim, file, link, up, gaps, appended, troubles, silent, boots>>

CommitGap ==
  /\ At("audit")
  /\ collector' = [collector EXCEPT !.at = "remove"]
  /\ UNCHANGED <<shim, file, link, up, gaps, appended, troubles, silent, boots>>

(* remove_file, whatever the file holds by now: a record that came after   *)
(* the file was read empty goes with it.                                   *)
RemoveFile ==
  LET r == collector.file
  IN /\ At("remove")
     /\ file' = [file EXCEPT ![r] = "gone"]
     /\ silent' = IF file[r] = "full" /\ appended[r] = 0 THEN silent \cup lost[r] ELSE silent
     /\ collector' = NoScan
     /\ UNCHANGED <<shim, link, up, gaps, appended, troubles, boots>>

(* The log, the chain or the file system refuses: the file stays and the   *)
(* next scan begins with it anew.                                          *)
LeaveInPlace ==
  /\ up /\ collector # NoScan /\ troubles[collector.file] < MaxTroubles
  /\ troubles' = [troubles EXCEPT ![collector.file] = @ + 1]
  /\ collector' = NoScan
  /\ UNCHANGED <<shim, file, link, up, gaps, appended, silent, boots>>

Collect == AppendGap \/ CommitGap \/ RemoveFile

DeliverRequest(r) ==
  Observe(r) \/ Flush(r) \/ Connect(r) \/ Write(r) \/ Sent(r) \/ GiveUp(r)
    \/ CreateFile(r) \/ FillFile(r) \/ Fail(r)

DeliveryNext ==
  \/ \E r \in Requests : DeliverRequest(r) \/ Receive(r) \/ Hangup(r) \/ Scan(r)
  \/ Boot \/ Crash \/ Collect \/ LeaveInPlace

(* The collector scans the directory every shim_spool_scan_interval_secs,  *)
(* each file in turn, and is polled to the end of a scan.                  *)
DeliveryFairness ==
  /\ \A r \in Requests : SF_svars(Scan(r))
  /\ WF_svars(Collect)

DeliverySpec == DeliveryInit /\ [][DeliveryNext]_svars /\ DeliveryFairness

-----------------------------------------------------------------------------
Made == {f \in Requests \X (1..MaxObserved) : f[2] <= observed[f[1]]}

Spooled(r) == IF at[r] \in {"spool", "fill"} \/ file[r] = "full" THEN lost[r] ELSE {}

(* MOD-29 (SPEC.md:422), Spool.php:7-10: an event the shim observed is on  *)
(* its way, received, in the spool or told of by a coverage_gap; if not,   *)
(* it went in one of the ways `silent` lists: the buffer had no room for   *)
(* it, by count or by bytes, the request was killed or the spool not       *)
(* writable, the daemon died or hung up with the event unread, or the      *)
(* collector took the file before its record.                              *)
NothingVanishes ==
  Made = silent \cup received \cup gaps
           \cup UNION {ToSet(buffer[r]) \cup ToSet(socket[r]) \cup Spooled(r) : r \in Requests}

(* Transport.php:34-35: no event is both received and reported lost.       *)
NeverBoth ==
  (received \cup UNION {ToSet(socket[r]) : r \in Requests})
    \cap (gaps \cup UNION {Spooled(r) : r \in Requests}) = {}

Channel == INSTANCE EventChannel WITH
  Events <- Requests \X (1..MaxObserved), made <- Made, told <- gaps

(* Seen from afar, shim, spool and daemon are a channel: an event that was *)
(* observed is received, told of by a coverage_gap or lost in silence, one *)
(* of the three and for good (MOD-29, shim_spool.rs:1-15).                 *)
ImplementsChannel == Channel!Spec

(* shim_spool.rs:9-15: a loss record is ingested once, and again only      *)
(* after a crash or a failure with its file in hand.                       *)
IngestedOnce == \A r \in Requests : appended[r] <= 1 + troubles[r]

(* shim_spool.rs:1-8: while the daemon stays up, a loss record comes out   *)
(* of the spool.                                                           *)
SpoolDrains == \A r \in Requests : file[r] = "full" ~> (file[r] = "gone" \/ ~up)
=============================================================================
