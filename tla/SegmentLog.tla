----------------------------- MODULE SegmentLog -----------------------------
(***************************************************************************)
(* The append-only segmented evidence log of athar-storage                 *)
(* (segment_log.rs) and its disk quota (quota.rs).                         *)
(*                                                                         *)
(* A segment file is named by its id and by its extension: `.wip` while it *)
(* is written, `.seg` once closed, `.quarantine` when a crash left it      *)
(* behind.  The directory is three sets of ids and one set of bytes, each  *)
(* byte marked with the file and the record it belongs to, so that the     *)
(* quota is about the disk and not about the counter that stands for it.   *)
(* A record is the number of the append that wrote it.                     *)
(*                                                                         *)
(* Every call runs under the log's mutex (Arc<Mutex<SegmentLog>>), so each *)
(* is one step; an I/O error inside a call leaves the directory as it is   *)
(* at that point, and a Crash after it stands for a crash inside the call. *)
(***************************************************************************)
EXTENDS Naturals, FiniteSets

CONSTANTS
  RecordSizes,      \* sizes on disk a record may have: 4-byte header + data
  MaxSegmentBytes,  \* Config.max_segment_bytes
  QuotaLimit,       \* Config.quota.limit_bytes
  NoSegment,        \* `active: None`
  IoFaults,         \* may write_all, sync_all, rename or create fail?
  MaxRecords,       \* bound: appends
  MaxSegments,      \* bound: segment ids
  MaxBoots          \* bound: opens of the log

ASSUME SizesAreNat == RecordSizes \subseteq Nat \ {0}
ASSUME LimitsAreNat == MaxSegmentBytes \in Nat /\ QuotaLimit \in Nat
ASSUME BoundsAreNat == MaxRecords \in Nat /\ MaxSegments \in Nat /\ MaxBoots \in Nat
ASSUME NoSegmentIsNoId == NoSegment \notin Nat
ASSUME FaultsAreBool == IoFaults \in BOOLEAN

VARIABLES
  wip, seg, quarantine,   \* ids of the files with each extension
  bytes,                  \* [seg, rec, off]: every byte in those files
  up,                     \* is there a SegmentLog value?
  active,                 \* its fields
  written_bytes,
  total_bytes,
  next_seg_id,
  next_rec,               \* history: number of the next append
  receipts,               \* history: the AppendReceipts handed out
  evicted,                \* history: records whose segment was evicted
  lost,                   \* history: records a power failure took
  boots                   \* history: opens so far

disk == <<wip, seg, quarantine, bytes>>
handle == <<up, active, written_bytes, total_bytes, next_seg_id>>
history == <<next_rec, receipts, evicted, lost, boots>>
vars == <<disk, handle, history>>

-----------------------------------------------------------------------------
(* The bytes of record r, n long, in file s. *)
Cells(s, r, n) == {[seg |-> s, rec |-> r, off |-> i] : i \in 0..(n - 1)}

FileBytes(s) == {b \in bytes : b.seg = s}
RecordsOf(B) == {b.rec : b \in B}
RecordsIn(S) == RecordsOf({b \in bytes : b.seg \in S})

(* Mutants of Numbered and BytesAtOpen: only the closed files count. *)
NumberedClosedOnly == seg
BytesClosedOnly == Cardinality({b \in bytes : b.seg \in seg})

(* The files open() numbers from and measures, the `.wip`s renamed by then. *)
Numbered == wip \cup seg \cup quarantine
BytesAtOpen == Cardinality(bytes)

Newest(S) == CHOOSE s \in S : \A t \in S : t <= s
Oldest(S) == CHOOSE s \in S : \A t \in S : s <= t

(* Mutant of Fits: looks at the bytes there are and not at the write. *)
FitsBefore(n) == total_bytes <= QuotaLimit

(* Quota::check *)
Fits(n) == total_bytes + n <= QuotaLimit

MustRotate(n) == active = NoSegment \/ written_bytes + n > MaxSegmentBytes

-----------------------------------------------------------------------------
Init ==
  /\ wip = {} /\ seg = {} /\ quarantine = {} /\ bytes = {}
  /\ up = FALSE
  /\ active = NoSegment /\ written_bytes = 0 /\ total_bytes = 0 /\ next_seg_id = 0
  /\ next_rec = 0 /\ receipts = {} /\ evicted = {} /\ lost = {} /\ boots = 0

(* SegmentLog::open.  Every `.wip` is renamed; ids go on from the highest  *)
(* file left in the directory.                                             *)
Open ==
  /\ ~up /\ boots < MaxBoots
  /\ up' = TRUE
  /\ quarantine' = quarantine \cup wip
  /\ wip' = {}
  /\ active' = NoSegment /\ written_bytes' = 0
  /\ total_bytes' = BytesAtOpen
  /\ next_seg_id' = IF Numbered = {} THEN 0 ELSE Newest(Numbered) + 1
  /\ boots' = boots + 1
  /\ UNCHANGED <<seg, bytes, next_rec, receipts, evicted, lost>>

(* An I/O error half way through the renames: open returns Err. *)
OpenFails ==
  /\ IoFaults /\ ~up /\ boots < MaxBoots
  /\ \E done \in SUBSET wip :
       /\ quarantine' = quarantine \cup done
       /\ wip' = wip \ done
  /\ boots' = boots + 1
  /\ UNCHANGED <<seg, bytes, handle, next_rec, receipts, evicted, lost>>

(* What rotate does to the directory: fsync and rename the active file,    *)
(* create the next one.                                                    *)
RotateFiles ==
  /\ next_seg_id < MaxSegments
  /\ wip' = (wip \ {active}) \cup {next_seg_id}
  /\ seg' = seg \cup ({active} \ {NoSegment})
  /\ next_seg_id' = next_seg_id + 1

(* Where a record of n bytes goes: append rotates BEFORE writing one that  *)
(* the active segment has no room for.                                     *)
Target(n) == IF MustRotate(n) THEN next_seg_id ELSE active
Offset(n) == IF MustRotate(n) THEN 0 ELSE written_bytes

Place(n) ==
  /\ up /\ next_rec < MaxRecords
  /\ Fits(n)
  /\ IF MustRotate(n) THEN RotateFiles ELSE UNCHANGED <<wip, seg, next_seg_id>>
  /\ active' = Target(n)
  /\ next_rec' = next_rec + 1

(* append: the record is written whole and acknowledged.  One that does    *)
(* not fit the quota is refused before anything changes.                   *)
Append(n) ==
  /\ Place(n)
  /\ bytes' = bytes \cup Cells(Target(n), next_rec, n)
  /\ written_bytes' = Offset(n) + n
  /\ total_bytes' = total_bytes + n
  /\ receipts' = receipts \cup {[rec |-> next_rec, seg |-> Target(n), off |-> Offset(n)]}
  /\ UNCHANGED <<quarantine, up, evicted, lost, boots>>

(* append: write_all fails with k of the n bytes in the file.  The `?`     *)
(* returns before the counters are updated.                                *)
AppendTorn(n) ==
  /\ IoFaults
  /\ Place(n)
  /\ \E k \in 0..(n - 1) : bytes' = bytes \cup Cells(Target(n), next_rec, k)
  /\ written_bytes' = Offset(n)
  /\ UNCHANGED <<quarantine, up, total_bytes, receipts, evicted, lost, boots>>

(* rotate, called by itself. *)
Rotate ==
  /\ up
  /\ RotateFiles
  /\ active' = next_seg_id /\ written_bytes' = 0
  /\ UNCHANGED <<quarantine, bytes, up, total_bytes, history>>

(* rotate fails in sync_all or rename: `active.take()` has already         *)
(* forgotten the file, which stays behind as a `.wip`.                     *)
RotateFailsToClose ==
  /\ IoFaults /\ up /\ active # NoSegment
  /\ active' = NoSegment /\ written_bytes' = 0
  /\ UNCHANGED <<disk, up, total_bytes, next_seg_id, history>>

(* rotate closes the old file and fails to create the new one, whose id is *)
(* already spent.                                                          *)
RotateFailsToOpen ==
  /\ IoFaults /\ up /\ next_seg_id < MaxSegments
  /\ wip' = wip \ {active}
  /\ seg' = seg \cup ({active} \ {NoSegment})
  /\ active' = NoSegment /\ written_bytes' = 0
  /\ next_seg_id' = next_seg_id + 1
  /\ UNCHANGED <<quarantine, bytes, up, total_bytes, history>>

(* evict_oldest_closed *)
EvictOldestClosed ==
  /\ up /\ seg # {}
  /\ LET target == Oldest(seg)
         size == Cardinality(FileBytes(target))
     IN /\ seg' = seg \ {target}
        /\ bytes' = bytes \ FileBytes(target)
        /\ total_bytes' = IF size <= total_bytes THEN total_bytes - size ELSE 0
        /\ evicted' = evicted \cup RecordsOf(FileBytes(target))
  /\ UNCHANGED <<wip, quarantine, up, active, written_bytes, next_seg_id,
                 next_rec, receipts, lost, boots>>

(* Mutant of Close: deletes the active file without having rotated it. *)
CloseDeletingActive ==
  /\ up
  /\ wip' = wip \ {active}
  /\ bytes' = bytes \ FileBytes(active)
  /\ up' = FALSE
  /\ active' = NoSegment /\ written_bytes' = 0 /\ total_bytes' = 0 /\ next_seg_id' = 0
  /\ UNCHANGED <<seg, quarantine, history>>

(* close: rotate, then drop the file rotate just created and, as it is     *)
(* empty, delete it.  The value is consumed.                               *)
Close ==
  /\ up
  /\ IF active = NoSegment
     THEN UNCHANGED <<wip, seg>>
     ELSE /\ wip' = wip \ {active}
          /\ seg' = seg \cup {active}
  /\ up' = FALSE
  /\ active' = NoSegment /\ written_bytes' = 0 /\ total_bytes' = 0 /\ next_seg_id' = 0
  /\ UNCHANGED <<quarantine, bytes, history>>

(* The process dies, or the machine does: append never calls sync_all, so  *)
(* the records from `cut` on that are still in a `.wip` may be gone.       *)
Crash ==
  /\ up
  /\ \E cut \in 0..next_rec :
       LET gone == {b \in bytes : b.seg \in wip /\ b.rec >= cut}
       IN /\ bytes' = bytes \ gone
          /\ lost' = lost \cup RecordsOf(gone)
  /\ up' = FALSE
  /\ active' = NoSegment /\ written_bytes' = 0 /\ total_bytes' = 0 /\ next_seg_id' = 0
  /\ UNCHANGED <<wip, seg, quarantine, next_rec, receipts, evicted, boots>>

Next ==
  \/ Open \/ OpenFails
  \/ \E n \in RecordSizes : Append(n) \/ AppendTorn(n)
  \/ Rotate \/ RotateFailsToClose \/ RotateFailsToOpen
  \/ EvictOldestClosed
  \/ Close \/ Crash

Spec == Init /\ [][Next]_vars

-----------------------------------------------------------------------------
TypeOK ==
  /\ wip \in SUBSET Nat /\ seg \in SUBSET Nat /\ quarantine \in SUBSET Nat
  /\ bytes \in SUBSET [seg : Nat, rec : Nat, off : Nat]
  /\ up \in BOOLEAN
  /\ active \in Nat \cup {NoSegment}
  /\ written_bytes \in Nat /\ total_bytes \in Nat /\ next_seg_id \in Nat
  /\ next_rec \in Nat /\ boots \in Nat
  /\ receipts \in SUBSET [rec : Nat, seg : Nat, off : Nat]
  /\ evicted \in SUBSET Nat /\ lost \in SUBSET Nat

(* A file keeps its id for good: no rename of rotate or of crash recovery  *)
(* can land on the name of another segment, whatever failed before and     *)
(* however often the daemon was restarted.                                 *)
OneFilePerId ==
  /\ wip \cap seg = {} /\ wip \cap quarantine = {} /\ seg \cap quarantine = {}
  /\ active # NoSegment => active \in wip

(* Ids order the log in time across rotations, I/O errors, evictions and   *)
(* reopens: of two records on disk the later one never sits in a           *)
(* lower-numbered segment, so that eviction by id is eviction by age.      *)
ChronologicalIds ==
  \A a, b \in bytes : a.rec < b.rec => a.seg <= b.seg

(* evict_oldest_closed never leaves a hole: whatever was evicted is older  *)
(* than every record still in a closed segment.                            *)
OldestFirst ==
  \A gone \in evicted, kept \in RecordsIn(seg) : gone < kept

(* Every record so far was written whole and acknowledged.                 *)
WholeWrites == \A r \in 0..(next_rec - 1) : \E q \in receipts : q.rec = r

(* While the log is open its counter is exactly the bytes in the           *)
(* directory, quarantined and abandoned `.wip` files included, until a     *)
(* write stops half way.                                                   *)
AccountingExact == up /\ WholeWrites => total_bytes = Cardinality(bytes)

(* OPS-12: the directory never outgrows the quota, open or not, until a    *)
(* write stops half way.                                                   *)
QuotaRespected == WholeWrites => Cardinality(bytes) <= QuotaLimit

(* A record append acknowledged is on disk, unless its segment was evicted *)
(* or a power failure took it from a segment that was not closed yet.      *)
AcknowledgedIsKept ==
  \A r \in receipts : r.rec \in RecordsOf(bytes) \cup evicted \cup lost

(* A closed segment is never touched again but to be evicted whole: no     *)
(* crash, reopen or later append adds to it or takes from it.              *)
ClosedIsImmutable ==
  [][\A s \in seg : s \in seg' => {b \in bytes' : b.seg = s} = FileBytes(s)]_vars

(* The inductive strengthening of the invariants above: files are numbered *)
(* below the next id, the active segment is the newest, no byte belongs to *)
(* a missing file, and a record never straddles two segments.              *)
FilesInv ==
  /\ OneFilePerId
  /\ ~up => active = NoSegment
  /\ \A s \in Numbered : s < MaxSegments
  /\ up => \A s \in Numbered : s < next_seg_id
  /\ active # NoSegment => \A s \in Numbered : s <= active
  /\ up => \A q \in quarantine, w \in wip : q < w

BytesInv ==
  /\ IsFiniteSet(bytes)
  /\ \A b \in bytes : b.seg \in Numbered /\ b.rec < next_rec
  /\ \A a, b \in bytes : a.rec <= b.rec => a.seg <= b.seg

HistoryInv ==
  /\ \A r \in evicted : r < next_rec
  /\ \A r \in receipts : r.rec < next_rec
  /\ \A gone \in evicted, b \in bytes : b.seg \in seg \cup {active} => gone < b.rec
  /\ AcknowledgedIsKept

LogInv == TypeOK /\ FilesInv /\ BytesInv /\ HistoryInv

(* What the rest of the daemon relies on: see EvidenceLedger.              *)
Ledger == INSTANCE EvidenceLedger WITH
  Records <- 0..(MaxRecords - 1),
  sealed <- RecordsIn(seg),
  pending <- RecordsIn({active}),
  aside <- RecordsIn((wip \ {active}) \cup quarantine)

ImplementsLedger == Ledger!Spec

(* segment_log.rs:54-60: while its record is on disk a (segment_id,        *)
(* offset) receipt names no other, although ids freed by eviction and by   *)
(* close are handed out again after a reopen.                              *)
ReceiptsNameRecords ==
  \A r, q \in receipts :
    (r.seg = q.seg /\ r.off = q.off /\ {r.rec, q.rec} \subseteq RecordsOf(bytes)) => r = q
=============================================================================
