----------------------------- MODULE AuditChain -----------------------------
(***************************************************************************)
(* The hash-chained audit trail of athar-audit: the chain writer (lib.rs), *)
(* the writer the daemon uses (writer.rs), the segment store and its       *)
(* verification (persistence.rs).                                          *)
(*                                                                         *)
(* BLAKE3 is taken to be injective: the hash of a record is the sequence   *)
(* of the records its chain was hashed from, H(prev || r) = Append(prev,   *)
(* r) and the genesis hash is <<>>.  A signature over a hash is that hash. *)
(* The commitment, its time and its kind are the number of the observe()   *)
(* that made the record.  Every call runs under the daemon's mutex on the  *)
(* writer, and a segment file appears by rename: each call is one step.    *)
(***************************************************************************)
EXTENDS Naturals, Sequences, FiniteSets

CONSTANTS
  MaxRecordsPerSegment,   \* with_max_records_per_segment
  WriteFaults,            \* may SegmentStore::write fail?
  Redaction,              \* does an operator call mark_redacted?
  MaxObserved,            \* bound: observe() calls
  MaxOpens                \* bound: opens of the writer

ASSUME SegmentSize == MaxRecordsPerSegment \in Nat \ {0}
ASSUME Switches == WriteFaults \in BOOLEAN /\ Redaction \in BOOLEAN
ASSUME AuditBounds == MaxObserved \in Nat /\ MaxOpens \in Nat

VARIABLES
  store,              \* SegmentStore: the segments on disk, by id
  open,               \* is there an AuditChainWriter?
  records,            \* inner.records
  tip_hash,           \* inner.tip_hash
  chain_seq,          \* inner.next_seq
  tip,                \* the AuditChainWriter's own fields
  next_seq,
  next_segment_id,
  observed,           \* history: number of the next observe()
  opens,              \* history: opens so far
  damaged             \* history: has a write failed or a record been redacted?

inner == <<records, tip_hash, chain_seq>>
writer == <<open, inner, tip, next_seq, next_segment_id>>
avars == <<store, writer, observed, opens, damaged>>

-----------------------------------------------------------------------------
GENESIS == <<>>

Hash(prev, r) == Append(prev, r)

Chained(prev, r) == [record |-> r, prev_hash |-> prev, record_hash |-> Hash(prev, r)]

First(s) == s.records[1]
Last(s) == s.records[Len(s.records)]

Ids == DOMAIN store
LastId == CHOOSE i \in Ids : \A j \in Ids : j <= i
Adjacent(i, j) == i < j /\ \A k \in Ids : k <= i \/ j <= k

(* verify_segment: anchored to what its own first record claims. *)
Verifies(s) ==
  /\ s.records # <<>>
  /\ s.signed = Last(s).record_hash
  /\ \A n \in 1..Len(s.records) :
       LET cr == s.records[n] IN
       /\ cr.record.seq = First(s).record.seq + (n - 1)
       /\ n > 1 => cr.prev_hash = s.records[n - 1].record_hash
       /\ cr.record_hash = Hash(cr.prev_hash, cr.record)

(* Mutant of VerifyAll: every segment by itself. *)
VerifyEach == \A i \in Ids : Verifies(store[i])

(* SegmentStore::verify_all *)
VerifyAll ==
  /\ \A i \in Ids : Verifies(store[i])
  /\ \A i, j \in Ids :
       Adjacent(i, j) => First(store[j]).prev_hash = Last(store[i]).record_hash

-----------------------------------------------------------------------------
AuditInit ==
  /\ store = <<>>
  /\ open = FALSE
  /\ records = <<>> /\ tip_hash = GENESIS /\ chain_seq = 0
  /\ tip = GENESIS /\ next_seq = 0 /\ next_segment_id = 0
  /\ observed = 0 /\ opens = 0 /\ damaged = FALSE

(* Mutants of OpenWriter: the chain starts anew; the last id is reused.    *)
OpenAtGenesis ==
  /\ ~open /\ opens < MaxOpens
  /\ open' = TRUE
  /\ tip' = GENESIS /\ next_seq' = 0
  /\ next_segment_id' = IF Ids = {} THEN 0 ELSE LastId + 1
  /\ records' = <<>> /\ tip_hash' = tip' /\ chain_seq' = next_seq'
  /\ opens' = opens + 1
  /\ UNCHANGED <<store, observed, damaged>>

OpenOnLastId ==
  /\ ~open /\ opens < MaxOpens
  /\ open' = TRUE
  /\ tip' = (IF Ids = {} THEN GENESIS ELSE Last(store[LastId]).record_hash)
  /\ next_seq' = (IF Ids = {} THEN 0 ELSE Last(store[LastId]).record.seq + 1)
  /\ next_segment_id' = IF Ids = {} THEN 0 ELSE LastId
  /\ records' = <<>> /\ tip_hash' = tip' /\ chain_seq' = next_seq'
  /\ opens' = opens + 1
  /\ UNCHANGED <<store, observed, damaged>>

(* AuditChainWriter::open resumes from the last segment on disk. *)
OpenWriter ==
  /\ ~open /\ opens < MaxOpens
  /\ open' = TRUE
  /\ IF Ids = {}
     THEN tip' = GENESIS /\ next_seq' = 0 /\ next_segment_id' = 0
     ELSE LET last == Last(store[LastId]) IN
          /\ tip' = last.record_hash
          /\ next_seq' = last.record.seq + 1
          /\ next_segment_id' = LastId + 1
  /\ records' = <<>> /\ tip_hash' = tip' /\ chain_seq' = next_seq'
  /\ opens' = opens + 1
  /\ UNCHANGED <<store, observed, damaged>>

(* ... unless the directory or its last segment cannot be read: then the   *)
(* daemon does not start.                                                  *)
OpenWriterFails ==
  /\ ~open /\ opens < MaxOpens
  /\ opens' = opens + 1
  /\ UNCHANGED <<store, writer, observed, damaged>>

(* ChainWriter::append *)
NewRecord == Chained(tip_hash, [seq |-> chain_seq, what |-> observed, redacted |-> FALSE])

(* Mutant of CloseWith: of several records the oldest is not written. *)
CloseWithoutFirst(recs) ==
  LET last == recs[Len(recs)]
      rest == IF Len(recs) = 1 THEN recs ELSE Tail(recs)
      seg == [records |-> rest, signed |-> last.record_hash]
  IN /\ tip' = last.record_hash /\ next_seq' = last.record.seq + 1
     /\ records' = <<>> /\ tip_hash' = tip' /\ chain_seq' = next_seq'
     /\ next_segment_id' = next_segment_id + 1
     /\ store' = [i \in Ids \cup {next_segment_id} |->
                    IF i = next_segment_id THEN seg ELSE store[i]]
     /\ UNCHANGED damaged

(* close_segment: the fields move on to the tip of the segment before it   *)
(* is written; if that fails the records are gone.                         *)
CloseWith(recs) ==
  LET last == recs[Len(recs)]
      seg == [records |-> recs, signed |-> last.record_hash]
  IN /\ tip' = last.record_hash /\ next_seq' = last.record.seq + 1
     /\ records' = <<>> /\ tip_hash' = tip' /\ chain_seq' = next_seq'
     /\ next_segment_id' = next_segment_id + 1
     /\ \/ /\ store' = [i \in Ids \cup {next_segment_id} |->
                          IF i = next_segment_id THEN seg ELSE store[i]]
           /\ UNCHANGED damaged
        \/ WriteFaults /\ store' = store /\ damaged' = TRUE

(* observe, when the segment has room for more. *)
Observe ==
  /\ open /\ observed < MaxObserved
  /\ Len(records) + 1 < MaxRecordsPerSegment
  /\ records' = Append(records, NewRecord)
  /\ tip_hash' = NewRecord.record_hash /\ chain_seq' = chain_seq + 1
  /\ observed' = observed + 1
  /\ UNCHANGED <<store, open, tip, next_seq, next_segment_id, opens, damaged>>

(* observe, when the record fills the segment. *)
ObserveAndClose ==
  /\ open /\ observed < MaxObserved
  /\ Len(records) + 1 >= MaxRecordsPerSegment
  /\ CloseWith(Append(records, NewRecord))
  /\ observed' = observed + 1
  /\ UNCHANGED <<open, opens>>

(* flush, at shutdown: nothing to do without records. *)
Flush ==
  /\ open /\ records # <<>>
  /\ CloseWith(records)
  /\ UNCHANGED <<open, observed, opens>>

(* The process ends: what is in memory is gone. *)
Exit ==
  /\ open
  /\ open' = FALSE
  /\ records' = <<>> /\ tip_hash' = GENESIS /\ chain_seq' = 0
  /\ tip' = GENESIS /\ next_seq' = 0 /\ next_segment_id' = 0
  /\ UNCHANGED <<store, observed, opens, damaged>>

(* mark_redacted on a record of a stored segment. *)
Redact ==
  /\ Redaction
  /\ \E i \in Ids : \E n \in 1..Len(store[i].records) :
       /\ ~store[i].records[n].record.redacted
       /\ store' = [store EXCEPT ![i].records[n].record.redacted = TRUE]
  /\ damaged' = TRUE
  /\ UNCHANGED <<writer, observed, opens>>

AuditNext ==
  \/ OpenWriter \/ OpenWriterFails \/ Observe \/ ObserveAndClose
  \/ Flush \/ Exit \/ Redact

AuditSpec == AuditInit /\ [][AuditNext]_avars

-----------------------------------------------------------------------------
Records == [seq : Nat, what : Nat, redacted : BOOLEAN]
Hashes == Seq(Records)
ChainedRecords == [record : Records, prev_hash : Hashes, record_hash : Hashes]

OnDisk == UNION {{store[i].records[n] : n \in 1..Len(store[i].records)} : i \in Ids}
Pending == {records[n] : n \in 1..Len(records)}
FirstId == CHOOSE i \in Ids : \A j \in Ids : i <= j

(* writer.rs:18-19, SEC-11: the segments, past and present, are one        *)
(* continuous chain that verify_all accepts.                               *)
ChainIsVerifiable == VerifyAll

(* And so they are across segment closes, exits without a flush and        *)
(* reopens, until a segment is not written or a record is redacted.  Until *)
(* then the chain is also whole: whatever a record was hashed over is on   *)
(* the disk too, back to the genesis hash.                                 *)
IntactIsVerifiable ==
  ~damaged =>
    /\ VerifyAll
    /\ \A cr \in OnDisk : \A k \in 1..Len(cr.prev_hash) :
         \E d \in OnDisk : d.record = cr.prev_hash[k]

(* A crash costs less than one segment of commitments: observe closes the  *)
(* segment with the record that fills it.                                  *)
LossIsBounded == Len(records) < MaxRecordsPerSegment

(* A stored segment is final: no failed write, crash or resumed writer     *)
(* ever writes to its file again or takes its id, and redaction (lib.rs:   *)
(* 305-307) leaves its hashes and its signature alone.                     *)
SegmentsAreFinal ==
  [][\A i \in Ids :
       /\ i \in Ids' /\ store'[i].signed = store[i].signed
       /\ Len(store'[i].records) = Len(store[i].records)
       /\ \A n \in 1..Len(store[i].records) :
            /\ store'[i].records[n].prev_hash = store[i].records[n].prev_hash
            /\ store'[i].records[n].record_hash = store[i].records[n].record_hash]_avars

(* verify_all is sound although each segment names its own anchor: a chain *)
(* it accepts has no record missing between two it holds, whichever        *)
(* segments failed to be written.                                          *)
VerifiedIsComplete ==
  VerifyAll =>
    \A cr \in OnDisk : \A k \in 1..Len(cr.prev_hash) :
      k > Len(First(store[FirstId]).prev_hash) =>
        \E d \in OnDisk : d.record = cr.prev_hash[k]

(* What the daemon relies on: see AuditTrail.                              *)
Trail == INSTANCE AuditTrail WITH
  Commitments <- 0..(MaxObserved - 1),
  persisted <- {cr.record.what : cr \in OnDisk},
  batch <- {cr.record.what : cr \in Pending}

ImplementsTrail == Trail!Spec
=============================================================================
