-------------------------- MODULE AuditVerifyProofs -------------------------
(***************************************************************************)
(* Proofs about AuditChain, for segments of any size: a crash costs less   *)
(* than one segment, stored segments are final, and the chain on disk is   *)
(* whole and verifies for as long as no write fails and nothing is         *)
(* redacted; with failures, a chain that verifies has no holes.  The chain *)
(* implements AuditTrail.  Then AuditVerify: verify_all, which reads the   *)
(* segments one by one while the daemon goes on writing, redacting,        *)
(* exiting and booting, reports no break that is not there and passes no   *)
(* chain that had one when it began.                                       *)
(***************************************************************************)
EXTENDS AuditVerify, WellFoundedInduction, TLAPS

Segments == [records : Seq(ChainedRecords), signed : Hashes]

(* The directory: segments are not empty, and one of them is the last.     *)
StoreInv ==
  /\ store \in [Ids -> Segments] /\ Ids \in SUBSET Nat
  /\ \A i \in Ids : store[i].records # <<>>
  /\ Ids # {} => \E i \in Ids : \A j \in Ids : j <= i
  /\ damaged \in BOOLEAN

(* recs is a piece of chain that begins at hash h and number seq. *)
Linked(recs, h, seq) ==
  \A n \in 1..Len(recs) :
    /\ recs[n].record.seq = seq + (n - 1)
    /\ recs[n].record_hash = Hash(recs[n].prev_hash, recs[n].record)
    /\ recs[n].prev_hash = IF n = 1 THEN h ELSE recs[n - 1].record_hash

(* The writer: what is pending continues from its tip, which no id on disk *)
(* has caught up with.                                                     *)
WriterInv ==
  /\ open \in BOOLEAN /\ observed \in Nat
  /\ records \in Seq(ChainedRecords) /\ Len(records) < MaxRecordsPerSegment
  /\ tip \in Hashes /\ tip_hash \in Hashes
  /\ next_seq \in Nat /\ next_segment_id \in Nat
  /\ chain_seq = next_seq + Len(records)
  /\ tip_hash = IF Len(records) = 0 THEN tip ELSE records[Len(records)].record_hash
  /\ Linked(records, tip, next_seq)
  /\ open => \A i \in Ids : i < next_segment_id
  /\ ~open => records = <<>>

Covered(h, S) == \A k \in 1..Len(h) : \E d \in S : d.record = h[k]

(* Until something is damaged the chain verifies, the writer goes on from  *)
(* its end, and whatever a hash covers is there.                           *)
ChainInv ==
  ~damaged =>
    /\ VerifyAll
    /\ \A cr \in OnDisk : Covered(cr.prev_hash, OnDisk)
    /\ open =>
         /\ \A i \in Ids : (\A j \in Ids : j <= i) => tip = Last(store[i]).record_hash
         /\ Covered(tip, OnDisk)
         /\ \A cr \in Pending : Covered(cr.prev_hash, OnDisk \cup Pending)

AuditInv == StoreInv /\ WriterInv /\ ChainInv

-----------------------------------------------------------------------------
USE SegmentSize, Switches DEF Ids

LEMMA LastIdIsLast ==
  ASSUME StoreInv, Ids # {}
  PROVE  LastId \in Ids /\ \A j \in Ids : j <= LastId
  BY DEF StoreInv, LastId

LEMMA RecordsTyped ==
  ASSUME StoreInv
  PROVE  \A i \in Ids :
           /\ store[i].records \in Seq(ChainedRecords)
           /\ Len(store[i].records) \in Nat \ {0}
           /\ \A n \in 1..Len(store[i].records) : store[i].records[n] \in ChainedRecords
           /\ Last(store[i]) \in ChainedRecords
<1> TAKE i \in Ids
<1>1. store[i].records \in Seq(ChainedRecords) /\ store[i].records # <<>>
  BY DEF StoreInv, Segments
<1>2. Len(store[i].records) \in Nat \ {0}
  BY <1>1
<1>3. \A n \in 1..Len(store[i].records) : store[i].records[n] \in ChainedRecords
  BY <1>1
<1> QED  BY <1>1, <1>2, <1>3 DEF Last

LEMMA HashIsHash == \A h \in Hashes, r \in Records : Hash(h, r) \in Hashes
  BY DEF Hash, Hashes

(* The next record continues the pending ones.                             *)
LEMMA NewRecordContinues ==
  ASSUME WriterInv
  PROVE  /\ NewRecord \in ChainedRecords
         /\ Append(records, NewRecord) \in Seq(ChainedRecords)
         /\ Len(Append(records, NewRecord)) = Len(records) + 1
         /\ \A n \in 1..Len(records) : Append(records, NewRecord)[n] = records[n]
         /\ Append(records, NewRecord)[Len(records) + 1] = NewRecord
         /\ Linked(Append(records, NewRecord), tip, next_seq)
<1> USE DEF WriterInv
<1> DEFINE more == Append(records, NewRecord)
<1>1. [seq |-> chain_seq, what |-> observed, redacted |-> FALSE] \in Records
  BY DEF Records
<1>2. NewRecord \in ChainedRecords
  BY <1>1, HashIsHash DEF NewRecord, Chained, ChainedRecords
<1>3. /\ more \in Seq(ChainedRecords) /\ Len(more) = Len(records) + 1
      /\ \A n \in 1..Len(records) : more[n] = records[n]
      /\ more[Len(records) + 1] = NewRecord
  BY <1>2
<1>4. /\ NewRecord.record.seq = next_seq + Len(records)
      /\ NewRecord.record_hash = Hash(NewRecord.prev_hash, NewRecord.record)
      /\ NewRecord.prev_hash = tip_hash
  BY DEF NewRecord, Chained
<1>5. ASSUME NEW n \in 1..Len(more)
      PROVE  /\ more[n].record.seq = next_seq + (n - 1)
             /\ more[n].record_hash = Hash(more[n].prev_hash, more[n].record)
             /\ more[n].prev_hash = IF n = 1 THEN tip ELSE more[n - 1].record_hash
  <2>1. CASE n \in 1..Len(records)
    <3>1. more[n] = records[n] /\ (n # 1 => more[n - 1] = records[n - 1])
      BY <1>3, <2>1
    <3> QED  BY <2>1, <3>1 DEF Linked
  <2>2. CASE n = Len(records) + 1
    <3>1. more[n] = NewRecord
      BY <1>3, <2>2
    <3>2. more[n].prev_hash = IF n = 1 THEN tip ELSE more[n - 1].record_hash
      BY <1>3, <1>4, <2>2, <3>1
    <3> QED  BY <1>4, <2>2, <3>1, <3>2
  <2> QED  BY <1>3, <2>1, <2>2
<1> QED  BY <1>2, <1>3, <1>5 DEF Linked

(* A writer with nothing pending.                                          *)
LEMMA FreshWriter ==
  ASSUME records' = <<>>, tip_hash' = tip', chain_seq' = next_seq',
         tip' \in Hashes, next_seq' \in Nat, next_segment_id' \in Nat,
         open' \in BOOLEAN, observed' \in Nat,
         open' => \A i \in Ids' : i < next_segment_id'
  PROVE  WriterInv'
<1>1. records' = <<>> /\ Len(<<>>) = 0
  OBVIOUS
<1>2. Len(records') = 0 /\ records' \in Seq(ChainedRecords)
  BY <1>1
<1>3. Linked(records', tip', next_seq')
  BY <1>2 DEF Linked
<1>4. chain_seq' = next_seq' + Len(records') /\ Len(records') < MaxRecordsPerSegment
  <2>1. (\A x \in Nat : x = x + 0) /\ \A x \in Nat \ {0} : 0 < x
    OBVIOUS
  <2>2. Len(records') < MaxRecordsPerSegment
    BY <1>2, <2>1, SegmentSize, Zenon
  <2>3. chain_seq' = next_seq' + Len(records')
    BY <1>2, <2>1, Zenon
  <2> QED  BY <2>2, <2>3
<1>5. tip_hash' = IF Len(records') = 0 THEN tip' ELSE records'[Len(records')].record_hash
  BY <1>2
<1> QED  BY <1>1, <1>2, <1>3, <1>4, <1>5 DEF WriterInv

-----------------------------------------------------------------------------
(* close_segment with recs, which continue the chain from the tip.         *)
Closing(recs) ==
  /\ recs \in Seq(ChainedRecords) /\ recs # <<>>
  /\ Linked(recs, tip, next_seq)

Seg(recs) == [records |-> recs, signed |-> recs[Len(recs)].record_hash]

Written(recs) ==
  /\ store' = [i \in Ids \cup {next_segment_id} |->
                 IF i = next_segment_id THEN Seg(recs) ELSE store[i]]
  /\ damaged' = damaged

LEMMA CloseWithIs ==
  ASSUME NEW recs, CloseWith(recs)
  PROVE  /\ Written(recs) \/ (store' = store /\ damaged' = TRUE)
         /\ records' = <<>> /\ tip_hash' = tip' /\ chain_seq' = next_seq'
         /\ tip' = recs[Len(recs)].record_hash
         /\ next_seq' = recs[Len(recs)].record.seq + 1
         /\ next_segment_id' = next_segment_id + 1
  BY DEF CloseWith, Written, Seg

LEMMA LastOfClosing ==
  ASSUME NEW recs, Closing(recs)
  PROVE  /\ Len(recs) \in Nat \ {0}
         /\ \A n \in 1..Len(recs) : recs[n] \in ChainedRecords
         /\ recs[Len(recs)] \in ChainedRecords
         /\ recs[Len(recs)].record_hash \in Hashes
         /\ recs[Len(recs)].record.seq + 1 \in Nat
         /\ Seg(recs) \in Segments
<1>1. Len(recs) \in Nat \ {0}
  BY DEF Closing
<1>2. \A n \in 1..Len(recs) : recs[n] \in ChainedRecords
  BY DEF Closing
<1>3. recs[Len(recs)] \in ChainedRecords
  BY <1>1, <1>2
<1>4. recs[Len(recs)].record_hash \in Hashes /\ recs[Len(recs)].record.seq \in Nat
  BY <1>3 DEF ChainedRecords, Records
<1> QED  BY <1>1, <1>2, <1>3, <1>4 DEF Seg, Segments, Closing

(* The new segment verifies by itself.                                     *)
LEMMA SegVerifies ==
  ASSUME NEW recs, Closing(recs), next_seq \in Nat PROVE Verifies(Seg(recs))
<1>1. Len(recs) \in Nat \ {0} /\ recs # <<>>
  BY LastOfClosing DEF Closing
<1>2. Seg(recs).records = recs /\ Seg(recs).signed = recs[Len(recs)].record_hash
  BY DEF Seg
<1>3. recs[1].record.seq = next_seq
  BY <1>1 DEF Closing, Linked
<1>4. \A n \in 1..Len(recs) :
        /\ recs[n].record.seq = recs[1].record.seq + (n - 1)
        /\ n > 1 => recs[n].prev_hash = recs[n - 1].record_hash
        /\ recs[n].record_hash = Hash(recs[n].prev_hash, recs[n].record)
  BY <1>1, <1>3 DEF Closing, Linked
<1> QED  BY <1>1, <1>2, <1>4 DEF Verifies, First, Last

LEMMA CloseStoreStep ==
  ASSUME StoreInv, WriterInv, open, NEW recs, Closing(recs), CloseWith(recs)
  PROVE  StoreInv' /\ \A i \in Ids' : i < next_segment_id'
<1> USE DEF StoreInv, WriterInv
<1>1. CASE Written(recs)
  <2>1. Ids' = Ids \cup {next_segment_id}
    BY <1>1 DEF Written
  <2>2. store' \in [Ids' -> Segments]
    BY <1>1, <2>1, LastOfClosing DEF Written
  <2>3. \A i \in Ids' : store'[i].records # <<>>
    BY <1>1, <2>1 DEF Written, Seg, Closing
  <2>4. \A j \in Ids' : j <= next_segment_id
    BY <2>1
  <2>5. next_segment_id' = next_segment_id + 1
    BY CloseWithIs
  <2>6. StoreInv'
    <3>1. Ids' \in SUBSET Nat /\ damaged' \in BOOLEAN
      BY <1>1, <2>1 DEF Written
    <3>2. \E i \in Ids' : \A j \in Ids' : j <= i
      BY <2>1, <2>4
    <3> QED  BY <2>2, <2>3, <3>1, <3>2
  <2>7. \A i \in Ids' : i < next_segment_id'
    BY <2>1, <2>5
  <2> QED  BY <2>6, <2>7
<1>2. CASE store' = store /\ damaged' = TRUE
  <2>1. next_segment_id' = next_segment_id + 1
    BY CloseWithIs
  <2> QED  BY <1>2, <2>1
<1> QED  BY <1>1, <1>2, CloseWithIs

LEMMA CloseWriterStep ==
  ASSUME StoreInv, WriterInv, open, NEW recs, Closing(recs), CloseWith(recs),
         open' = open, observed' \in Nat
  PROVE  WriterInv'
<1>1. /\ records' = <<>> /\ tip_hash' = tip' /\ chain_seq' = next_seq'
      /\ tip' \in Hashes /\ next_seq' \in Nat /\ next_segment_id' = next_segment_id + 1
  BY CloseWithIs, LastOfClosing
<1>2. \A i \in Ids' : i < next_segment_id'
  BY CloseStoreStep
<1>3. open' \in BOOLEAN /\ next_segment_id' \in Nat
  BY <1>1 DEF WriterInv
<1> QED  BY <1>1, <1>2, <1>3, FreshWriter

(* What is on the disk when the segment is.                                *)
LEMMA OnDiskGrows ==
  ASSUME StoreInv, WriterInv, open, NEW recs, Closing(recs), Written(recs)
  PROVE  OnDisk' = OnDisk \cup {recs[n] : n \in 1..Len(recs)}
<1> USE DEF StoreInv, WriterInv
<1>1. Ids' = Ids \cup {next_segment_id} /\ next_segment_id \notin Ids
  BY DEF Written
<1>2. store'[next_segment_id].records = recs /\ \A i \in Ids : store'[i] = store[i]
  BY <1>1 DEF Written, Seg
<1>3. ASSUME NEW cr \in OnDisk' PROVE cr \in OnDisk \cup {recs[n] : n \in 1..Len(recs)}
  <2>1. PICK i \in Ids' : \E n \in 1..Len(store'[i].records) : cr = store'[i].records[n]
    BY <1>3 DEF OnDisk
  <2>2. CASE i = next_segment_id
    BY <1>2, <2>1, <2>2
  <2>3. CASE i \in Ids
    BY <1>2, <2>1, <2>3 DEF OnDisk
  <2> QED  BY <1>1, <2>2, <2>3
<1>4. ASSUME NEW cr \in OnDisk PROVE cr \in OnDisk'
  <2>1. PICK i \in Ids : \E n \in 1..Len(store[i].records) : cr = store[i].records[n]
    BY <1>4 DEF OnDisk
  <2>2. i \in Ids' /\ store'[i].records = store[i].records
    BY <1>1, <1>2
  <2> QED  BY <2>1, <2>2 DEF OnDisk
<1>5. ASSUME NEW n \in 1..Len(recs) PROVE recs[n] \in OnDisk'
  BY <1>1, <1>2 DEF OnDisk
<1> QED  BY <1>3, <1>4, <1>5

(* The chain on disk stays one chain when the writer's segment joins it.   *)
LEMMA CloseVerifies ==
  ASSUME StoreInv, WriterInv, open, VerifyAll, NEW recs, Closing(recs), Written(recs),
         \A i \in Ids : (\A j \in Ids : j <= i) => tip = Last(store[i]).record_hash
  PROVE  VerifyAll'
<1> USE DEF StoreInv, WriterInv
<1>1. Ids' = Ids \cup {next_segment_id} /\ next_segment_id \notin Ids
  BY DEF Written
<1>2. store'[next_segment_id] = Seg(recs) /\ \A i \in Ids : store'[i] = store[i]
  BY <1>1 DEF Written
<1>3. \A i \in Ids' : Verifies(store'[i])
  BY <1>1, <1>2, SegVerifies DEF VerifyAll
<1>4. ASSUME NEW i \in Ids', NEW j \in Ids', Adjacent(i, j)'
      PROVE  First(store'[j]).prev_hash = Last(store'[i]).record_hash
  <2>1. i < j /\ \A k \in Ids' : k <= i \/ j <= k
    BY <1>4 DEF Adjacent
  <2>2. i \in Ids
    BY <1>1, <2>1
  <2>3. CASE j \in Ids
    <3>1. Adjacent(i, j)
      BY <1>1, <2>1 DEF Adjacent
    <3> QED  BY <1>2, <2>2, <2>3, <3>1 DEF VerifyAll
  <2>4. CASE j = next_segment_id
    <3>1. \A k \in Ids : k <= i
      BY <1>1, <2>1, <2>4
    <3>2. Last(store[i]).record_hash = tip
      BY <2>2, <3>1
    <3>3. First(store'[j]).prev_hash = tip
      BY <1>2, <2>4, LastOfClosing, SMTT(20) DEF Seg, First, Closing, Linked
    <3> QED  BY <1>2, <2>2, <3>2, <3>3
  <2> QED  BY <1>1, <2>3, <2>4
<1> QED  BY <1>3, <1>4 DEF VerifyAll

-----------------------------------------------------------------------------
(* Hashes and what they cover.                                             *)
LEMMA CoveredByMore ==
  ASSUME NEW h, NEW S, NEW T, S \subseteq T, Covered(h, S) PROVE Covered(h, T)
  BY DEF Covered

LEMMA RecordHashCovered ==
  ASSUME NEW S, NEW cr \in ChainedRecords, cr \in S, Covered(cr.prev_hash, S),
         cr.record_hash = Hash(cr.prev_hash, cr.record)
  PROVE  Covered(cr.record_hash, S)
<1> DEFINE h == cr.prev_hash
<1>1. h \in Seq(Records) /\ cr.record \in Records
  BY DEF ChainedRecords, Hashes
<1>2. cr.record_hash = Append(h, cr.record)
  BY DEF Hash
<1>3. /\ Len(Append(h, cr.record)) = Len(h) + 1 /\ Len(h) \in Nat
      /\ Append(h, cr.record)[Len(h) + 1] = cr.record
      /\ \A k \in 1..Len(h) : Append(h, cr.record)[k] = h[k]
  BY <1>1
<1>4. \A k \in 1..Len(h) : \E d \in S : d.record = h[k]
  BY DEF Covered
<1>5. ASSUME NEW k \in 1..Len(cr.record_hash)
      PROVE  \E d \in S : d.record = cr.record_hash[k]
  <2>1. CASE k \in 1..Len(h)
    BY <2>1, <1>2, <1>3, <1>4
  <2>2. CASE k = Len(h) + 1
    BY <2>2, <1>2, <1>3
  <2> QED  BY <1>2, <1>3, <2>1, <2>2
<1> QED  BY <1>5 DEF Covered

LEMMA PendingTyped ==
  ASSUME WriterInv
  PROVE  /\ Len(records) \in Nat
         /\ \A n \in 1..Len(records) : records[n] \in ChainedRecords /\ records[n] \in Pending
  BY DEF WriterInv, Pending

LEMMA TipCovered ==
  ASSUME WriterInv, Covered(tip, OnDisk),
         \A cr \in Pending : Covered(cr.prev_hash, OnDisk \cup Pending)
  PROVE  Covered(tip_hash, OnDisk \cup Pending)
<1>1. CASE Len(records) = 0
  BY <1>1, CoveredByMore DEF WriterInv
<1>2. CASE Len(records) # 0
  <2> DEFINE last == records[Len(records)]
  <2>1. Len(records) \in 1..Len(records)
    BY <1>2, PendingTyped
  <2>2. last \in ChainedRecords /\ last \in Pending
    BY <2>1, PendingTyped
  <2>3. last.record_hash = Hash(last.prev_hash, last.record)
    BY <2>1 DEF WriterInv, Linked
  <2>4. Covered(last.record_hash, OnDisk \cup Pending)
    BY <2>2, <2>3, RecordHashCovered
  <2> QED  BY <1>2, <2>4 DEF WriterInv
<1> QED  BY <1>1, <1>2

(* Whatever the writer closes, the disk then holds what it covers.         *)
LEMMA CloseChainStep ==
  ASSUME AuditInv, open, NEW recs, Closing(recs), CloseWith(recs), open' = open,
         ~damaged =>
           \A n \in 1..Len(recs) :
             Covered(recs[n].prev_hash, OnDisk \cup {recs[m] : m \in 1..Len(recs)})
  PROVE  ChainInv'
<1> SUFFICES ASSUME ~damaged'
             PROVE  /\ VerifyAll'
                    /\ \A cr \in OnDisk' : Covered(cr.prev_hash, OnDisk')
                    /\ \A i \in Ids' : (\A j \in Ids' : j <= i) => tip' = Last(store'[i]).record_hash
                    /\ Covered(tip', OnDisk')
                    /\ Pending' = {}
  BY DEF ChainInv
<1> DEFINE R == {recs[m] : m \in 1..Len(recs)}
           last == recs[Len(recs)]
<1>1. Written(recs) /\ ~damaged
  BY CloseWithIs DEF Written
<1>2. StoreInv /\ WriterInv /\ VerifyAll
      /\ (\A i \in Ids : (\A j \in Ids : j <= i) => tip = Last(store[i]).record_hash)
  BY <1>1 DEF AuditInv, ChainInv
<1>3. VerifyAll'
  BY <1>1, <1>2, CloseVerifies
<1>4. OnDisk' = OnDisk \cup R
  BY <1>1, <1>2, OnDiskGrows
<1>5. \A cr \in OnDisk' : Covered(cr.prev_hash, OnDisk')
  <2>1. \A cr \in OnDisk : Covered(cr.prev_hash, OnDisk')
    BY <1>1, <1>4, CoveredByMore DEF AuditInv, ChainInv
  <2>2. \A cr \in R : Covered(cr.prev_hash, OnDisk')
    BY <1>1, <1>4
  <2> QED  BY <1>4, <2>1, <2>2
<1>6. ASSUME NEW i \in Ids', \A j \in Ids' : j <= i PROVE tip' = Last(store'[i]).record_hash
  <2>1. Ids' = Ids \cup {next_segment_id} /\ \A j \in Ids : j < next_segment_id
    BY <1>1, <1>2 DEF Written, WriterInv
  <2>2. next_segment_id <= i /\ next_segment_id \in Nat
    BY <1>2, <1>6, <2>1 DEF WriterInv
  <2>3. i = next_segment_id
    <3>1. i \in Ids => i \in Nat /\ i < next_segment_id
      BY <1>2, <2>1 DEF StoreInv
    <3> QED  BY <2>1, <2>2, <3>1
  <2>4. store'[i] = Seg(recs)
    BY <1>1, <2>1, <2>3 DEF Written
  <2>5. Last(Seg(recs)) = recs[Len(recs)]
    BY DEF Seg, Last
  <2> QED  BY <2>4, <2>5, CloseWithIs
<1>7. Covered(tip', OnDisk')
  <2>1. Len(recs) \in 1..Len(recs) /\ last \in ChainedRecords
    BY LastOfClosing
  <2>2. last \in OnDisk' /\ Covered(last.prev_hash, OnDisk')
    BY <1>4, <1>5, <2>1
  <2>3. last.record_hash = Hash(last.prev_hash, last.record)
    BY <2>1 DEF Closing, Linked
  <2>4. Covered(last.record_hash, OnDisk')
    BY <2>1, <2>2, <2>3, RecordHashCovered
  <2> QED  BY <2>4, CloseWithIs
<1>8. Pending' = {}
  <2>1. records' = <<>> /\ Len(<<>>) = 0
    BY CloseWithIs
  <2> QED  BY <2>1 DEF Pending
<1> QED  BY <1>3, <1>5, <1>6, <1>7, <1>8

-----------------------------------------------------------------------------
LEMMA AuditInitially == AuditInit => AuditInv
<1> SUFFICES ASSUME AuditInit PROVE AuditInv
  OBVIOUS
<1>1. store = <<>> /\ Ids = {} /\ records = <<>> /\ Len(records) = 0
  BY DEF AuditInit
<1>2. StoreInv
  <2>1. <<>> \in [{} -> Segments]
    OBVIOUS
  <2> QED  BY <1>1, <2>1 DEF AuditInit, StoreInv
<1>3. WriterInv
  <2>1. GENESIS \in Hashes
    BY DEF GENESIS, Hashes
  <2>2. Linked(records, tip, next_seq) /\ records \in Seq(ChainedRecords)
    BY <1>1 DEF Linked
  <2>3. tip \in Hashes /\ tip_hash \in Hashes /\ tip_hash = tip /\ chain_seq = 0 /\ next_seq = 0
    BY <2>1 DEF AuditInit
  <2>4. open = FALSE /\ observed = 0 /\ next_segment_id = 0
    BY DEF AuditInit
  <2>5. chain_seq = next_seq + Len(records) /\ Len(records) < MaxRecordsPerSegment
    BY <1>1, <2>3
  <2>6. tip_hash = IF Len(records) = 0 THEN tip ELSE records[Len(records)].record_hash
    BY <1>1, <2>3
  <2> QED  BY <1>1, <2>2, <2>3, <2>4, <2>5, <2>6 DEF WriterInv
<1>4. VerifyAll /\ OnDisk = {}
  BY <1>1 DEF VerifyAll, OnDisk
<1>5. ChainInv
  BY <1>1, <1>4 DEF ChainInv, AuditInit
<1> QED  BY <1>2, <1>3, <1>5 DEF AuditInv

(* A reopened writer goes on where the disk ends.                          *)
LEMMA OpenStep == ASSUME AuditInv, OpenWriter PROVE AuditInv'
<1> USE DEF AuditInv
<1>1. store' = store /\ Ids' = Ids /\ damaged' = damaged /\ open' = TRUE /\ observed' = observed
  BY DEF OpenWriter
<1>2. records' = <<>> /\ Len(<<>>) = 0 /\ tip_hash' = tip' /\ chain_seq' = next_seq'
  BY DEF OpenWriter
<1>3. StoreInv'
  BY <1>1 DEF StoreInv
<1>4. /\ tip' \in Hashes /\ next_seq' \in Nat /\ next_segment_id' \in Nat
      /\ \A i \in Ids : i < next_segment_id'
  <2>1. CASE Ids = {}
    BY <2>1 DEF OpenWriter, GENESIS, Hashes
  <2>2. CASE Ids # {}
    <3>1. LastId \in Ids /\ \A j \in Ids : j <= LastId
      BY <2>2, LastIdIsLast
    <3>2. Last(store[LastId]) \in ChainedRecords
      BY <3>1, RecordsTyped
    <3>3. /\ tip' = Last(store[LastId]).record_hash
          /\ next_seq' = Last(store[LastId]).record.seq + 1
          /\ next_segment_id' = LastId + 1
      BY <2>2 DEF OpenWriter
    <3> QED  BY <3>1, <3>2, <3>3 DEF ChainedRecords, Records, StoreInv
  <2> QED  BY <2>1, <2>2
<1>5. WriterInv'
  BY <1>1, <1>2, <1>4, FreshWriter DEF WriterInv
<1>6. ASSUME ~damaged PROVE
         /\ \A i \in Ids : (\A j \in Ids : j <= i) => tip' = Last(store[i]).record_hash
         /\ Covered(tip', OnDisk)
  <2>1. CASE Ids = {}
    <3>1. tip' = <<>> /\ Len(<<>>) = 0
      BY <2>1 DEF OpenWriter, GENESIS
    <3> QED  BY <2>1, <3>1 DEF Covered
  <2>2. CASE Ids # {}
    <3> DEFINE last == Last(store[LastId])
               len == Len(store[LastId].records)
    <3>1. LastId \in Ids /\ \A j \in Ids : j <= LastId
      BY <2>2, LastIdIsLast
    <3>2. tip' = last.record_hash
      BY <2>2 DEF OpenWriter
    <3>3. \A i \in Ids : (\A j \in Ids : j <= i) => i = LastId
      BY <3>1 DEF StoreInv
    <3>4. len \in 1..len /\ last = store[LastId].records[len] /\ last \in ChainedRecords
      BY <3>1, RecordsTyped DEF Last
    <3>5. last.record_hash = Hash(last.prev_hash, last.record)
      BY <1>6, <3>1, <3>4 DEF ChainInv, VerifyAll, Verifies
    <3>6. last \in OnDisk
      BY <3>1, <3>4 DEF OnDisk
    <3>7. Covered(last.prev_hash, OnDisk)
      BY <1>6, <3>6 DEF ChainInv
    <3>8. Covered(last.record_hash, OnDisk)
      BY <3>4, <3>5, <3>6, <3>7, RecordHashCovered
    <3> QED  BY <3>2, <3>3, <3>8
  <2> QED  BY <2>1, <2>2
<1>7. VerifyAll' = VerifyAll /\ OnDisk' = OnDisk
  BY <1>1 DEF VerifyAll, Adjacent, OnDisk
<1>8. Pending' = {}
  BY <1>2 DEF Pending
<1>9. ChainInv'
  BY <1>1, <1>6, <1>7, <1>8 DEF ChainInv
<1> QED  BY <1>3, <1>5, <1>9

LEMMA ObserveStep == ASSUME AuditInv, Observe PROVE AuditInv'
<1> USE DEF AuditInv
<1>1. /\ UNCHANGED <<store, open, tip, next_seq, next_segment_id, damaged>>
      /\ Ids' = Ids /\ open
      /\ records' = Append(records, NewRecord)
      /\ tip_hash' = NewRecord.record_hash /\ chain_seq' = chain_seq + 1
      /\ observed' = observed + 1
      /\ Len(records) + 1 < MaxRecordsPerSegment
  BY DEF Observe
<1>2. StoreInv'
  BY <1>1 DEF StoreInv
<1>3. WriterInv'
  <2>1. NewRecord.record_hash \in Hashes
    BY NewRecordContinues DEF ChainedRecords
  <2>2. Len(records) \in Nat /\ Len(records') = Len(records) + 1
    BY <1>1, NewRecordContinues, PendingTyped
  <2>3. tip_hash' = records'[Len(records')].record_hash
    BY <1>1, <2>2, NewRecordContinues
  <2> QED  BY <1>1, <2>1, <2>2, <2>3, NewRecordContinues DEF WriterInv
<1>4. Pending' = Pending \cup {NewRecord}
  BY <1>1, NewRecordContinues, PendingTyped DEF Pending
<1>5. VerifyAll' = VerifyAll /\ OnDisk' = OnDisk
  BY <1>1 DEF VerifyAll, Adjacent, OnDisk
<1>6. ASSUME ~damaged PROVE \A cr \in Pending' : Covered(cr.prev_hash, OnDisk \cup Pending')
  <2>1. OnDisk \cup Pending \subseteq OnDisk \cup Pending'
    BY <1>4
  <2>2. \A cr \in Pending : Covered(cr.prev_hash, OnDisk \cup Pending')
    BY <1>1, <1>6, <2>1, CoveredByMore DEF ChainInv
  <2>3. Covered(tip_hash, OnDisk \cup Pending')
    BY <1>1, <1>6, <2>1, TipCovered, CoveredByMore DEF ChainInv
  <2>4. NewRecord.prev_hash = tip_hash
    BY DEF NewRecord, Chained
  <2> QED  BY <1>4, <2>2, <2>3, <2>4
<1>7. ChainInv'
  BY <1>1, <1>5, <1>6 DEF ChainInv
<1> QED  BY <1>2, <1>3, <1>7

(* The record that fills the segment is the last the segment holds.        *)
LEMMA ObserveAndCloseStep == ASSUME AuditInv, ObserveAndClose PROVE AuditInv'
<1> USE DEF AuditInv
<1> DEFINE more == Append(records, NewRecord)
           M == {more[m] : m \in 1..Len(more)}
<1>1. open /\ open' = open /\ CloseWith(more) /\ observed' = observed + 1
  BY DEF ObserveAndClose
<1>2. observed' \in Nat
  BY <1>1 DEF WriterInv
<1>3. /\ Len(more) = Len(records) + 1 /\ Len(records) \in Nat
      /\ more \in Seq(ChainedRecords)
      /\ \A n \in 1..Len(records) : more[n] = records[n]
      /\ more[Len(records) + 1] = NewRecord
      /\ Linked(more, tip, next_seq)
  BY NewRecordContinues, PendingTyped
<1>4. Closing(more)
  BY <1>3 DEF Closing
<1>5. ASSUME ~damaged
      PROVE  \A n \in 1..Len(more) : Covered(more[n].prev_hash, OnDisk \cup M)
  <2>1. Pending \subseteq M
    BY <1>3 DEF Pending
  <2>2. OnDisk \cup Pending \subseteq OnDisk \cup M
    BY <2>1
  <2>3. \A cr \in Pending : Covered(cr.prev_hash, OnDisk \cup M)
    BY <1>1, <1>5, <2>2, CoveredByMore DEF ChainInv
  <2>4. Covered(tip_hash, OnDisk \cup M)
    BY <1>1, <1>5, <2>2, TipCovered, CoveredByMore DEF ChainInv
  <2>5. NewRecord.prev_hash = tip_hash
    BY DEF NewRecord, Chained
  <2> TAKE n \in 1..Len(more)
  <2>6. CASE n \in 1..Len(records)
    BY <1>3, <2>3, <2>6 DEF Pending
  <2>7. CASE n = Len(records) + 1
    BY <1>3, <2>4, <2>5, <2>7
  <2>8. n \in 1..Len(records) \/ n = Len(records) + 1
    <3> HIDE DEF more
    <3> QED  BY <1>3
  <2> QED  BY <2>6, <2>7, <2>8
<1>6. StoreInv'
  <2> HIDE DEF more
  <2> QED  BY <1>1, <1>4, CloseStoreStep
<1>7. WriterInv'
  <2> HIDE DEF more
  <2> QED  BY <1>1, <1>2, <1>4, CloseWriterStep
<1>8. ChainInv'
  BY <1>1, <1>4, <1>5, CloseChainStep
<1> QED  BY <1>6, <1>7, <1>8

LEMMA FlushStep == ASSUME AuditInv, Flush PROVE AuditInv'
<1> USE DEF AuditInv
<1>1. open /\ open' = open /\ CloseWith(records) /\ observed' = observed
  BY DEF Flush
<1>2. Closing(records) /\ observed' \in Nat
  BY <1>1 DEF Closing, Flush, WriterInv
<1>3. ASSUME ~damaged
      PROVE  \A n \in 1..Len(records) :
               Covered(records[n].prev_hash, OnDisk \cup {records[m] : m \in 1..Len(records)})
  BY <1>1, <1>3 DEF ChainInv, Pending
<1>4. StoreInv'
  BY <1>1, <1>2, CloseStoreStep
<1>5. WriterInv'
  BY <1>1, <1>2, CloseWriterStep
<1>6. ChainInv'
  BY <1>1, <1>2, <1>3, CloseChainStep
<1> QED  BY <1>4, <1>5, <1>6

LEMMA ExitStep == ASSUME AuditInv, Exit PROVE AuditInv'
<1> USE DEF AuditInv
<1>1. /\ store' = store /\ Ids' = Ids /\ damaged' = damaged /\ observed' = observed
      /\ open' = FALSE
  BY DEF Exit
<1>2. StoreInv'
  BY <1>1 DEF StoreInv
<1>3. WriterInv'
  <2>1. /\ records' = <<>> /\ tip_hash' = tip' /\ chain_seq' = next_seq'
        /\ tip' \in Hashes /\ next_seq' \in Nat /\ next_segment_id' \in Nat
    BY DEF Exit, GENESIS, Hashes
  <2> QED  BY <1>1, <2>1, FreshWriter DEF WriterInv
<1>4. VerifyAll' = VerifyAll /\ OnDisk' = OnDisk
  BY <1>1 DEF VerifyAll, Adjacent, OnDisk
<1>5. ChainInv'
  BY <1>1, <1>4 DEF ChainInv
<1> QED  BY <1>2, <1>3, <1>5

(* A redaction changes a flag, which the hashes stop agreeing with.        *)
LEMMA RedactStep ==
  ASSUME AuditInv, Redact
  PROVE  /\ AuditInv' /\ Ids' = Ids
         /\ \A i \in Ids :
              /\ store'[i].signed = store[i].signed
              /\ Len(store'[i].records) = Len(store[i].records)
              /\ \A n \in 1..Len(store[i].records) :
                   /\ store'[i].records[n].prev_hash = store[i].records[n].prev_hash
                   /\ store'[i].records[n].record_hash = store[i].records[n].record_hash
                   /\ store'[i].records[n].record.what = store[i].records[n].record.what
<1> USE DEF AuditInv
<1>a. PICK i \in Ids : \E n \in 1..Len(store[i].records) :
        store' = [store EXCEPT ![i].records[n].record.redacted = TRUE]
  BY DEF Redact
<1>1. PICK n \in 1..Len(store[i].records) :
        store' = [store EXCEPT ![i].records[n].record.redacted = TRUE]
  BY <1>a
<1>2. UNCHANGED <<open, records, tip_hash, chain_seq, tip, next_seq, next_segment_id, observed>>
      /\ damaged' = TRUE
  BY DEF Redact, writer, inner
<1> DEFINE was == store[i].records[n]
           rec == [was EXCEPT !.record.redacted = TRUE]
           recs == [store[i].records EXCEPT ![n] = rec]
           seg == [store[i] EXCEPT !.records = recs]
<1>3. Ids' = Ids /\ store' = [store EXCEPT ![i] = seg]
  BY <1>1 DEF StoreInv
<1>4. was \in ChainedRecords /\ store[i].records \in Seq(ChainedRecords)
  BY <1>1, RecordsTyped
<1>5. rec \in ChainedRecords
      /\ rec.prev_hash = was.prev_hash /\ rec.record_hash = was.record_hash
      /\ rec.record.what = was.record.what
  BY <1>4 DEF ChainedRecords, Records
<1>6. recs \in Seq(ChainedRecords) /\ Len(recs) = Len(store[i].records)
      /\ \A m \in 1..Len(recs) : recs[m] = IF m = n THEN rec ELSE store[i].records[m]
  BY <1>4, <1>5
<1>7. seg \in Segments /\ seg.records = recs /\ seg.signed = store[i].signed
  BY <1>6 DEF StoreInv, Segments
<1>8. recs # <<>>
  BY <1>6, RecordsTyped
<1>9. \A j \in Ids : store'[j] = IF j = i THEN seg ELSE store[j]
  BY <1>3 DEF StoreInv
<1>10. StoreInv'
  <2>1. store' \in [Ids' -> Segments]
    BY <1>3, <1>7 DEF StoreInv
  <2>2. \A j \in Ids' : store'[j].records # <<>>
    BY <1>3, <1>7, <1>8, <1>9 DEF StoreInv
  <2> QED  BY <1>2, <1>3, <2>1, <2>2 DEF StoreInv
<1>11. WriterInv'
  BY <1>2, <1>3 DEF WriterInv, Linked
<1>12. ChainInv'
  BY <1>2 DEF ChainInv
<1>13. ASSUME NEW j \in Ids
       PROVE  /\ store'[j].signed = store[j].signed
              /\ Len(store'[j].records) = Len(store[j].records)
              /\ \A m \in 1..Len(store[j].records) :
                   /\ store'[j].records[m].prev_hash = store[j].records[m].prev_hash
                   /\ store'[j].records[m].record_hash = store[j].records[m].record_hash
                   /\ store'[j].records[m].record.what = store[j].records[m].record.what
  <2>1. CASE j = i
    <3>1. store'[j] = seg /\ store[j] = store[i]
      BY <1>9, <2>1
    <3> HIDE DEF seg
    <3>2. store'[j].records = recs /\ store'[j].signed = store[j].signed
      BY <1>7, <3>1
    <3> HIDE DEF recs
    <3>3. \A m \in 1..Len(recs) :
            /\ recs[m].prev_hash = store[i].records[m].prev_hash
            /\ recs[m].record_hash = store[i].records[m].record_hash
            /\ recs[m].record.what = store[i].records[m].record.what
      <4> HIDE DEF rec
      <4> QED  BY <1>5, <1>6
    <3> QED  BY <1>6, <3>1, <3>2, <3>3
  <2>2. CASE j # i
    BY <1>9, <2>2
  <2> QED  BY <2>1, <2>2
<1> QED  BY <1>3, <1>10, <1>11, <1>12, <1>13

LEMMA AuditUnchanged ==
  ASSUME AuditInv, OpenWriterFails \/ UNCHANGED avars PROVE AuditInv'
<1> USE DEF AuditInv
<1>1. UNCHANGED <<store, open, records, tip_hash, chain_seq, tip, next_seq, next_segment_id,
                  observed, damaged>> /\ Ids' = Ids
  BY DEF OpenWriterFails, avars, writer, inner
<1>2. VerifyAll' = VerifyAll /\ OnDisk' = OnDisk /\ Pending' = Pending
  BY <1>1 DEF VerifyAll, Adjacent, OnDisk, Pending
<1>3. StoreInv'
  BY <1>1 DEF StoreInv
<1>4. WriterInv'
  BY <1>1 DEF WriterInv, Linked
<1>5. ChainInv'
  BY <1>1, <1>2 DEF ChainInv
<1> QED  BY <1>3, <1>4, <1>5

-----------------------------------------------------------------------------
(* AuditInv holds in every state of every behaviour of the audit trail.    *)
THEOREM AuditInvariant == AuditSpec => []AuditInv
<1>1. AuditInv /\ [AuditNext]_avars => AuditInv'
  <2> SUFFICES ASSUME AuditInv, [AuditNext]_avars PROVE AuditInv'
    OBVIOUS
  <2>1. CASE OpenWriter       BY <2>1, OpenStep
  <2>2. CASE Observe          BY <2>2, ObserveStep
  <2>3. CASE ObserveAndClose  BY <2>3, ObserveAndCloseStep
  <2>4. CASE Flush            BY <2>4, FlushStep
  <2>5. CASE Exit             BY <2>5, ExitStep
  <2>6. CASE Redact           BY <2>6, RedactStep
  <2>7. CASE OpenWriterFails \/ UNCHANGED avars
    BY <2>7, AuditUnchanged
  <2> QED  BY <2>1, <2>2, <2>3, <2>4, <2>5, <2>6, <2>7 DEF AuditNext
<1> QED  BY AuditInitially, <1>1, PTL DEF AuditSpec

(* However the process ends, less than one segment of commitments is lost. *)
THEOREM CrashLosesLessThanASegment == AuditSpec => []LossIsBounded
<1>1. AuditInv => LossIsBounded
  BY DEF AuditInv, WriterInv, LossIsBounded
<1> QED  BY <1>1, AuditInvariant, PTL

(* While no segment write has failed and nothing was redacted, the chain   *)
(* on disk verifies and reaches back to the genesis hash without a gap.    *)
THEOREM UndamagedChainVerifies == AuditSpec => []IntactIsVerifiable
<1>1. AuditInv => IntactIsVerifiable
  BY DEF AuditInv, ChainInv, Covered, IntactIsVerifiable
<1> QED  BY <1>1, AuditInvariant, PTL

(* No step of the writer replaces or removes a segment that is stored.     *)
THEOREM StoredSegmentsAreFinal == AuditSpec => SegmentsAreFinal
<1> DEFINE Final ==
      \A i \in Ids :
        /\ i \in Ids' /\ store'[i].signed = store[i].signed
        /\ Len(store'[i].records) = Len(store[i].records)
        /\ \A n \in 1..Len(store[i].records) :
             /\ store'[i].records[n].prev_hash = store[i].records[n].prev_hash
             /\ store'[i].records[n].record_hash = store[i].records[n].record_hash
<1>1. ASSUME AuditInv, AuditNext PROVE Final
  <2>1. CASE store' = store
    BY <2>1
  <2>2. ASSUME NEW recs, open, CloseWith(recs) PROVE Final
    <3>1. CASE Written(recs)
      <4>1. \A i \in Ids : i # next_segment_id
        BY <1>1, <2>2 DEF AuditInv, StoreInv, WriterInv
      <4>2. \A i \in Ids : i \in Ids' /\ store'[i] = store[i]
        BY <3>1, <4>1 DEF Written
      <4> QED  BY <4>2
    <3> QED  BY <2>1, <2>2, <3>1, CloseWithIs
  <2>3. CASE Redact
    BY <1>1, <2>3, RedactStep
  <2>4. CASE OpenWriter \/ OpenWriterFails \/ Observe \/ Exit
    BY <2>1, <2>4 DEF OpenWriter, OpenWriterFails, Observe, Exit
  <2>5. CASE ObserveAndClose \/ Flush
    BY <2>2, <2>5 DEF ObserveAndClose, Flush
  <2> QED  BY <1>1, <2>3, <2>4, <2>5 DEF AuditNext
<1>2. AuditInv /\ [AuditNext]_avars => [Final]_avars
  BY <1>1
<1> QED  BY <1>2, AuditInvariant, PTL DEF AuditSpec, SegmentsAreFinal

-----------------------------------------------------------------------------
(* Refinement of AuditTrail.                                               *)
Whats(S) == {cr.record.what : cr \in S}

(* Commitments are handed out in order.                                    *)
WhatInv == \A c \in Whats(OnDisk) \cup Whats(Pending) : c < observed

(* What each operation does to the disk and to the pending records.        *)
LEMMA ClosedOnDisk ==
  ASSUME AuditInv, open, NEW recs, Closing(recs), CloseWith(recs)
  PROVE  /\ OnDisk' = OnDisk \cup {recs[n] : n \in 1..Len(recs)} \/ OnDisk' = OnDisk
         /\ Pending' = {}
<1>1. Pending' = {}
  <2>1. records' = <<>> /\ Len(<<>>) = 0
    BY CloseWithIs
  <2> QED  BY <2>1 DEF Pending
<1>2. ASSUME Written(recs)
      PROVE  OnDisk' = OnDisk \cup {recs[n] : n \in 1..Len(recs)}
  <2>1. StoreInv /\ WriterInv
    BY DEF AuditInv
  <2> QED  BY <1>2, <2>1, OnDiskGrows
<1>3. ASSUME store' = store PROVE OnDisk' = OnDisk
  <2>1. store' = store /\ Ids' = Ids
    BY <1>3
  <2> QED  BY <2>1 DEF OnDisk
<1>4. Written(recs) \/ store' = store
  BY CloseWithIs
<1> QED  BY <1>1, <1>2, <1>3, <1>4

LEMMA ObserveAndCloseOnDisk ==
  ASSUME AuditInv, ObserveAndClose
  PROVE  /\ OnDisk' = OnDisk \cup Pending \cup {NewRecord} \/ OnDisk' = OnDisk
         /\ Pending' = {}
<1> DEFINE more == Append(records, NewRecord)
<1>1. open /\ CloseWith(more)
  BY DEF ObserveAndClose
<1>2. /\ Len(more) = Len(records) + 1 /\ Len(records) \in Nat
      /\ more \in Seq(ChainedRecords)
      /\ \A n \in 1..Len(records) : more[n] = records[n]
      /\ more[Len(records) + 1] = NewRecord
      /\ Linked(more, tip, next_seq)
  BY NewRecordContinues, PendingTyped DEF AuditInv
<1>3. Closing(more)
  BY <1>2 DEF Closing
<1> HIDE DEF more
<1>4. {more[n] : n \in 1..Len(more)} = Pending \cup {NewRecord}
  BY <1>2 DEF Pending
<1> QED  BY <1>1, <1>3, <1>4, ClosedOnDisk

LEMMA FlushOnDisk ==
  ASSUME AuditInv, Flush
  PROVE  (OnDisk' = OnDisk \cup Pending \/ OnDisk' = OnDisk) /\ Pending' = {}
<1>1. open /\ CloseWith(records)
  BY DEF Flush
<1>2. Closing(records)
  BY DEF Flush, Closing, AuditInv, WriterInv
<1>3. Pending = {records[n] : n \in 1..Len(records)}
  BY DEF Pending
<1> QED  BY <1>1, <1>2, <1>3, ClosedOnDisk

LEMMA ObserveOnDisk ==
  ASSUME AuditInv, Observe
  PROVE  OnDisk' = OnDisk /\ Pending' = Pending \cup {NewRecord}
<1>1. store' = store /\ records' = Append(records, NewRecord)
  BY DEF Observe
<1>2. OnDisk' = OnDisk
  BY <1>1 DEF OnDisk
<1>3. Pending' = Pending \cup {NewRecord}
  BY <1>1, NewRecordContinues, PendingTyped DEF Pending, AuditInv
<1> QED  BY <1>2, <1>3

LEMMA OpenOnDisk ==
  ASSUME AuditInv, OpenWriter PROVE OnDisk' = OnDisk /\ Pending' = {} /\ Pending = {}
<1>1. store' = store /\ records' = <<>> /\ Len(<<>>) = 0
  BY DEF OpenWriter
<1>2. records = <<>>
  BY DEF OpenWriter, AuditInv, WriterInv
<1> QED  BY <1>1, <1>2 DEF OnDisk, Pending

LEMMA ExitOnDisk == ASSUME Exit PROVE OnDisk' = OnDisk /\ Pending' = {}
<1>1. store' = store /\ records' = <<>> /\ Len(<<>>) = 0
  BY DEF Exit
<1> QED  BY <1>1 DEF OnDisk, Pending

LEMMA RedactOnDisk ==
  ASSUME AuditInv, Redact PROVE Whats(OnDisk') = Whats(OnDisk) /\ Pending' = Pending
<1>1. Pending' = Pending
  BY DEF Redact, writer, inner, Pending
<1>2. /\ Ids' = Ids
      /\ \A i \in Ids :
           /\ Len(store'[i].records) = Len(store[i].records)
           /\ \A n \in 1..Len(store[i].records) :
                store'[i].records[n].record.what = store[i].records[n].record.what
  BY RedactStep
<1>3. ASSUME NEW c \in Whats(OnDisk') PROVE c \in Whats(OnDisk)
  <2>1. PICK i \in Ids : \E n \in 1..Len(store[i].records) : c = store[i].records[n].record.what
    BY <1>2, <1>3 DEF Whats, OnDisk
  <2> QED  BY <2>1 DEF Whats, OnDisk
<1>4. ASSUME NEW c \in Whats(OnDisk) PROVE c \in Whats(OnDisk')
  <2>1. PICK i \in Ids : \E n \in 1..Len(store'[i].records) : c = store'[i].records[n].record.what
    BY <1>2, <1>4 DEF Whats, OnDisk
  <2> QED  BY <1>2, <2>1 DEF Whats, OnDisk
<1> QED  BY <1>1, <1>3, <1>4

LEMMA NewRecordIsObserved == NewRecord.record.what = observed
  BY DEF NewRecord, Chained

(* Every operation keeps the order, and does what AuditTrail allows.       *)
LEMMA TrailStep ==
  ASSUME AuditInv, WhatInv, [AuditNext]_avars
  PROVE  WhatInv' /\ [Trail!Next]_(Trail!trail)
<1> DEFINE P == Whats(OnDisk)   B == Whats(Pending)
<1>1. \A c \in P \cup B : c < observed
  BY DEF WhatInv
<1>2. observed \in Nat
  BY DEF AuditInv, WriterInv
<1>w. ASSUME NEW S, NEW T PROVE Whats(S \cup T) = Whats(S) \cup Whats(T)
  BY DEF Whats
<1>n. Whats({NewRecord}) = {observed} /\ Whats({}) = {}
  BY NewRecordIsObserved DEF Whats
<1>o. \A c \in P \cup B \cup {observed} : c < observed + 1
  <2>1. \A c \in P \cup B : c \in Nat
    <3>1. \A cr \in OnDisk : cr \in ChainedRecords
      BY RecordsTyped DEF AuditInv, OnDisk
    <3>2. \A cr \in Pending : cr \in ChainedRecords
      BY PendingTyped DEF AuditInv, Pending
    <3> QED  BY <3>1, <3>2 DEF Whats, ChainedRecords, Records
  <2> HIDE DEF P, B
  <2> QED  BY <1>1, <1>2, <2>1
<1>t. /\ Trail!Next <=>
            \/ \E c \in 0..(MaxObserved - 1) :
                 (\A d \in P \cup B : d < c) /\ Whats(Pending') = B \cup {c} /\ Whats(OnDisk') = P
            \/ \E c \in 0..(MaxObserved - 1) :
                 (\A d \in P \cup B : d < c) /\ Whats(OnDisk') = P \cup B \cup {c}
                 /\ Whats(Pending') = {}
            \/ Whats(OnDisk') = P \cup B /\ Whats(Pending') = {}
            \/ Whats(Pending') = {} /\ Whats(OnDisk') = P
      /\ UNCHANGED Trail!trail <=> Whats(OnDisk') = P /\ Whats(Pending') = B
  BY DEF Trail!Next, Trail!Observe, Trail!ObserveAndPersist, Trail!Persist, Trail!Lose,
         Trail!Latest, Trail!trail, Whats
<1>m. (Observe \/ ObserveAndClose) => observed \in 0..(MaxObserved - 1) /\ observed' = observed + 1
  BY <1>2, AuditBounds DEF Observe, ObserveAndClose
<1> HIDE DEF P, B
<1>3. CASE Observe
  BY <1>3, <1>1, <1>o, <1>m, <1>n, <1>t, <1>w, ObserveOnDisk DEF P, B, WhatInv
<1>4. CASE ObserveAndClose
  <2>1. Whats(Pending') = {} /\ observed' = observed + 1 /\ observed \in 0..(MaxObserved - 1)
    BY <1>4, <1>m, <1>n, ObserveAndCloseOnDisk
  <2>2. Whats(OnDisk') = P \cup B \cup {observed} \/ Whats(OnDisk') = P
    <3>1. Whats(OnDisk \cup Pending \cup {NewRecord}) = P \cup B \cup {observed}
      <4>1. Whats(OnDisk \cup Pending) = P \cup B
        BY <1>w DEF P, B
      <4> QED  BY <4>1, <1>n, <1>w
    <3> QED  BY <1>4, <3>1, ObserveAndCloseOnDisk DEF P
  <2>3. WhatInv'
    BY <1>o, <2>1, <2>2 DEF WhatInv
  <2>4. Trail!Next
    BY <1>1, <1>t, <2>1, <2>2
  <2> QED  BY <2>3, <2>4
<1>5. CASE Flush
  <2>1. observed' = observed
    BY <1>5 DEF Flush
  <2> QED  BY <1>5, <1>1, <1>n, <1>t, <1>w, <2>1, FlushOnDisk DEF P, B, WhatInv
<1>6. CASE OpenWriter
  <2>1. observed' = observed
    BY <1>6 DEF OpenWriter
  <2> QED  BY <1>6, <1>1, <1>n, <1>t, <2>1, OpenOnDisk DEF P, B, WhatInv
<1>7. CASE Exit
  <2>1. observed' = observed
    BY <1>7 DEF Exit
  <2> QED  BY <1>7, <1>1, <1>n, <1>t, <2>1, ExitOnDisk DEF P, B, WhatInv
<1>8. CASE Redact
  <2>1. observed' = observed
    BY <1>8 DEF Redact
  <2> QED  BY <1>8, <1>1, <1>t, <2>1, RedactOnDisk DEF P, B, WhatInv
<1>9. CASE OpenWriterFails \/ UNCHANGED avars
  <2>1. OnDisk' = OnDisk /\ Pending' = Pending /\ observed' = observed
    BY <1>9 DEF OpenWriterFails, avars, writer, inner, OnDisk, Pending
  <2> QED  BY <1>1, <1>t, <2>1 DEF P, B, WhatInv
<1> QED  BY <1>3, <1>4, <1>5, <1>6, <1>7, <1>8, <1>9 DEF AuditNext

(* Whatever is observed, with failed writes, crashes and redactions, a     *)
(* segment's commitments reach the disk together or not at all, and what   *)
(* is on the disk stays there.                                             *)
THEOREM ChainImplementsTrail == AuditSpec => ImplementsTrail
<1>1. AuditInit => WhatInv /\ Trail!Init
  <2> SUFFICES ASSUME AuditInit PROVE WhatInv /\ Trail!Init
    OBVIOUS
  <2>1. store = <<>> /\ Ids = {} /\ records = <<>> /\ Len(<<>>) = 0
    BY DEF AuditInit
  <2>2. OnDisk = {} /\ Pending = {}
    BY <2>1 DEF OnDisk, Pending
  <2> QED  BY <2>2 DEF WhatInv, Whats, Trail!Init
<1>2. AuditInv /\ WhatInv /\ [AuditNext]_avars => WhatInv' /\ [Trail!Next]_(Trail!trail)
  BY TrailStep
<1> QED  BY <1>1, <1>2, AuditInvariant, PTL DEF AuditSpec, ImplementsTrail, Trail!Spec

-----------------------------------------------------------------------------
(* What verify_all accepts has no hole.                                    *)
LEMMA LeastExists ==
  ASSUME NEW S \in SUBSET Nat, S # {}
  PROVE  \E s \in S : \A t \in S : s <= t
<1>1. \E s \in S : \A t \in S : ~(<<t, s>> \in OpToRel(<, Nat))
  BY NatLessThanWellFounded, WFMin, Zenon
<1>2. PICK s \in S : \A t \in S : ~(<<t, s>> \in OpToRel(<, Nat))
  BY <1>1
<1>3. \A t \in S : s <= t
  <2> TAKE t \in S
  <2>1. <<t, s>> \in Nat \X Nat => ~(t < s)
    BY <1>2, Zenon DEF OpToRel
  <2> QED  BY <2>1
<1> QED  BY <1>3

(* A segment that is not the first has one before it.                      *)
LEMMA PredecessorExists ==
  ASSUME StoreInv, NEW j \in Ids, NEW i0 \in Ids, i0 < j
  PROVE  \E i \in Ids : Adjacent(i, j)
<1> DEFINE D == {d \in Nat : \E i \in Ids : i < j /\ d = j - i}
<1>0. j \in Nat /\ i0 \in Nat /\ \A i \in Ids : i \in Nat
  BY DEF StoreInv
<1>1. D \in SUBSET Nat /\ j - i0 \in D
  BY <1>0
<1> HIDE DEF D
<1>2. PICK d \in D : \A e \in D : d <= e
  BY <1>1, LeastExists
<1> USE DEF D
<1>3. PICK i \in Ids : i < j /\ d = j - i
  BY <1>2
<1>4. ASSUME NEW k \in Ids, k < j PROVE k <= i
  <2>1. j - k \in D
    BY <1>0, <1>4
  <2>2. d <= j - k
    BY <1>2, <2>1
  <2> QED  BY <1>0, <1>3, <2>2
<1>5. \A k \in Ids : k <= i \/ j <= k
  BY <1>0, <1>4
<1> QED  BY <1>3, <1>5 DEF Adjacent

(* A record either has the anchor of the whole chain, or continues another *)
(* one, which is on disk.                                                  *)
LEMMA Continues ==
  ASSUME StoreInv, VerifyAll, NEW cr \in OnDisk
  PROVE  \/ cr.prev_hash = First(store[FirstId]).prev_hash
         \/ \E d \in OnDisk : d.record_hash = Hash(d.prev_hash, d.record) /\ cr.prev_hash = d.record_hash
<1>1. PICK j \in Ids : \E n \in 1..Len(store[j].records) : cr = store[j].records[n]
  BY DEF OnDisk
<1>2. PICK n \in 1..Len(store[j].records) : cr = store[j].records[n]
  BY <1>1
<1>3. \A i \in Ids : Verifies(store[i]) /\ Len(store[i].records) \in Nat \ {0}
  BY RecordsTyped DEF VerifyAll
<1>4. \A i \in Ids, m \in Nat : m \in 1..Len(store[i].records) =>
        /\ store[i].records[m] \in OnDisk
        /\ store[i].records[m].record_hash
             = Hash(store[i].records[m].prev_hash, store[i].records[m].record)
  <2> SUFFICES ASSUME NEW i \in Ids, NEW m \in 1..Len(store[i].records)
               PROVE  /\ store[i].records[m] \in OnDisk
                      /\ store[i].records[m].record_hash
                           = Hash(store[i].records[m].prev_hash, store[i].records[m].record)
    OBVIOUS
  <2>1. store[i].records[m] \in OnDisk
    BY DEF OnDisk
  <2>2. Verifies(store[i])
    BY <1>3
  <2> QED  BY <2>1, <2>2 DEF Verifies
<1>5. CASE n # 1
  <2>1. n \in Nat /\ n - 1 \in Nat /\ n - 1 \in 1..Len(store[j].records) /\ n > 1
    BY <1>3, <1>5
  <2>2. cr.prev_hash = store[j].records[n - 1].record_hash
    BY <1>2, <1>3, <2>1 DEF Verifies
  <2> QED  BY <1>4, <2>1, <2>2
<1>6. CASE n = 1
  <2>0. cr = First(store[j])
    BY <1>2, <1>6 DEF First
  <2>1. CASE \A i \in Ids : j <= i
    <3>1. FirstId \in Ids /\ \A i \in Ids : FirstId <= i
      BY <2>1 DEF FirstId
    <3>2. FirstId = j
      BY <2>1, <3>1 DEF StoreInv
    <3> QED  BY <2>0, <3>2
  <2>2. CASE \E i \in Ids : ~(j <= i)
    <3>1. PICK i0 \in Ids : i0 < j
      BY <2>2 DEF StoreInv
    <3>2. PICK i \in Ids : Adjacent(i, j)
      BY <3>1, PredecessorExists
    <3>3. First(store[j]).prev_hash = Last(store[i]).record_hash
      BY <3>2 DEF VerifyAll
    <3>4. Len(store[i].records) \in Nat /\ Len(store[i].records) \in 1..Len(store[i].records)
      BY <1>3
    <3> QED  BY <1>4, <2>0, <3>3, <3>4 DEF Last
  <2> QED  BY <2>1, <2>2
<1> QED  BY <1>5, <1>6

(* A chain that verify_all accepts is complete from its anchor on, though  *)
(* segments failed to be written, were lost or redacted: of the records    *)
(* with a hole before them, take one with the shortest hash.               *)
LEMMA NoHoles == StoreInv => VerifiedIsComplete
<1> SUFFICES ASSUME StoreInv, VerifyAll
             PROVE  \A cr \in OnDisk : \A k \in 1..Len(cr.prev_hash) :
                      k > Len(First(store[FirstId]).prev_hash) =>
                        \E d \in OnDisk : d.record = cr.prev_hash[k]
  BY DEF VerifiedIsComplete
<1> DEFINE B == Len(First(store[FirstId]).prev_hash)
           Whole(cr) == \A k \in 1..Len(cr.prev_hash) :
                          k > B => \E d \in OnDisk : d.record = cr.prev_hash[k]
           Lengths == {m \in Nat : \E cr \in OnDisk : ~Whole(cr) /\ Len(cr.prev_hash) = m}
<1>1. \A cr \in OnDisk : cr \in ChainedRecords
  BY RecordsTyped DEF OnDisk
<1>2. SUFFICES ASSUME NEW bad \in OnDisk, ~Whole(bad) PROVE FALSE
  OBVIOUS
<1>3. Lengths \in SUBSET Nat /\ Len(bad.prev_hash) \in Lengths
  BY <1>1, <1>2 DEF ChainedRecords, Hashes
<1> HIDE DEF Lengths
<1>4. PICK m \in Lengths : \A l \in Lengths : m <= l
  BY <1>3, LeastExists
<1> USE DEF Lengths
<1>5. PICK cr \in OnDisk : ~Whole(cr) /\ Len(cr.prev_hash) = m
  BY <1>4
<1>6. CASE cr.prev_hash = First(store[FirstId]).prev_hash
  BY <1>5, <1>6
<1>7. ASSUME NEW d \in OnDisk, d.record_hash = Hash(d.prev_hash, d.record),
             cr.prev_hash = d.record_hash
      PROVE  FALSE
  <2>1. /\ d.prev_hash \in Seq(Records) /\ cr.prev_hash = Append(d.prev_hash, d.record)
        /\ Len(d.prev_hash) \in Nat
    BY <1>1, <1>7 DEF ChainedRecords, Hashes, Hash
  <2>2. /\ Len(cr.prev_hash) = Len(d.prev_hash) + 1
        /\ cr.prev_hash[Len(d.prev_hash) + 1] = d.record
        /\ \A k \in 1..Len(d.prev_hash) : cr.prev_hash[k] = d.prev_hash[k]
    BY <2>1
  <2>3. Whole(d)
    <3>1. Len(d.prev_hash) \notin Lengths
      <4> HIDE DEF Lengths
      <4> QED  BY <1>4, <1>5, <2>1, <2>2
    <3> QED  BY <2>1, <3>1
  <2>4. ASSUME NEW k \in 1..Len(cr.prev_hash), k > B
        PROVE  \E e \in OnDisk : e.record = cr.prev_hash[k]
    <3>1. CASE k = Len(d.prev_hash) + 1
      BY <2>2, <3>1
    <3>2. CASE k # Len(d.prev_hash) + 1
      <4>1. k \in 1..Len(d.prev_hash)
        BY <2>1, <2>2, <3>2
      <4> QED  BY <2>2, <2>3, <2>4, <4>1
    <3> QED  BY <3>1, <3>2
  <2> QED  BY <1>5, <2>4
<1> QED  BY <1>6, <1>7, Continues

(* verify_all is sound although every segment names its own anchor.        *)
THEOREM VerifiedChainsAreComplete == AuditSpec => []VerifiedIsComplete
<1>1. AuditInv => VerifiedIsComplete
  BY NoHoles DEF AuditInv
<1> QED  BY <1>1, AuditInvariant, PTL

-----------------------------------------------------------------------------
(* The command leaves the audit trail to the daemon.                       *)
THEOREM VerifyImplementsAudit == VerifySpec => AuditSpec
<1>1. VerifyInit => AuditInit
  BY DEF VerifyInit
<1>2. [VerifyNext]_vvars => [AuditNext]_avars
  BY DEF VerifyNext, vvars
<1> QED  BY <1>1, <1>2, PTL DEF VerifySpec, AuditSpec

-----------------------------------------------------------------------------
USE SegmentSize, Switches DEF Ids

(* Between two reads: the segments that were there stay as they are except *)
(* for redactions, and new ones come after them.                           *)
LEMMA ClosingGrows ==
  ASSUME AuditInv, open, NEW recs, CloseWith(recs)
  PROVE  /\ \A i \in Ids : i \in Ids' /\ store'[i] = store[i]
         /\ \A k \in Ids' : k \in Ids \/ \A j \in Ids : j < k
         /\ Ids' \in SUBSET Nat
         /\ damaged => damaged'
<1>1. /\ \A i \in Ids : i # next_segment_id /\ i < next_segment_id
      /\ Ids \in SUBSET Nat /\ next_segment_id \in Nat
  BY DEF AuditInv, StoreInv, WriterInv
<1>2. CASE Written(recs)
  BY <1>1, <1>2 DEF Written
<1>3. CASE store' = store /\ damaged' = TRUE
  BY <1>1, <1>3
<1> QED  BY <1>2, <1>3, CloseWithIs

(* A step of the audit trail other than a redaction.                       *)
LEMMA TrailGrows ==
  ASSUME AuditInv, [AuditNext]_avars, ~Redact
  PROVE  /\ \A i \in Ids : i \in Ids' /\ store'[i] = store[i]
         /\ \A k \in Ids' : k \in Ids \/ \A j \in Ids : j < k
         /\ Ids' \in SUBSET Nat
         /\ damaged => damaged'
<1>1. CASE ObserveAndClose \/ Flush
  BY <1>1, ClosingGrows DEF ObserveAndClose, Flush
<1>2. CASE OpenWriter \/ OpenWriterFails \/ Observe \/ Exit \/ UNCHANGED avars
  <2>1. store' = store /\ damaged' = damaged
    BY <1>2 DEF OpenWriter, OpenWriterFails, Observe, Exit, avars
  <2> QED  BY <2>1 DEF AuditInv, StoreInv
<1> QED  BY <1>1, <1>2 DEF AuditNext

(* Of the hashes of the first and the last record only the records' places *)
(* matter, which a redaction leaves alone.                                 *)
LEMMA EndsAreFinal ==
  ASSUME AuditInv, [AuditNext]_avars
  PROVE  \A i \in Ids :
           /\ i \in Ids'
           /\ First(store'[i]).prev_hash = First(store[i]).prev_hash
           /\ Last(store'[i]).record_hash = Last(store[i]).record_hash
<1>1. CASE Redact
  <2> SUFFICES ASSUME NEW i \in Ids
               PROVE  /\ i \in Ids'
                      /\ First(store'[i]).prev_hash = First(store[i]).prev_hash
                      /\ Last(store'[i]).record_hash = Last(store[i]).record_hash
    OBVIOUS
  <2>1. Len(store[i].records) \in Nat \ {0}
    BY RecordsTyped DEF AuditInv
  <2>2. 1 \in 1..Len(store[i].records) /\ Len(store[i].records) \in 1..Len(store[i].records)
    BY <2>1
  <2> QED  BY <1>1, <2>2, RedactStep DEF First, Last
<1>2. CASE ~Redact
  BY <1>2, TrailGrows
<1> QED  BY <1>1, <1>2

LEMMA IdsGrow ==
  ASSUME AuditInv, [AuditNext]_avars
  PROVE  Ids' \in SUBSET Nat /\ \A k \in Ids' : k \in Ids \/ \A j \in Ids : j < k
<1>1. CASE Redact   BY <1>1, RedactStep DEF AuditInv, StoreInv
<1>2. CASE ~Redact  BY <1>2, TrailGrows
<1> QED  BY <1>1, <1>2

-----------------------------------------------------------------------------
(* Where verify_all stands: no id that it has not listed lies between the  *)
(* last segment it read and those it has yet to read.                      *)
Beyond(k) == k \in unread \/ \A i \in unread : i < k

ReaderInv ==
  /\ unread \in SUBSET Ids
  /\ at = "reading" =>
       \/ prev_tip = {} /\ \A k \in Ids : Beyond(k)
       \/ \E a \in Ids :
            /\ prev_tip = {Last(store[a]).record_hash}
            /\ \A i \in unread : a < i
            /\ \A k \in Ids : k <= a \/ Beyond(k)

LEMMA ReaderInitially == VerifyInit => ReaderInv /\ FailIsRight
  BY DEF VerifyInit, AuditInit, ReaderInv, FailIsRight

(* The daemon does not disturb a reader. *)
LEMMA ReaderBesideDaemon ==
  ASSUME AuditInv, ReaderInv, [AuditNext]_avars, UNCHANGED cli
  PROVE  ReaderInv'
<1>1. unread' = unread /\ prev_tip' = prev_tip /\ at' = at
  BY DEF cli
<1>2. \A i \in Ids : i \in Ids' /\ Last(store'[i]).record_hash = Last(store[i]).record_hash
  BY EndsAreFinal
<1>3. \A k \in Ids' : k \in Ids \/ \A i \in unread : i < k
  BY IdsGrow DEF ReaderInv
<1>4. \A k : Beyond(k)' = Beyond(k)
  BY <1>1 DEF Beyond
<1>5. \A k \in Ids' : k \in Ids \/ Beyond(k)
  BY <1>3 DEF Beyond
<1>6. unread' \in SUBSET Ids'
  BY <1>1, <1>2 DEF ReaderInv
<1>7. ASSUME at = "reading", prev_tip = {}, \A k \in Ids : Beyond(k)
      PROVE  \A k \in Ids' : Beyond(k)'
  BY <1>4, <1>5, <1>7
<1>8. ASSUME NEW a \in Ids, prev_tip = {Last(store[a]).record_hash},
             \A i \in unread : a < i, \A k \in Ids : k <= a \/ Beyond(k)
      PROVE  /\ a \in Ids' /\ prev_tip' = {Last(store'[a]).record_hash}
             /\ \A i \in unread' : a < i
             /\ \A k \in Ids' : k <= a \/ Beyond(k)'
  BY <1>1, <1>2, <1>4, <1>5, <1>8
<1> QED  BY <1>1, <1>6, <1>7, <1>8 DEF ReaderInv, Last

(* The next segment anchors to the one read before, unless there is a      *)
(* break: the two are adjacent.                                            *)
LEMMA NextIsAdjacent ==
  ASSUME AuditInv, ReaderInv, at = "reading", NEW i \in unread, \A j \in unread : i <= j
  PROVE  /\ i \in Ids
         /\ \/ prev_tip = {} /\ \A k \in Ids : i <= k
            \/ \E a \in Ids : Adjacent(a, i) /\ prev_tip = {Last(store[a]).record_hash}
<1>1. i \in Ids /\ Ids \in SUBSET Nat
  BY DEF ReaderInv, AuditInv, StoreInv
<1>2. \A k \in Ids : Beyond(k) => i <= k
  BY <1>1 DEF Beyond
<1>3. CASE prev_tip = {} /\ \A k \in Ids : Beyond(k)
  BY <1>1, <1>2, <1>3
<1>4. ASSUME NEW a \in Ids, prev_tip = {Last(store[a]).record_hash},
             \A j \in unread : a < j, \A k \in Ids : k <= a \/ Beyond(k)
      PROVE  Adjacent(a, i)
  BY <1>1, <1>2, <1>4 DEF Adjacent
<1> QED  BY <1>1, <1>3, <1>4 DEF ReaderInv

(* What a chain that verifies looks like to the reader. *)
LEMMA SoundIsRead ==
  ASSUME AuditInv, ReaderInv, at = "reading", NEW i \in unread, \A j \in unread : i <= j,
         VerifyAll
  PROVE  Verifies(store[i]) /\ Anchors(store[i])
<1>1. i \in Ids /\ Verifies(store[i])
  BY NextIsAdjacent DEF VerifyAll
<1>2. CASE prev_tip = {}
  BY <1>1, <1>2 DEF Anchors
<1>3. ASSUME NEW a \in Ids, Adjacent(a, i), prev_tip = {Last(store[a]).record_hash}
      PROVE  Anchors(store[i])
  BY <1>1, <1>3 DEF VerifyAll, Anchors
<1> QED  BY <1>1, <1>2, <1>3, NextIsAdjacent

(* A segment that is read becomes the last one read. *)
LEMMA ReadStep ==
  ASSUME AuditInv, ReaderInv, at = "reading", NEW i \in unread, \A j \in unread : i <= j,
         unread' = unread \ {i}, prev_tip' = {Last(store[i]).record_hash},
         UNCHANGED <<at, avars>>
  PROVE  ReaderInv'
<1>1. store' = store /\ Ids' = Ids
  BY DEF avars
<1>2. i \in Ids /\ Ids \in SUBSET Nat /\ unread \in SUBSET Ids
  BY DEF ReaderInv, AuditInv, StoreInv
<1>3. \A j \in unread' : i < j
  BY <1>2
<1>4. ASSUME NEW k \in Ids PROVE k <= i \/ k \in unread' \/ \A j \in unread' : j < k
  <2>1. CASE Beyond(k)
    BY <1>2, <2>1 DEF Beyond
  <2>2. ASSUME NEW a \in Ids, \A j \in unread : a < j, k <= a PROVE k <= i
    BY <1>2, <2>2
  <2> QED  BY <2>1, <2>2 DEF ReaderInv
<1>5. \A k \in Ids' : k <= i \/ Beyond(k)'
  BY <1>1, <1>4 DEF Beyond
<1>6. i \in Ids' /\ prev_tip' = {Last(store'[i]).record_hash} /\ unread' \in SUBSET Ids'
  BY <1>1, <1>2
<1> QED  BY <1>3, <1>5, <1>6 DEF ReaderInv, Last

(* Every step of the command keeps the reader's place, and its verdict.     *)
LEMMA ReaderChecks ==
  ASSUME AuditInv, ReaderInv, FailIsRight, Verify, UNCHANGED avars
  PROVE  ReaderInv' /\ FailIsRight'
<1>1. store' = store /\ Ids' = Ids /\ damaged' = damaged
  BY DEF avars
<1>2. CASE StartVerify
  BY <1>1, <1>2 DEF StartVerify, ReaderInv, Beyond, FailIsRight
<1>3. CASE ReadSegment
  <2>1. at = "reading"
    BY <1>3 DEF ReadSegment
  <2>2. PICK i \in unread :
          /\ \A j \in unread : i <= j
          /\ \/ Accept(i)
             \/ ~(Verifies(store[i]) /\ Anchors(store[i])) /\ Reject
    BY <1>3 DEF ReadSegment
  <2>3. CASE Accept(i)
    BY <1>1, <2>1, <2>2, <2>3, ReadStep DEF Accept, FailIsRight
  <2>4. CASE ~(Verifies(store[i]) /\ Anchors(store[i])) /\ Reject
    <3>1. damaged
      BY <2>1, <2>2, <2>4, SoundIsRead DEF AuditInv, ChainInv, StoreInv
    <3> QED  BY <1>1, <2>4, <3>1 DEF Reject, ReaderInv, FailIsRight
  <2> QED  BY <2>2, <2>3, <2>4
<1>4. CASE EndOfChain \/ Report
  <2>1. unread' \in SUBSET unread /\ at' \notin {"reading", "broken"}
    BY <1>4 DEF EndOfChain, Report
  <2> QED  BY <1>1, <2>1 DEF ReaderInv, FailIsRight
<1> QED  BY <1>2, <1>3, <1>4 DEF Verify

LEMMA ReaderSteps ==
  ASSUME AuditInv, ReaderInv, FailIsRight, [VerifyNext]_vvars
  PROVE  ReaderInv' /\ FailIsRight'
<1>1. CASE Verify /\ UNCHANGED avars
  BY <1>1, ReaderChecks
<1>2. CASE [AuditNext]_avars /\ UNCHANGED cli
  <2>1. damaged => damaged'
    <3>1. CASE Redact   BY <3>1 DEF Redact
    <3>2. CASE ~Redact  BY <1>2, <3>2, TrailGrows
    <3> QED  BY <3>1, <3>2
  <2> QED  BY <1>2, <2>1, ReaderBesideDaemon DEF FailIsRight, cli
<1> QED  BY <1>1, <1>2 DEF VerifyNext, vvars

(* No false alarm: verify_all finds a break in the chain only if a write   *)
(* failed or a record was redacted, whatever the daemon does between two   *)
(* of its reads.                                                           *)
THEOREM ReportedBreaksAreReal == VerifySpec => []FailIsRight
<1>1. AuditInv /\ ReaderInv /\ FailIsRight /\ [VerifyNext]_vvars => ReaderInv' /\ FailIsRight'
  BY ReaderSteps
<1>2. VerifySpec => []AuditInv
  BY VerifyImplementsAudit, AuditInvariant, PTL
<1> QED  BY <1>1, <1>2, ReaderInitially, PTL DEF VerifySpec

-----------------------------------------------------------------------------
(* A record is hashed before anybody redacts it, so a redaction never makes *)
(* a segment verify that did not.                                          *)
Plain(r) == [seq |-> r.seq, what |-> r.what, redacted |-> FALSE]

HashedPlain ==
  \A cr \in OnDisk \cup Pending : cr.record_hash = Hash(cr.prev_hash, Plain(cr.record))

LEMMA RedactedRecords ==
  ASSUME AuditInv, Redact
  PROVE  \A i \in Ids : \A n \in 1..Len(store[i].records) :
           /\ store'[i].records[n].record.seq = store[i].records[n].record.seq
           /\ store'[i].records[n].record.what = store[i].records[n].record.what
           /\ store'[i].records[n].record = store[i].records[n].record
                \/ store'[i].records[n].record.redacted = TRUE
<1>a. PICK i \in Ids : \E n \in 1..Len(store[i].records) :
        store' = [store EXCEPT ![i].records[n].record.redacted = TRUE]
  BY DEF Redact
<1>1. PICK n \in 1..Len(store[i].records) :
        store' = [store EXCEPT ![i].records[n].record.redacted = TRUE]
  BY <1>a
<1> DEFINE was == store[i].records[n]
           rec == [was EXCEPT !.record.redacted = TRUE]
           recs == [store[i].records EXCEPT ![n] = rec]
           seg == [store[i] EXCEPT !.records = recs]
<1>2. was \in ChainedRecords /\ store[i].records \in Seq(ChainedRecords)
  BY <1>1, RecordsTyped DEF AuditInv
<1>3. /\ rec.record.seq = was.record.seq /\ rec.record.what = was.record.what
      /\ rec.record.redacted = TRUE
  BY <1>2 DEF ChainedRecords, Records
<1>4. \A m \in 1..Len(store[i].records) : recs[m] = IF m = n THEN rec ELSE store[i].records[m]
  BY <1>2
<1>5. seg.records = recs
  BY DEF AuditInv, StoreInv, Segments
<1>6. \A j \in Ids : store'[j] = IF j = i THEN seg ELSE store[j]
  BY <1>1 DEF AuditInv, StoreInv
<1> HIDE DEF seg, recs, rec
<1>7. SUFFICES ASSUME NEW j \in Ids, NEW m \in 1..Len(store[j].records)
               PROVE  /\ store'[j].records[m].record.seq = store[j].records[m].record.seq
                      /\ store'[j].records[m].record.what = store[j].records[m].record.what
                      /\ store'[j].records[m].record = store[j].records[m].record
                           \/ store'[j].records[m].record.redacted = TRUE
  OBVIOUS
<1>8. CASE j = i /\ m = n
  <2>1. store'[j].records[m] = rec /\ store[j].records[m] = was
    BY <1>4, <1>5, <1>6, <1>8
  <2> QED  BY <1>3, <2>1
<1>9. CASE ~(j = i /\ m = n)
  <2>1. store'[j].records[m] = store[j].records[m]
    BY <1>4, <1>5, <1>6, <1>9
  <2> QED  BY <2>1
<1> QED  BY <1>8, <1>9

LEMMA RedactHides ==
  ASSUME AuditInv, HashedPlain, Redact
  PROVE  HashedPlain' /\ \A i \in Ids : Verifies(store'[i]) => Verifies(store[i])
<1>1. /\ Ids' = Ids /\ Pending' = Pending
      /\ \A i \in Ids :
           /\ store'[i].signed = store[i].signed
           /\ Len(store'[i].records) = Len(store[i].records)
           /\ \A n \in 1..Len(store[i].records) :
                /\ store'[i].records[n].prev_hash = store[i].records[n].prev_hash
                /\ store'[i].records[n].record_hash = store[i].records[n].record_hash
  BY RedactStep, RedactOnDisk
<1>2. \A i \in Ids : \A n \in 1..Len(store[i].records) :
        store[i].records[n].record_hash
          = Hash(store[i].records[n].prev_hash, Plain(store[i].records[n].record))
  BY DEF HashedPlain, OnDisk
<1>3. HashedPlain'
  <2>1. ASSUME NEW i \in Ids', NEW n \in 1..Len(store'[i].records)
        PROVE  store'[i].records[n].record_hash
                 = Hash(store'[i].records[n].prev_hash, Plain(store'[i].records[n].record))
    <3>1. i \in Ids /\ n \in 1..Len(store[i].records)
      BY <1>1, <2>1
    <3>2. /\ store'[i].records[n].prev_hash = store[i].records[n].prev_hash
          /\ store'[i].records[n].record_hash = store[i].records[n].record_hash
      BY <1>1, <3>1
    <3>3. /\ store'[i].records[n].record.seq = store[i].records[n].record.seq
          /\ store'[i].records[n].record.what = store[i].records[n].record.what
      BY <3>1, RedactedRecords
    <3>4. Plain(store'[i].records[n].record) = Plain(store[i].records[n].record)
      BY <3>3, Zenon DEF Plain
    <3>5. store[i].records[n].record_hash
            = Hash(store[i].records[n].prev_hash, Plain(store[i].records[n].record))
      BY <1>2, <3>1
    <3> QED  BY <3>2, <3>4, <3>5, Zenon
  <2>2. \A cr \in Pending' : cr.record_hash = Hash(cr.prev_hash, Plain(cr.record))
    BY <1>1 DEF HashedPlain
  <2> QED  BY <2>1, <2>2 DEF HashedPlain, OnDisk
<1>4. ASSUME NEW i \in Ids, Verifies(store'[i]) PROVE Verifies(store[i])
  <2>1. /\ Len(store[i].records) \in Nat \ {0} /\ store[i].records # <<>>
        /\ \A n \in 1..Len(store[i].records) : store[i].records[n] \in ChainedRecords
    BY RecordsTyped DEF AuditInv, StoreInv
  <2>2. ASSUME NEW n \in 1..Len(store[i].records)
        PROVE  /\ store[i].records[n].record.seq = First(store[i]).record.seq + (n - 1)
               /\ n > 1 => store[i].records[n].prev_hash = store[i].records[n - 1].record_hash
    <3> DEFINE R == store[i].records   S == store'[i].records
    <3>1. /\ Len(S) = Len(R) /\ Len(R) \in Nat \ {0}
          /\ \A m \in 1..Len(R) :
               /\ S[m].record.seq = R[m].record.seq
               /\ S[m].prev_hash = R[m].prev_hash /\ S[m].record_hash = R[m].record_hash
      BY <1>1, <2>1, RedactedRecords
    <3>2. /\ S[n].record.seq = S[1].record.seq + (n - 1)
          /\ n > 1 => S[n].prev_hash = S[n - 1].record_hash
      BY <1>4, <3>1 DEF Verifies, First
    <3>3. n \in 1..Len(R) /\ 1 \in 1..Len(R) /\ (n > 1 => n - 1 \in 1..Len(R))
      BY <3>1
    <3> HIDE DEF R, S
    <3>4. R[n].record.seq = R[1].record.seq + (n - 1) /\ (n > 1 => R[n].prev_hash = R[n - 1].record_hash)
      BY <3>1, <3>2, <3>3
    <3> QED  BY <3>4 DEF First, R
  <2>3. ASSUME NEW n \in 1..Len(store[i].records)
        PROVE  store[i].records[n].record_hash
                 = Hash(store[i].records[n].prev_hash, store[i].records[n].record)
    <3> DEFINE r == store[i].records[n].record
               p == store[i].records[n].prev_hash
               s == store'[i].records[n].record
    <3>1. Hash(p, s) = Hash(p, Plain(r))
      BY <1>1, <1>2, <1>4 DEF Verifies
    <3>2. p \in Hashes /\ r \in Records /\ Plain(r) \in Records
      BY <2>1 DEF ChainedRecords, Records, Plain
    <3>3. s \in Records
      <4>1. AuditInv' /\ i \in Ids'
        BY <1>1, RedactStep
      <4>2. \A m \in 1..Len(store'[i].records) : store'[i].records[m] \in ChainedRecords
        BY <4>1, RecordsTyped DEF AuditInv, StoreInv, Segments
      <4> QED  BY <1>1, <4>2 DEF ChainedRecords
    <3>4. s = Plain(r)
      <4> HIDE DEF s, r, p
      <4>1. Append(p, s)[Len(p) + 1] = s /\ Append(p, Plain(r))[Len(p) + 1] = Plain(r)
        BY <3>2, <3>3 DEF Hashes
      <4> QED  BY <3>1, <4>1 DEF Hash
    <3>5. s = r
      <4>1. s.redacted = FALSE
        BY <3>4 DEF Plain
      <4> QED  BY <4>1, RedactedRecords
    <3> QED  BY <3>1, <3>4, <3>5, <1>2
  <2>4. store[i].signed = Last(store[i]).record_hash
    BY <1>1, <1>4, <2>1 DEF Verifies, Last
  <2> QED  BY <2>1, <2>2, <2>3, <2>4 DEF Verifies
<1> QED  BY <1>3, <1>4

LEMMA HashedInitially == AuditInit => HashedPlain
<1> SUFFICES ASSUME AuditInit PROVE HashedPlain
  OBVIOUS
<1>1. store = <<>> /\ Ids = {} /\ records = <<>> /\ Len(<<>>) = 0
  BY DEF AuditInit
<1>2. OnDisk = {} /\ Pending = {}
  BY <1>1 DEF OnDisk, Pending
<1> QED  BY <1>2 DEF HashedPlain

LEMMA HashedStep ==
  ASSUME AuditInv, HashedPlain, [AuditNext]_avars PROVE HashedPlain'
<1>1. NewRecord.record_hash = Hash(NewRecord.prev_hash, Plain(NewRecord.record))
  BY DEF NewRecord, Chained, Plain
<1>2. CASE Redact
  BY <1>2, RedactHides
<1>3. CASE ~Redact
  <2>1. OnDisk' \cup Pending' \subseteq OnDisk \cup Pending \cup {NewRecord}
    <3>1. CASE OpenWriterFails \/ UNCHANGED avars
      BY <3>1 DEF OpenWriterFails, avars, writer, inner, OnDisk, Pending
    <3> QED  BY <1>3, <3>1, OpenOnDisk, ObserveOnDisk, ObserveAndCloseOnDisk, FlushOnDisk,
                ExitOnDisk DEF AuditNext
  <2> QED  BY <1>1, <2>1 DEF HashedPlain
<1> QED  BY <1>2, <1>3

(* What a break looks like to a reader that has yet to find it. *)
Break(j) ==
  \/ ~Verifies(store[j])
  \/ \E i \in Ids : Adjacent(i, j) /\ First(store[j]).prev_hash # Last(store[i]).record_hash

PassInv ==
  /\ at = "reading" /\ ~began => \E j \in unread : Break(j)
  /\ PassIsRight

(* The daemon mends no break. *)
LEMMA BreaksStay ==
  ASSUME AuditInv, HashedPlain, [AuditNext]_avars, NEW j \in Ids, Break(j)
  PROVE  j \in Ids' /\ Break(j)'
<1>1. \A i \in Ids :
        /\ i \in Ids'
        /\ First(store'[i]).prev_hash = First(store[i]).prev_hash
        /\ Last(store'[i]).record_hash = Last(store[i]).record_hash
  BY EndsAreFinal
<1>2. ASSUME ~Verifies(store[j]) PROVE ~Verifies(store'[j])
  <2>1. CASE Redact   BY <1>2, <2>1, RedactHides
  <2>2. CASE ~Redact  BY <1>2, <2>2, TrailGrows
  <2> QED  BY <2>1, <2>2
<1>3. ASSUME NEW i \in Ids, Adjacent(i, j) PROVE Adjacent(i, j)'
  <2>1. \A k \in Ids' : k \in Ids \/ j <= k
    <3>1. j \in Nat /\ Ids' \in SUBSET Nat /\ \A k \in Ids' : k \in Ids \/ j < k
      BY IdsGrow DEF AuditInv, StoreInv
    <3> QED  BY <3>1
  <2> QED  BY <1>3, <2>1 DEF Adjacent
<1> QED  BY <1>1, <1>2, <1>3 DEF Break, Verifies, First, Last

(* The reader does not pass one. *)
LEMMA BreaksAreFound ==
  ASSUME AuditInv, ReaderInv, at = "reading", NEW i \in unread, \A j \in unread : i <= j,
         Verifies(store[i]), Anchors(store[i])
  PROVE  ~Break(i)
<1>1. i \in Ids /\ Ids \in SUBSET Nat
  BY NextIsAdjacent DEF AuditInv, StoreInv
<1>2. SUFFICES ASSUME NEW b \in Ids, Adjacent(b, i)
               PROVE  First(store[i]).prev_hash = Last(store[b]).record_hash
  BY DEF Break
<1>3. b < i
  BY <1>2 DEF Adjacent
<1>4. PICK a \in Ids : Adjacent(a, i) /\ prev_tip = {Last(store[a]).record_hash}
  BY <1>1, <1>3, NextIsAdjacent
<1>5. a = b
  BY <1>1, <1>2, <1>4 DEF Adjacent
<1> QED  BY <1>4, <1>5 DEF Anchors

LEMMA PassChecks ==
  ASSUME AuditInv, ReaderInv, PassInv, Verify, UNCHANGED avars
  PROVE  PassInv'
<1>1. store' = store /\ Ids' = Ids /\ \A j : Break(j)' = Break(j)
  BY DEF avars, Break, Adjacent
<1>2. CASE StartVerify
  <2>1. at' = "reading" /\ unread' = Ids /\ began' = VerifyAll
    BY <1>2 DEF StartVerify
  <2>2. ~VerifyAll => \E j \in Ids : Break(j)
    BY DEF VerifyAll, Break
  <2> QED  BY <1>1, <2>1, <2>2 DEF PassInv, PassIsRight
<1>3. CASE EndOfChain \/ Report
  BY <1>3 DEF EndOfChain, Report, PassInv, PassIsRight
<1>4. CASE ReadSegment
  <2>1. at = "reading"
    BY <1>4 DEF ReadSegment
  <2>2. PICK i \in unread :
          /\ \A j \in unread : i <= j
          /\ (Verifies(store[i]) /\ Anchors(store[i]) /\ Accept(i)) \/ Reject
    BY <1>4 DEF ReadSegment
  <2>3. CASE Verifies(store[i]) /\ Anchors(store[i]) /\ Accept(i)
    <3>1. ~Break(i)
      BY <2>1, <2>2, <2>3, BreaksAreFound
    <3> QED  BY <1>1, <2>1, <2>3, <3>1 DEF Accept, PassInv, PassIsRight
  <2>4. CASE Reject
    BY <2>4 DEF Reject, PassInv, PassIsRight
  <2> QED  BY <2>2, <2>3, <2>4
<1> QED  BY <1>2, <1>3, <1>4 DEF Verify

LEMMA PassSteps ==
  ASSUME AuditInv, HashedPlain, ReaderInv, PassInv, [VerifyNext]_vvars
  PROVE  PassInv'
<1>1. CASE Verify /\ UNCHANGED avars
  BY <1>1, PassChecks
<1>2. CASE [AuditNext]_avars /\ UNCHANGED cli
  <2>1. UNCHANGED <<at, unread, began>>
    BY <1>2 DEF cli
  <2>2. \A j \in unread : Break(j) => Break(j)'
    BY <1>2, BreaksStay DEF ReaderInv
  <2> QED  BY <2>1, <2>2 DEF PassInv, PassIsRight
<1> QED  BY <1>1, <1>2 DEF VerifyNext, vvars

(* No break is missed: "audit verify" succeeds only if the chain, all of   *)
(* it, verified when it listed the segments.                               *)
THEOREM PassedChainsVerified == VerifySpec => []PassIsRight
<1>1. VerifyInit => PassInv
  BY DEF VerifyInit, PassInv, PassIsRight
<1>2. AuditInv /\ HashedPlain /\ ReaderInv /\ FailIsRight /\ PassInv /\ [VerifyNext]_vvars
        => ReaderInv' /\ FailIsRight' /\ PassInv'
  BY ReaderSteps, PassSteps
<1>3. AuditInv /\ HashedPlain /\ [AuditNext]_avars => HashedPlain'
  BY HashedStep
<1>4. PassInv => PassIsRight
  BY DEF PassInv
<1>5. VerifySpec => []AuditInv /\ [][AuditNext]_avars /\ AuditInit
  BY VerifyImplementsAudit, AuditInvariant, PTL DEF AuditSpec
<1>6. VerifySpec => []HashedPlain
  BY <1>3, <1>5, HashedInitially, PTL
<1> QED  BY <1>1, <1>2, <1>4, <1>5, <1>6, ReaderInitially, PTL DEF VerifySpec
=============================================================================
