--------------------------- MODULE EvictionProofs ---------------------------
(***************************************************************************)
(* Proofs about SegmentLog, for every record size, segment size, quota and *)
(* bound, and about Eviction.  The log's safety properties follow from one *)
(* inductive invariant, LogInv; the quota needs in addition that no write  *)
(* is torn.  Then the driver and the daemon's traffic are a log, so that   *)
(* all of it holds with the driver running, and segments are deleted under *)
(* pressure only.                                                          *)
(***************************************************************************)
EXTENDS Eviction, FiniteSetTheorems, WellFoundedInduction, TLAPS

-----------------------------------------------------------------------------
(* Lemmas on sets of ids and of bytes.                                     *)

(* Oldest is what evict_oldest_closed means by the first of the sorted     *)
(* segment list: it exists for every non-empty set of ids.                 *)
LEMMA OldestExists ==
  ASSUME NEW S \in SUBSET Nat, S # {}
  PROVE  Oldest(S) \in S /\ \A t \in S : Oldest(S) <= t
<1>1. \E s \in S : \A t \in S : ~(<<t, s>> \in OpToRel(<, Nat))
  BY NatLessThanWellFounded, WFMin, Zenon
<1>2. PICK s \in S : \A t \in S : ~(<<t, s>> \in OpToRel(<, Nat))
  BY <1>1
<1>3. \A t \in S : s <= t
  <2> TAKE t \in S
  <2>1. <<t, s>> \in Nat \X Nat => ~(t < s)
    BY <1>2, Zenon DEF OpToRel
  <2> QED  BY <2>1
<1> QED  BY <1>3 DEF Oldest

(* Newest, the highest id open() finds, exists for every bounded set.      *)
LEMMA NewestExists ==
  ASSUME NEW S \in SUBSET Nat, S # {}, NEW n \in Nat, \A s \in S : s < n
  PROVE  Newest(S) \in S /\ \A t \in S : t <= Newest(S)
<1> DEFINE B == {m \in Nat : \A s \in S : s <= m}
<1>1. B \in SUBSET Nat /\ n \in B  OBVIOUS
<1>2. Oldest(B) \in B /\ \A m \in B : Oldest(B) <= m
  BY <1>1, OldestExists
<1>3. Oldest(B) \in S
  <2> SUFFICES ASSUME Oldest(B) \notin S PROVE FALSE
    OBVIOUS
  <2>1. PICK s \in S : TRUE  OBVIOUS
  <2>2. Oldest(B) # 0 /\ Oldest(B) - 1 \in B
    BY <1>2, <2>1
  <2> QED  BY <1>2, <2>2
<1>4. \E s \in S : \A t \in S : t <= s
  BY <1>2, <1>3
<1> QED  BY <1>4 DEF Newest

(* A record of n bytes occupies n bytes.                                   *)
LEMMA CellsCardinality ==
  ASSUME NEW s, NEW r, NEW n \in Nat
  PROVE  IsFiniteSet(Cells(s, r, n)) /\ Cardinality(Cells(s, r, n)) = n
<1> DEFINE f == [i \in 0..(n - 1) |-> [seg |-> s, rec |-> r, off |-> i]]
<1>1. IsFiniteSet(0..(n - 1)) /\ Cardinality(0..(n - 1)) = n
  BY FS_Interval
<1>2. f \in Bijection(0..(n - 1), Cells(s, r, n))
  BY DEF Bijection, Injection, Surjection, IsInjective, Cells
<1> QED  BY <1>1, <1>2, FS_Bijection DEF ExistsBijection

-----------------------------------------------------------------------------
(* The inductive invariant.                                                *)

LEMMA LogInvInit == Init => LogInv
<1> SUFFICES ASSUME Init PROVE LogInv
  OBVIOUS
<1>1. TypeOK
  BY DEF Init, TypeOK
<1>2. FilesInv
  BY DEF Init, FilesInv, OneFilePerId, Numbered
<1>3. BytesInv
  BY FS_EmptySet DEF Init, BytesInv
<1>4. HistoryInv
  BY DEF Init, HistoryInv, AcknowledgedIsKept
<1> QED  BY <1>1, <1>2, <1>3, <1>4 DEF LogInv

(* What rotate does to the files, whether or not a segment was active.     *)
LEMMA RotateEffect ==
  ASSUME TypeOK, FilesInv, up,
         wip' = wip \ {active} \/ wip' = (wip \ {active}) \cup {next_seg_id},
         seg' = seg \cup ({active} \ {NoSegment}),
         next_seg_id < MaxSegments, next_seg_id' = next_seg_id + 1
  PROVE  /\ wip' \in SUBSET Nat /\ seg' \in SUBSET Nat /\ next_seg_id' \in Nat
         /\ wip' \cap seg' = {} /\ wip' \cap quarantine = {} /\ seg' \cap quarantine = {}
         /\ Numbered \subseteq wip' \cup seg' \cup quarantine
         /\ wip' \cup seg' \cup quarantine \subseteq Numbered \cup {next_seg_id}
         /\ \A s \in wip' \cup seg' \cup quarantine :
              s \in Nat /\ s < MaxSegments /\ s <= next_seg_id /\ s < next_seg_id'
         /\ \A q \in quarantine, w \in wip' : q < w
<1>1. /\ \A s : s \in wip' => (s \in wip /\ s # active) \/ s = next_seg_id
      /\ \A s \in wip : s # active => s \in wip'
  OBVIOUS
<1>2. \A s : s \in seg' <=> s \in seg \/ (s = active /\ s # NoSegment)
  OBVIOUS
<1>3. /\ \A s \in Numbered : s \in Nat /\ s < next_seg_id /\ s < MaxSegments
      /\ next_seg_id \in Nat /\ next_seg_id \notin Numbered
  BY DEF TypeOK, FilesInv, Numbered
<1>4. active # NoSegment => active \in wip
  BY DEF FilesInv, OneFilePerId
<1>5. /\ Numbered \subseteq wip' \cup seg' \cup quarantine
      /\ wip' \cup seg' \cup quarantine \subseteq Numbered \cup {next_seg_id}
  BY <1>1, <1>2, <1>3, <1>4, NoSegmentIsNoId DEF Numbered
<1>6. wip' \cap seg' = {} /\ wip' \cap quarantine = {} /\ seg' \cap quarantine = {}
  BY <1>1, <1>2, <1>3, <1>4 DEF FilesInv, OneFilePerId, Numbered
<1>7. \A s \in wip' \cup seg' \cup quarantine :
        s \in Nat /\ s < MaxSegments /\ s <= next_seg_id /\ s < next_seg_id'
  BY <1>3, <1>5
<1>8. wip' \in SUBSET Nat /\ seg' \in SUBSET Nat /\ next_seg_id' \in Nat
  BY <1>3, <1>7
<1>9. \A q \in quarantine, w \in wip' : q < w
  BY <1>1, <1>3 DEF FilesInv, Numbered
<1> QED  BY <1>5, <1>6, <1>7, <1>8, <1>9

(* open() picks an id above every file left in the directory.              *)
LEMMA OpenNumbersAbove ==
  ASSUME TypeOK, FilesInv, Open
  PROVE  next_seg_id' \in Nat /\ \A s \in Numbered : s < next_seg_id'
<1>1. Numbered \in SUBSET Nat
  BY DEF TypeOK, Numbered
<1>2. CASE Numbered = {}
  BY <1>2 DEF Open
<1>3. CASE Numbered # {}
  <2> DEFINE top == Newest(Numbered)
  <2>1. top \in Numbered /\ \A t \in Numbered : t <= top
    BY <1>1, <1>3, BoundsAreNat, NewestExists DEF FilesInv
  <2>2. next_seg_id' = top + 1
    BY <1>3 DEF Open
  <2> HIDE DEF top
  <2> QED  BY <1>1, <2>1, <2>2
<1> QED  BY <1>2, <1>3

LEMMA FilesInvStep == LogInv /\ [Next]_vars => FilesInv'
<1> SUFFICES ASSUME LogInv, [Next]_vars PROVE FilesInv'
  OBVIOUS
<1> USE NoSegmentIsNoId, BoundsAreNat
    DEF LogInv, TypeOK, FilesInv, OneFilePerId, Numbered
<1>1. CASE Open
  <2>1. next_seg_id' \in Nat /\ \A s \in Numbered : s < next_seg_id'
    BY <1>1, OpenNumbersAbove
  <2>2. wip' = {} /\ seg' = seg /\ quarantine' = quarantine \cup wip
    BY <1>1 DEF Open
  <2>3. active' = NoSegment /\ up'
    BY <1>1 DEF Open
  <2>4. wip' \cap seg' = {} /\ wip' \cap quarantine' = {} /\ seg' \cap quarantine' = {}
    BY <2>2
  <2>5. Numbered' = Numbered
    BY <2>2
  <2>6. \A s \in Numbered : s < MaxSegments
    OBVIOUS
  <2> QED  BY <2>1, <2>2, <2>3, <2>4, <2>5, <2>6
<1>2. CASE OpenFails
  BY <1>2 DEF OpenFails, handle
<1>3. ASSUME NEW n \in RecordSizes, Append(n) \/ AppendTorn(n)
      PROVE  FilesInv'
  <2>1. Place(n) /\ up /\ up' /\ quarantine' = quarantine
    BY <1>3 DEF Append, AppendTorn, Place
  <2>2. CASE MustRotate(n)
    BY <2>1, <2>2, RotateEffect DEF Place, RotateFiles, Target
  <2>3. CASE ~MustRotate(n)
    BY <2>1, <2>3 DEF Place, Target, MustRotate
  <2> QED  BY <2>2, <2>3
<1>4. CASE Rotate
  BY <1>4, RotateEffect DEF Rotate, RotateFiles
<1>5. CASE RotateFailsToClose
  BY <1>5 DEF RotateFailsToClose, disk
<1>6. CASE RotateFailsToOpen
  BY <1>6, RotateEffect DEF RotateFailsToOpen
<1>7. CASE EvictOldestClosed
  BY <1>7 DEF EvictOldestClosed
<1>8. CASE Close
  BY <1>8 DEF Close
<1>9. CASE Crash
  BY <1>9 DEF Crash
<1>10. CASE UNCHANGED vars
  BY <1>10 DEF vars, disk, handle
<1> QED
  BY <1>1, <1>2, <1>3, <1>4, <1>5, <1>6, <1>7, <1>8, <1>9, <1>10 DEF Next

(* Types.                                                                  *)
LEMMA TypeOKStep == LogInv /\ [Next]_vars => TypeOK'
<1> SUFFICES ASSUME LogInv, [Next]_vars PROVE TypeOK'
  OBVIOUS
<1> USE NoSegmentIsNoId, BoundsAreNat, SizesAreNat DEF LogInv, TypeOK
<1>0. Cardinality(bytes) \in Nat
  BY FS_CardinalityType DEF BytesInv
<1>1. CASE Open
  <2>1. next_seg_id' \in Nat
    BY <1>1, OpenNumbersAbove
  <2> QED  BY <1>0, <1>1, <2>1 DEF Open, BytesAtOpen
<1>2. CASE OpenFails
  BY <1>2 DEF OpenFails, handle
<1>3. ASSUME NEW n \in RecordSizes, Place(n)
      PROVE  /\ wip' \in SUBSET Nat /\ seg' \in SUBSET Nat /\ next_seg_id' \in Nat
             /\ active' \in Nat /\ Target(n) \in Nat /\ Offset(n) \in Nat /\ next_rec' \in Nat
  <2>1. CASE MustRotate(n)
    <3>1. RotateFiles /\ up /\ active' = next_seg_id
      BY <1>3, <2>1 DEF Place, Target
    <3>2. wip' \in SUBSET Nat /\ seg' \in SUBSET Nat /\ next_seg_id' \in Nat
      BY <3>1, RotateEffect DEF RotateFiles
    <3> QED  BY <1>3, <2>1, <3>1, <3>2 DEF Place, Target, Offset
  <2>2. CASE ~MustRotate(n)
    <3>1. active \in Nat
      BY <2>2 DEF MustRotate
    <3>2. Target(n) = active /\ Offset(n) = written_bytes
      BY <2>2 DEF Target, Offset
    <3>3. wip' = wip /\ seg' = seg /\ next_seg_id' = next_seg_id
      BY <1>3, <2>2 DEF Place
    <3>4. active' = Target(n) /\ next_rec' = next_rec + 1
      BY <1>3 DEF Place
    <3> QED  BY <3>1, <3>2, <3>3, <3>4
  <2> QED  BY <2>1, <2>2
<1>4. ASSUME NEW s \in Nat, NEW r \in Nat, NEW k \in Nat
      PROVE  Cells(s, r, k) \in SUBSET [seg : Nat, rec : Nat, off : Nat]
  BY DEF Cells
<1>5. ASSUME NEW n \in RecordSizes, Append(n)
      PROVE  TypeOK'
  <2>1. bytes' \in SUBSET [seg : Nat, rec : Nat, off : Nat]
    BY <1>3, <1>4, <1>5 DEF Append
  <2> QED  BY <1>3, <1>5, <2>1 DEF Append
<1>6. ASSUME NEW n \in RecordSizes, AppendTorn(n)
      PROVE  TypeOK'
  <2>1. bytes' \in SUBSET [seg : Nat, rec : Nat, off : Nat]
    BY <1>3, <1>4, <1>6 DEF AppendTorn
  <2> QED  BY <1>3, <1>6, <2>1 DEF AppendTorn
<1>7. CASE Rotate
  BY <1>7, RotateEffect DEF Rotate, RotateFiles, history
<1>8. CASE RotateFailsToClose
  BY <1>8 DEF RotateFailsToClose, disk, history
<1>9. CASE RotateFailsToOpen
  BY <1>9, RotateEffect DEF RotateFailsToOpen, history
<1>10. CASE EvictOldestClosed
  <2>1. Cardinality(FileBytes(Oldest(seg))) \in Nat
    BY FS_Subset, FS_CardinalityType DEF BytesInv, FileBytes
  <2>2. RecordsOf(FileBytes(Oldest(seg))) \in SUBSET Nat
    BY DEF RecordsOf, FileBytes
  <2>3. total_bytes' \in Nat
    BY <1>10, <2>1 DEF EvictOldestClosed
  <2>4. evicted' \in SUBSET Nat
    BY <1>10, <2>2 DEF EvictOldestClosed
  <2>5. seg' \subseteq seg /\ bytes' \subseteq bytes
    BY <1>10 DEF EvictOldestClosed
  <2> QED  BY <1>10, <2>3, <2>4, <2>5 DEF EvictOldestClosed
<1>11. CASE Close
  BY <1>11 DEF Close, history
<1>12. CASE Crash
  BY <1>12 DEF Crash, RecordsOf
<1>13. CASE UNCHANGED vars
  BY <1>13 DEF vars, disk, handle, history
<1> QED
  BY <1>1, <1>2, <1>5, <1>6, <1>7, <1>8, <1>9, <1>10, <1>11, <1>12, <1>13 DEF Next

(* The bytes on disk.                                                      *)
LEMMA BytesInvStep == LogInv /\ [Next]_vars => BytesInv'
<1> SUFFICES ASSUME LogInv, [Next]_vars PROVE BytesInv'
  OBVIOUS
<1> USE NoSegmentIsNoId, BoundsAreNat, SizesAreNat
    DEF LogInv, TypeOK, FilesInv, OneFilePerId, BytesInv, Numbered
<1>1. ASSUME bytes' \subseteq bytes, next_rec' = next_rec,
             \A b \in bytes' : b.seg \in Numbered'
      PROVE  BytesInv'
  BY <1>1, FS_Subset
<1>2. CASE Open
  BY <1>1, <1>2 DEF Open
<1>3. CASE OpenFails
  BY <1>1, <1>3 DEF OpenFails
<1>4. ASSUME NEW n \in RecordSizes, NEW k \in Nat, Place(n), quarantine' = quarantine, up' = up,
             bytes' = bytes \cup Cells(Target(n), next_rec, k)
      PROVE  BytesInv'
  <2>1. IsFiniteSet(bytes')
    BY <1>4, CellsCardinality, FS_Union
  <2>2. \A b \in Cells(Target(n), next_rec, k) : b.seg = Target(n) /\ b.rec = next_rec
    BY DEF Cells
  <2>3. Target(n) \in Numbered' /\ Numbered \subseteq Numbered'
    BY <1>4 DEF Place, RotateFiles, Target, MustRotate
  <2>4. \A s \in Numbered : s <= Target(n)
    BY <1>4 DEF Place, Target, MustRotate
  <2>5. next_rec' = next_rec + 1
    BY <1>4 DEF Place
  <2>6. \A b \in bytes' : b.seg \in Numbered' /\ b.rec < next_rec'
    BY <1>4, <2>2, <2>3, <2>5
  <2>7. \A a, b \in bytes' : a.rec <= b.rec => a.seg <= b.seg
    <3> TAKE a, b \in bytes'
    <3>1. CASE a \in bytes /\ b \in bytes
      BY <3>1
    <3>2. CASE a \in bytes /\ b \notin bytes
      BY <1>4, <2>2, <2>4, <3>2
    <3>3. CASE a \notin bytes
      <4>1. a.rec = next_rec /\ a.seg = Target(n)
        BY <1>4, <2>2, <3>3
      <4>2. CASE b \in bytes
        BY <4>1, <4>2
      <4>3. CASE b \notin bytes
        <5>1. b.seg = Target(n)
          BY <1>4, <2>2, <4>3
        <5>2. Target(n) \in Nat
          BY DEF Target, MustRotate
        <5> QED  BY <4>1, <5>1, <5>2
      <4> QED  BY <4>2, <4>3
    <3> QED  BY <3>1, <3>2, <3>3
  <2> QED  BY <2>1, <2>6, <2>7
<1>5. ASSUME NEW n \in RecordSizes, Append(n)
      PROVE  BytesInv'
  BY <1>4, <1>5 DEF Append
<1>6. ASSUME NEW n \in RecordSizes, AppendTorn(n)
      PROVE  BytesInv'
  <2>1. PICK k \in 0..(n - 1) : bytes' = bytes \cup Cells(Target(n), next_rec, k)
    BY <1>6 DEF AppendTorn
  <2>2. k \in Nat
    OBVIOUS
  <2> QED  BY <1>4, <1>6, <2>1, <2>2 DEF AppendTorn
<1>7. CASE Rotate
  BY <1>1, <1>7 DEF Rotate, RotateFiles, history
<1>8. CASE RotateFailsToClose
  BY <1>1, <1>8 DEF RotateFailsToClose, disk, history
<1>9. CASE RotateFailsToOpen
  BY <1>1, <1>9 DEF RotateFailsToOpen, history
<1>10. CASE EvictOldestClosed
  BY <1>1, <1>10 DEF EvictOldestClosed, FileBytes
<1>11. CASE Close
  BY <1>1, <1>11 DEF Close, history
<1>12. CASE Crash
  BY <1>1, <1>12 DEF Crash
<1>13. CASE UNCHANGED vars
  BY <1>1, <1>13 DEF vars, disk, handle, history
<1> QED
  BY <1>2, <1>3, <1>5, <1>6, <1>7, <1>8, <1>9, <1>10, <1>11, <1>12, <1>13 DEF Next

(* The history: what was evicted, what was acknowledged.                   *)
LEMMA HistoryInvStep == LogInv /\ [Next]_vars => HistoryInv'
<1> SUFFICES ASSUME LogInv, [Next]_vars PROVE HistoryInv'
  OBVIOUS
<1> USE NoSegmentIsNoId, SizesAreNat DEF LogInv, HistoryInv, AcknowledgedIsKept
<1>1. \A b \in bytes : /\ b.seg \in Nat /\ b.seg # NoSegment /\ b.rec \in Nat
                       /\ b.seg \in Numbered /\ (up => b.seg < next_seg_id)
  BY DEF TypeOK, FilesInv, BytesInv, Numbered
<1>2. ASSUME bytes' = bytes, receipts' = receipts, evicted' = evicted, lost' = lost,
             next_rec' = next_rec,
             \A b \in bytes : b.seg \in seg' \cup {active'} => b.seg \in seg \cup {active}
      PROVE  HistoryInv'
  BY <1>2
<1>3. CASE Open
  BY <1>1, <1>2, <1>3 DEF Open
<1>4. CASE OpenFails
  BY <1>1, <1>2, <1>4 DEF OpenFails, handle
<1>5. ASSUME NEW n \in RecordSizes, NEW k \in Nat, Place(n), lost' = lost, evicted' = evicted,
             bytes' = bytes \cup Cells(Target(n), next_rec, k)
      PROVE  /\ \A r \in evicted' : r < next_rec'
             /\ \A gone \in evicted', b \in bytes' : b.seg \in seg' \cup {active'} => gone < b.rec
             /\ \A r \in receipts : r.rec < next_rec' /\ r.rec \in RecordsOf(bytes') \cup evicted' \cup lost'
  <2>1. next_rec' = next_rec + 1 /\ active' = Target(n) /\ next_rec \in Nat
    BY <1>5 DEF Place, TypeOK
  <2>2. \A b \in bytes' \ bytes : b.rec = next_rec
    BY <1>5 DEF Cells
  <2>3. \A b \in bytes : b.seg \in seg' \cup {active'} => b.seg \in seg \cup {active}
    <3>1. CASE MustRotate(n)
      <4>1. seg' = seg \cup ({active} \ {NoSegment}) /\ active' = next_seg_id /\ up
        BY <1>5, <3>1 DEF Place, RotateFiles, Target
      <4>2. \A b \in bytes : b.seg # next_seg_id
        BY <1>1, <4>1 DEF TypeOK
      <4> QED  BY <4>1, <4>2
    <3>2. CASE ~MustRotate(n)
      BY <1>5, <3>2 DEF Place, Target
    <3> QED  BY <3>1, <3>2
  <2>4. \A r \in evicted : r \in Nat /\ r < next_rec
    BY DEF TypeOK
  <2>5. \A r \in receipts : r.rec \in Nat /\ r.rec < next_rec
    BY DEF TypeOK
  <2>6. RecordsOf(bytes) \subseteq RecordsOf(bytes')
    BY <1>5 DEF RecordsOf
  <2>7. \A r \in evicted' : r < next_rec'
    BY <1>5, <2>1, <2>4
  <2>8. \A gone \in evicted', b \in bytes' : b.seg \in seg' \cup {active'} => gone < b.rec
    <3> TAKE gone \in evicted', b \in bytes'
    <3>1. CASE b \in bytes
      BY <1>5, <2>3, <3>1
    <3>2. CASE b \notin bytes
      BY <1>5, <2>2, <2>4, <3>2
    <3> QED  BY <3>1, <3>2
  <2>9. \A r \in receipts : r.rec < next_rec'
    BY <2>1, <2>5
  <2>10. \A r \in receipts : r.rec \in RecordsOf(bytes') \cup evicted' \cup lost'
    BY <1>5, <2>6
  <2> QED  BY <2>7, <2>8, <2>9, <2>10
<1>6. ASSUME NEW n \in RecordSizes, Append(n)
      PROVE  HistoryInv'
  <2>1. n \in Nat /\ n # 0
    OBVIOUS
  <2>2. next_rec \in RecordsOf(bytes')
    <3>1. [seg |-> Target(n), rec |-> next_rec, off |-> 0] \in bytes'
      BY <1>6, <2>1 DEF Append, Cells
    <3> QED  BY <3>1 DEF RecordsOf
  <2>3. next_rec < next_rec'
    BY <1>6 DEF Append, Place, TypeOK
  <2>4. \A r \in receipts' : r \in receipts \/ r.rec = next_rec
    BY <1>6 DEF Append
  <2> QED  BY <1>5, <1>6, <2>1, <2>2, <2>3, <2>4 DEF Append
<1>7. ASSUME NEW n \in RecordSizes, AppendTorn(n)
      PROVE  HistoryInv'
  <2>1. PICK k \in 0..(n - 1) : bytes' = bytes \cup Cells(Target(n), next_rec, k)
    BY <1>7 DEF AppendTorn
  <2>2. k \in Nat
    OBVIOUS
  <2> QED  BY <1>5, <1>7, <2>1, <2>2 DEF AppendTorn
<1>8. CASE Rotate
  BY <1>1, <1>2, <1>8 DEF Rotate, RotateFiles, history, TypeOK
<1>9. CASE RotateFailsToClose
  BY <1>1, <1>2, <1>9 DEF RotateFailsToClose, disk, history
<1>10. CASE RotateFailsToOpen
  BY <1>1, <1>2, <1>10 DEF RotateFailsToOpen, history
<1>11. CASE EvictOldestClosed
  <2> DEFINE t == Oldest(seg)
  <2>1. t \in seg /\ \A s \in seg : t <= s
    BY <1>11, OldestExists DEF EvictOldestClosed, TypeOK
  <2>2. /\ bytes' = bytes \ FileBytes(t) /\ seg' = seg \ {t} /\ active' = active
        /\ evicted' = evicted \cup RecordsOf(FileBytes(t))
        /\ next_rec' = next_rec /\ receipts' = receipts /\ lost' = lost
    BY <1>11 DEF EvictOldestClosed
  <2>3. \A b \in bytes' : b \in bytes /\ b.seg # t
    BY <2>2 DEF FileBytes
  <2>4. t \in Nat /\ t # active
    BY <2>1 DEF TypeOK, FilesInv, OneFilePerId
  <2>5. \A s \in (seg \cup {active}) \cap Nat : t <= s
    BY <2>1, NoSegmentIsNoId DEF FilesInv, Numbered
  <2>6. ASSUME NEW g \in FileBytes(t), NEW b \in bytes', b.seg \in seg' \cup {active'}
        PROVE  g.rec < b.rec
    <3>1. g \in bytes /\ g.seg = t
      BY DEF FileBytes
    <3>2. b \in bytes /\ b.seg \in Nat /\ t < b.seg
      BY <1>1, <2>2, <2>3, <2>4, <2>5, <2>6
    <3>3. ~(b.rec <= g.rec)
      BY <2>4, <3>1, <3>2 DEF BytesInv
    <3> QED  BY <1>1, <3>1, <3>2, <3>3
  <2>7. \A gone \in evicted', b \in bytes' : b.seg \in seg' \cup {active'} => gone < b.rec
    BY <2>2, <2>3, <2>6 DEF RecordsOf
  <2>8. \A r \in evicted' : r < next_rec'
    BY <2>2 DEF RecordsOf, FileBytes, BytesInv
  <2>9. RecordsOf(bytes) \subseteq RecordsOf(bytes') \cup evicted'
    BY <2>2 DEF RecordsOf
  <2> QED  BY <2>2, <2>7, <2>8, <2>9
<1>12. CASE Close
  BY <1>1, <1>2, <1>12 DEF Close, history
<1>13. CASE Crash
  <2>1. PICK cut \in 0..next_rec :
           /\ bytes' = bytes \ {b \in bytes : b.seg \in wip /\ b.rec >= cut}
           /\ lost' = lost \cup RecordsOf({b \in bytes : b.seg \in wip /\ b.rec >= cut})
    BY <1>13 DEF Crash
  <2>2. bytes' \subseteq bytes
    BY <2>1
  <2>3. RecordsOf(bytes) \subseteq RecordsOf(bytes') \cup lost'
    BY <2>1 DEF RecordsOf
  <2>4. lost \subseteq lost'
    BY <2>1
  <2>5. /\ active' = NoSegment /\ seg' = seg /\ next_rec' = next_rec
        /\ receipts' = receipts /\ evicted' = evicted
    BY <1>13 DEF Crash
  <2> QED  BY <1>1, <2>2, <2>3, <2>4, <2>5
<1>14. CASE UNCHANGED vars
  BY <1>2, <1>14 DEF vars, disk, handle, history
<1> QED
  BY <1>3, <1>4, <1>6, <1>7, <1>8, <1>9, <1>10, <1>11, <1>12, <1>13, <1>14 DEF Next

(* The invariant holds in every reachable state of every instance.         *)
THEOREM LogInvariant == Spec => []LogInv
<1>1. LogInv /\ [Next]_vars => LogInv'
  BY TypeOKStep, FilesInvStep, BytesInvStep, HistoryInvStep DEF LogInv
<1> QED  BY <1>1, LogInvInit, PTL DEF Spec

(* No rename in rotate or in open lands on another segment's name.         *)
THEOREM FilesKeepTheirIds == Spec => []OneFilePerId
<1>1. LogInv => OneFilePerId
  BY DEF LogInv, FilesInv
<1> QED  BY <1>1, LogInvariant, PTL

(* The ids open() and rotate() hand out order the records on disk by age.  *)
THEOREM IdsAreChronological == Spec => []ChronologicalIds
<1>1. LogInv => ChronologicalIds
  BY DEF LogInv, TypeOK, BytesInv, ChronologicalIds
<1> QED  BY <1>1, LogInvariant, PTL

(* evict_oldest_closed always takes what is older than all it leaves.      *)
THEOREM EvictionIsOldestFirst == Spec => []OldestFirst
<1>1. LogInv => OldestFirst
  BY DEF LogInv, HistoryInv, OldestFirst, RecordsIn, RecordsOf
<1> QED  BY <1>1, LogInvariant, PTL

(* A record append acknowledged only goes by eviction or power failure.    *)
THEOREM AcknowledgedRecordsAreKept == Spec => []AcknowledgedIsKept
<1>1. LogInv => AcknowledgedIsKept
  BY DEF LogInv, HistoryInv
<1> QED  BY <1>1, LogInvariant, PTL

-----------------------------------------------------------------------------
(* Accounting and quota.                                                   *)

QuotaInv == AccountingExact /\ QuotaRespected

(* A write that stopped half way leaves its number without a receipt for   *)
(* good, so if there is none after a step there was none before.           *)
LEMMA WholeWritesBefore ==
  ASSUME LogInv, [Next]_vars, WholeWrites'
  PROVE  WholeWrites /\ \A n \in RecordSizes : ~AppendTorn(n)
<1> next_rec \in Nat /\ \A q \in receipts : q.rec \in Nat /\ q.rec < next_rec
  BY DEF LogInv, TypeOK, HistoryInv
<1> USE DEF WholeWrites
<1>1. ASSUME next_rec' = next_rec, receipts' = receipts
      PROVE  WholeWrites
  BY <1>1
<1>2. ASSUME NEW n \in RecordSizes, Append(n)
      PROVE  WholeWrites
  <2>1. next_rec' = next_rec + 1
    BY <1>2 DEF Append, Place
  <2>2. receipts' = receipts \cup {[rec |-> next_rec, seg |-> Target(n), off |-> Offset(n)]}
    BY <1>2 DEF Append
  <2>3. ASSUME NEW r \in 0..(next_rec - 1)
        PROVE  \E q \in receipts : q.rec = r
    <3>1. PICK q \in receipts' : q.rec = r
      BY <2>1
    <3> QED  BY <2>2, <3>1
  <2> QED  BY <2>3
<1>3. ASSUME NEW n \in RecordSizes PROVE ~AppendTorn(n)
  <2> SUFFICES ASSUME AppendTorn(n) PROVE FALSE
    OBVIOUS
  <2>1. next_rec' = next_rec + 1 /\ receipts' = receipts
    BY DEF AppendTorn, Place
  <2>2. \E q \in receipts : q.rec = next_rec
    BY <2>1
  <2> QED  BY <2>2
<1>4. WholeWrites
  <2>1. CASE Next
    BY <1>1, <1>2, <1>3, <2>1
       DEF Next, Open, OpenFails, Rotate, RotateFailsToClose, RotateFailsToOpen,
           EvictOldestClosed, Close, Crash, history
  <2>2. CASE UNCHANGED vars
    BY <1>1, <2>2 DEF vars, history
  <2> QED  BY <2>1, <2>2
<1> QED  BY <1>3, <1>4

LEMMA QuotaInvStep == LogInv /\ QuotaInv /\ [Next]_vars => QuotaInv'
<1> SUFFICES ASSUME LogInv, QuotaInv, [Next]_vars, WholeWrites' PROVE QuotaInv'
  BY DEF QuotaInv, AccountingExact, QuotaRespected
<1>0. WholeWrites /\ \A n \in RecordSizes : ~AppendTorn(n)
  BY WholeWritesBefore
<1> USE DEF QuotaInv, AccountingExact, QuotaRespected
<1>1. IsFiniteSet(bytes) /\ Cardinality(bytes) \in Nat
  BY FS_CardinalityType DEF LogInv, BytesInv
<1>2. ASSUME bytes' = bytes, up' = up, total_bytes' = total_bytes
      PROVE  QuotaInv'
  BY <1>0, <1>2
<1>3. CASE Open
  BY <1>0, <1>3 DEF Open, BytesAtOpen
<1>4. CASE OpenFails
  BY <1>2, <1>4 DEF OpenFails, handle
<1>5. ASSUME NEW n \in RecordSizes, Append(n)
      PROVE  QuotaInv'
  <2> DEFINE C == Cells(Target(n), next_rec, n)
  <2>1. n \in Nat
    BY SizesAreNat
  <2>2. IsFiniteSet(C) /\ Cardinality(C) = n
    BY <2>1, CellsCardinality
  <2>3. bytes \cap C = {}
    BY DEF Cells, LogInv, TypeOK, BytesInv
  <2>4. bytes' = bytes \cup C
    BY <1>5 DEF Append
  <2>5. Cardinality(bytes') = Cardinality(bytes) + n
    <3>1. Cardinality(bytes \cup C) = Cardinality(bytes) + Cardinality(C) - Cardinality(bytes \cap C)
      BY <1>1, <2>2, FS_Union
    <3>2. Cardinality(bytes \cap C) = 0
      BY <2>3, FS_EmptySet
    <3> HIDE DEF C
    <3> QED  BY <1>1, <2>1, <2>2, <2>4, <3>1, <3>2
  <2>6. /\ up /\ total_bytes + n <= QuotaLimit
        /\ total_bytes' = total_bytes + n
    BY <1>5 DEF Append, Place, Fits
  <2>7. total_bytes = Cardinality(bytes)
    BY <1>0, <2>6
  <2> QED  BY <2>5, <2>6, <2>7
<1>6. ASSUME NEW n \in RecordSizes, AppendTorn(n)
      PROVE  QuotaInv'
  BY <1>0, <1>6
<1>7. CASE Rotate
  BY <1>2, <1>7 DEF Rotate
<1>8. CASE RotateFailsToClose
  BY <1>2, <1>8 DEF RotateFailsToClose, disk
<1>9. CASE RotateFailsToOpen
  BY <1>2, <1>9 DEF RotateFailsToOpen
<1>10. CASE EvictOldestClosed
  <2> DEFINE F == FileBytes(Oldest(seg))
             size == Cardinality(F)
  <2>1. F \subseteq bytes /\ bytes \cap F = F
    BY DEF FileBytes
  <2>2. size \in Nat /\ size <= Cardinality(bytes)
    BY <1>1, <2>1, FS_Subset, FS_CardinalityType
  <2>3. Cardinality(bytes \ F) = Cardinality(bytes) - Cardinality(bytes \cap F)
    BY <1>1, FS_Difference
  <2>4. /\ up /\ bytes' = bytes \ F
        /\ total_bytes' = IF size <= total_bytes THEN total_bytes - size ELSE 0
    BY <1>10 DEF EvictOldestClosed
  <2>5. total_bytes = Cardinality(bytes)
    BY <1>0, <2>4
  <2>6. Cardinality(bytes') = Cardinality(bytes) - size
    BY <2>1, <2>3, <2>4
  <2>7. total_bytes' = Cardinality(bytes')
    BY <1>1, <2>2, <2>4, <2>5, <2>6
  <2>8. Cardinality(bytes') <= QuotaLimit
    <3> HIDE DEF size
    <3> QED  BY <1>0, <1>1, <2>2, <2>6, LimitsAreNat
  <2> QED  BY <2>7, <2>8
<1>11. CASE Close
  BY <1>0, <1>11 DEF Close
<1>12. CASE Crash
  <2>1. bytes' \subseteq bytes
    BY <1>12 DEF Crash
  <2>2. Cardinality(bytes') \in Nat /\ Cardinality(bytes') <= Cardinality(bytes)
    BY <1>1, <2>1, FS_Subset, FS_CardinalityType
  <2>3. up' = FALSE
    BY <1>12 DEF Crash
  <2> QED  BY <1>0, <1>1, <2>2, <2>3, LimitsAreNat
<1>13. CASE UNCHANGED vars
  BY <1>2, <1>13 DEF vars, disk, handle
<1> QED
  BY <1>3, <1>4, <1>5, <1>6, <1>7, <1>8, <1>9, <1>10, <1>11, <1>12, <1>13 DEF Next

LEMMA QuotaInvariant == Spec => []QuotaInv
<1>1. Init => QuotaInv
  BY FS_EmptySet, LimitsAreNat DEF Init, QuotaInv, AccountingExact, QuotaRespected
<1>2. LogInv /\ QuotaInv /\ [Next]_vars => QuotaInv'
  BY QuotaInvStep
<1> QED  BY <1>1, <1>2, LogInvariant, PTL DEF Spec

(* total_bytes counts the directory exactly, through rotations that fail,  *)
(* crashes, reopens and evictions, as long as no write has been torn.      *)
THEOREM CounterIsExact == Spec => []AccountingExact
<1>1. QuotaInv => AccountingExact
  BY DEF QuotaInv
<1> QED  BY <1>1, QuotaInvariant, PTL

(* OPS-12, whatever the record sizes, the segment size and the quota.      *)
THEOREM DirectoryFitsQuota == Spec => []QuotaRespected
<1>1. QuotaInv => QuotaRespected
  BY DEF QuotaInv
<1> QED  BY <1>1, QuotaInvariant, PTL

-----------------------------------------------------------------------------
(* Receipts.  A record on disk is in the segment its receipt names, and in *)
(* the active segment it lies below written_bytes, where the next one goes.*)
ReceiptsInv ==
  /\ ReceiptsNameRecords
  /\ \A r \in receipts, b \in bytes : b.rec = r.rec => b.seg = r.seg
  /\ \A r \in receipts :
       up /\ r.rec \in RecordsOf(bytes) /\ r.seg = active => r.off < written_bytes

LEMMA ReceiptsInvStep == LogInv /\ ReceiptsInv /\ [Next]_vars => ReceiptsInv'
<1> SUFFICES ASSUME LogInv, ReceiptsInv, [Next]_vars PROVE ReceiptsInv'
  OBVIOUS
<1>0. /\ \A b \in bytes : b.rec \in Nat /\ b.rec < next_rec /\ b.seg \in Numbered
      /\ \A r \in receipts : r.rec \in Nat /\ r.rec < next_rec /\ r.seg \in Nat /\ r.off \in Nat
      /\ up => \A s \in Numbered : s < next_seg_id
      /\ next_rec \in Nat /\ written_bytes \in Nat /\ next_seg_id \in Nat
  BY DEF LogInv, TypeOK, FilesInv, BytesInv, HistoryInv
<1>r. \A r \in receipts : r.rec \in RecordsOf(bytes) => r.seg \in Numbered
  BY <1>0 DEF ReceiptsInv, RecordsOf
<1>1. ASSUME bytes' \subseteq bytes, receipts' = receipts,
             \/ ~up'
             \/ active' = NoSegment
             \/ up /\ active' = next_seg_id
             \/ (up' => up) /\ active' = active /\ written_bytes' = written_bytes
      PROVE  ReceiptsInv'
  <2>1. RecordsOf(bytes') \subseteq RecordsOf(bytes)
    BY <1>1 DEF RecordsOf
  <2>2. ReceiptsNameRecords'
    BY <1>1, <2>1 DEF ReceiptsInv, ReceiptsNameRecords
  <2>3. \A r \in receipts', b \in bytes' : b.rec = r.rec => b.seg = r.seg
    BY <1>1 DEF ReceiptsInv
  <2>4. ASSUME NEW r \in receipts', up', r.rec \in RecordsOf(bytes'), r.seg = active'
        PROVE  r.off < written_bytes'
    <3>1. r.seg \in Nat /\ r.seg \in Numbered
      BY <1>0, <1>1, <1>r, <2>1, <2>4
    <3>2. (up' => up) /\ active' = active /\ written_bytes' = written_bytes
      <4>1. active' # NoSegment
        BY <2>4, <3>1, NoSegmentIsNoId
      <4>2. active' # next_seg_id \/ ~up
        BY <1>0, <2>4, <3>1
      <4>3. up'
        BY <2>4
      <4> QED  BY <1>1, <4>1, <4>2, <4>3
    <3>3. up /\ r \in receipts /\ r.rec \in RecordsOf(bytes) /\ r.seg = active
      BY <1>1, <2>1, <2>4, <3>2
    <3>4. r.off < written_bytes
      BY <3>3 DEF ReceiptsInv
    <3> QED  BY <3>2, <3>4
  <2> QED  BY <2>2, <2>3, <2>4 DEF ReceiptsInv
<1>2. CASE Open
  <2>1. bytes' \subseteq bytes /\ receipts' = receipts /\ active' = NoSegment
    BY <1>2 DEF Open
  <2> QED  BY <1>1, <2>1
<1>3. CASE OpenFails
  <2>1. /\ bytes' \subseteq bytes /\ receipts' = receipts
        /\ (up' => up) /\ active' = active /\ written_bytes' = written_bytes
    BY <1>3 DEF OpenFails, handle
  <2> QED  BY <1>1, <2>1
<1>p. ASSUME NEW n \in RecordSizes, Place(n),
             NEW r \in receipts, r.rec \in RecordsOf(bytes), r.seg = Target(n)
      PROVE  ~MustRotate(n) /\ r.seg = active /\ r.off < Offset(n)
  <2>1. up
    BY <1>p DEF Place
  <2>2. r.seg < next_seg_id /\ r.seg # next_seg_id
    BY <1>0, <1>p, <1>r, <2>1
  <2> QED  BY <1>p, <2>1, <2>2 DEF Target, Offset, ReceiptsInv
<1>4. ASSUME NEW n \in RecordSizes, Append(n) PROVE ReceiptsInv'
  <2> DEFINE new == [rec |-> next_rec, seg |-> Target(n), off |-> Offset(n)]
  <2>1. /\ Place(n) /\ receipts' = receipts \cup {new}
        /\ bytes' = bytes \cup Cells(Target(n), next_rec, n)
        /\ written_bytes' = Offset(n) + n /\ active' = Target(n)
    BY <1>4 DEF Append, Place
  <2>2. \A b \in Cells(Target(n), next_rec, n) : b.seg = Target(n) /\ b.rec = next_rec
    BY DEF Cells
  <2>3. \A r \in receipts : r.rec # next_rec
                           /\ (r.rec \in RecordsOf(bytes') => r.rec \in RecordsOf(bytes))
    BY <1>0, <2>1, <2>2 DEF RecordsOf
  <2>4. n \in Nat \ {0} /\ Offset(n) \in Nat
    BY <1>0, SizesAreNat DEF Offset
  <2>5. \A r \in receipts :
          r.rec \in RecordsOf(bytes') /\ r.seg = Target(n) => r.off < Offset(n)
    BY <1>p, <2>1, <2>3
  <2>6. ReceiptsNameRecords'
    <3> SUFFICES ASSUME NEW r \in receipts', NEW q \in receipts', r.seg = q.seg, r.off = q.off,
                        r.rec \in RecordsOf(bytes'), q.rec \in RecordsOf(bytes')
                 PROVE  r = q
      BY DEF ReceiptsNameRecords
    <3>1. CASE r \in receipts /\ q \in receipts
      BY <2>3, <3>1 DEF ReceiptsInv, ReceiptsNameRecords
    <3>2. CASE r = new /\ q \in receipts
      BY <1>0, <2>4, <2>5, <3>2
    <3>3. CASE q = new /\ r \in receipts
      BY <1>0, <2>4, <2>5, <3>3
    <3> QED  BY <2>1, <3>1, <3>2, <3>3
  <2>7. \A r \in receipts', b \in bytes' : b.rec = r.rec => b.seg = r.seg
    <3> SUFFICES ASSUME NEW r \in receipts', NEW b \in bytes', b.rec = r.rec
                 PROVE  b.seg = r.seg
      OBVIOUS
    <3>1. CASE r \in receipts /\ b \in bytes
      BY <3>1 DEF ReceiptsInv
    <3>2. CASE r \in receipts /\ b \notin bytes
      BY <2>1, <2>2, <2>3, <3>2
    <3>3. CASE r = new
      BY <1>0, <2>1, <2>2, <3>3
    <3> QED  BY <2>1, <3>1, <3>2, <3>3
  <2>8. \A r \in receipts' :
          r.rec \in RecordsOf(bytes') /\ r.seg = active' => r.off < written_bytes'
    BY <1>0, <2>1, <2>4, <2>5
  <2> QED  BY <2>6, <2>7, <2>8 DEF ReceiptsInv
<1>5. ASSUME NEW n \in RecordSizes, AppendTorn(n) PROVE ReceiptsInv'
  <2>1. PICK k \in 0..(n - 1) : bytes' = bytes \cup Cells(Target(n), next_rec, k)
    BY <1>5 DEF AppendTorn
  <2>2. /\ Place(n) /\ receipts' = receipts
        /\ written_bytes' = Offset(n) /\ active' = Target(n)
    BY <1>5 DEF AppendTorn, Place
  <2>3. \A b \in Cells(Target(n), next_rec, k) : b.rec = next_rec
    BY DEF Cells
  <2>4. \A r \in receipts : r.rec # next_rec
                           /\ (r.rec \in RecordsOf(bytes') => r.rec \in RecordsOf(bytes))
    BY <1>0, <2>1, <2>3 DEF RecordsOf
  <2>5. ReceiptsNameRecords'
    BY <2>2, <2>4 DEF ReceiptsInv, ReceiptsNameRecords
  <2>6. \A r \in receipts', b \in bytes' : b.rec = r.rec => b.seg = r.seg
    BY <2>1, <2>2, <2>3, <2>4 DEF ReceiptsInv
  <2>7. \A r \in receipts' :
          r.rec \in RecordsOf(bytes') /\ r.seg = active' => r.off < written_bytes'
    BY <1>p, <2>2, <2>4
  <2> QED  BY <2>5, <2>6, <2>7 DEF ReceiptsInv
<1>6. CASE Rotate
  BY <1>1, <1>6 DEF Rotate, history
<1>7. CASE RotateFailsToClose
  BY <1>1, <1>7 DEF RotateFailsToClose, disk, history
<1>8. CASE RotateFailsToOpen
  BY <1>1, <1>8 DEF RotateFailsToOpen, history
<1>9. CASE EvictOldestClosed
  BY <1>1, <1>9 DEF EvictOldestClosed
<1>10. CASE Close
  BY <1>1, <1>10 DEF Close, history
<1>11. CASE Crash
  BY <1>1, <1>11 DEF Crash
<1>12. CASE UNCHANGED vars
  BY <1>1, <1>12 DEF vars, disk, handle, history
<1> QED
  BY <1>2, <1>3, <1>4, <1>5, <1>6, <1>7, <1>8, <1>9, <1>10, <1>11, <1>12 DEF Next

(* segment_log.rs:54-60: as long as its record is on disk a receipt names  *)
(* that record and no other, across evictions, restarts and torn writes,   *)
(* although ids are handed out again.                                      *)
THEOREM ReceiptsAreUnambiguous == Spec => []ReceiptsNameRecords
<1>1. Init => ReceiptsInv
  BY DEF Init, ReceiptsInv, ReceiptsNameRecords
<1>2. LogInv /\ ReceiptsInv /\ [Next]_vars => ReceiptsInv'
  BY ReceiptsInvStep
<1>3. ReceiptsInv => ReceiptsNameRecords
  BY DEF ReceiptsInv
<1> QED  BY <1>1, <1>2, <1>3, LogInvariant, PTL DEF Spec

-----------------------------------------------------------------------------
(* Closed segments and the abstract ledger.                                *)

(* A closed segment only ever disappears whole.                            *)
THEOREM ClosedSegmentsAreImmutable == Spec => ClosedIsImmutable
<1> DEFINE Same == \A s \in seg : s \in seg' => {b \in bytes' : b.seg = s} = FileBytes(s)
<1>1. LogInv /\ [Next]_vars => [Same]_vars
  <2> SUFFICES ASSUME LogInv, Next PROVE Same
    OBVIOUS
  <2>1. ASSUME bytes' = bytes PROVE Same
    BY <2>1 DEF FileBytes
  <2>2. ASSUME NEW n \in RecordSizes, NEW k, Place(n),
               bytes' = bytes \cup Cells(Target(n), next_rec, k)
        PROVE  Same
    <3>1. \A b \in Cells(Target(n), next_rec, k) : b.seg = Target(n)
      BY DEF Cells
    <3>2. Target(n) \notin seg
      BY <2>2, NoSegmentIsNoId
         DEF Place, Target, MustRotate, LogInv, TypeOK, FilesInv, OneFilePerId, Numbered
    <3> QED  BY <2>2, <3>1, <3>2 DEF FileBytes
  <2>3. CASE Open \/ OpenFails
    BY <2>1, <2>3 DEF Open, OpenFails
  <2>4. ASSUME NEW n \in RecordSizes, Append(n) \/ AppendTorn(n) PROVE Same
    BY <2>2, <2>4 DEF Append, AppendTorn
  <2>5. CASE Rotate \/ RotateFailsToClose \/ RotateFailsToOpen \/ Close
    BY <2>1, <2>5 DEF Rotate, RotateFailsToClose, RotateFailsToOpen, Close, disk
  <2>6. CASE EvictOldestClosed
    BY <2>6 DEF EvictOldestClosed, FileBytes
  <2>7. CASE Crash
    BY <2>7 DEF Crash, FileBytes, LogInv, FilesInv, OneFilePerId
  <2> QED  BY <2>3, <2>4, <2>5, <2>6, <2>7 DEF Next
<1> QED  BY <1>1, LogInvariant, PTL DEF Spec, ClosedIsImmutable

LEMMA LedgerInit == Init => Ledger!Init
BY DEF Init, Ledger!Init, RecordsIn, RecordsOf

(* Every step of the log is a step of the ledger or changes nothing in it. *)
LEMMA LedgerStep == LogInv /\ [Next]_vars => [Ledger!Next]_Ledger!ledger
<1> SUFFICES ASSUME LogInv, [Next]_vars
             PROVE  Ledger!Next \/ UNCHANGED Ledger!ledger
  OBVIOUS
<1> DEFINE sealed == RecordsIn(seg)
           pending == RecordsIn({active})
           aside == RecordsIn((wip \ {active}) \cup quarantine)
<1>1. \A b \in bytes : /\ b.seg \in Nat /\ b.seg # NoSegment /\ b.rec \in Nat /\ b.rec < next_rec
                       /\ b.seg \in Numbered /\ (up => b.seg < next_seg_id)
  BY NoSegmentIsNoId DEF LogInv, TypeOK, FilesInv, BytesInv, Numbered
<1>2. active = NoSegment => pending = {}
  BY <1>1 DEF RecordsIn, RecordsOf
<1>3. wip \cap seg = {} /\ wip \cap quarantine = {} /\ seg \cap quarantine = {}
  BY DEF LogInv, FilesInv, OneFilePerId
<1>4. CASE Open
  <2>1. /\ sealed' = sealed
        /\ active = NoSegment /\ active' = NoSegment /\ bytes' = bytes
        /\ quarantine' = quarantine \cup wip /\ wip' = {}
    BY <1>4 DEF Open, LogInv, FilesInv, RecordsIn, RecordsOf
  <2>2. (wip' \ {active'}) \cup quarantine' = (wip \ {active}) \cup quarantine
    BY <2>1, NoSegmentIsNoId DEF LogInv, TypeOK
  <2>3. pending' = pending /\ aside' = aside
    BY <2>1, <2>2 DEF RecordsIn, RecordsOf
  <2> QED  BY <2>1, <2>3 DEF Ledger!ledger
<1>5. CASE OpenFails
  <2>1. /\ sealed' = sealed /\ pending' = pending
        /\ active = NoSegment /\ active' = NoSegment /\ bytes' = bytes
        /\ quarantine' \cup wip' = quarantine \cup wip
    BY <1>5 DEF OpenFails, handle, LogInv, FilesInv, RecordsIn, RecordsOf
  <2>2. (wip' \ {active'}) \cup quarantine' = (wip \ {active}) \cup quarantine
    BY <1>5, <2>1, NoSegmentIsNoId DEF LogInv, TypeOK, OpenFails
  <2>3. aside' = aside
    BY <2>1, <2>2 DEF RecordsIn, RecordsOf
  <2> QED  BY <2>1, <2>3 DEF Ledger!ledger
<1>6. ASSUME bytes' = bytes, up,
             seg' = seg \cup ({active} \ {NoSegment}),
             active' = NoSegment \/ active' = next_seg_id,
             wip' \ {active'} = wip \ {active}, quarantine' = quarantine
      PROVE  Ledger!Seal
  <2>1. pending' = {}
    BY <1>1, <1>6 DEF RecordsIn, RecordsOf
  <2>2. sealed' = sealed \cup pending
    BY <1>1, <1>6 DEF RecordsIn, RecordsOf
  <2>3. aside' = aside
    BY <1>6 DEF RecordsIn
  <2> QED  BY <2>1, <2>2, <2>3 DEF Ledger!Seal
<1>7. ASSUME up PROVE next_seg_id \notin wip /\ wip \ {NoSegment} = wip /\ next_seg_id # NoSegment
  <2>1. \A s \in wip : s \in Nat /\ s < next_seg_id
    BY <1>7 DEF LogInv, TypeOK, FilesInv, Numbered
  <2>2. next_seg_id \in Nat
    BY DEF LogInv, TypeOK
  <2> QED  BY <2>1, <2>2, NoSegmentIsNoId
<1>8. ASSUME NEW n \in RecordSizes, NEW k \in Nat, Place(n), quarantine' = quarantine,
             bytes' = bytes \cup Cells(Target(n), next_rec, k)
      PROVE  Ledger!Next \/ UNCHANGED Ledger!ledger
  <2>1. up /\ active' = Target(n) /\ next_rec \in 0..(MaxRecords - 1)
    BY <1>8, BoundsAreNat DEF Place, LogInv, TypeOK
  <2>2. \A b \in Cells(Target(n), next_rec, k) : b.rec = next_rec /\ b.seg = Target(n)
    BY DEF Cells
  <2>3. \A q \in sealed \cup pending \cup aside : q < next_rec
    BY <1>1 DEF RecordsIn, RecordsOf
  <2>4. CASE MustRotate(n)
    <3>1. /\ wip' = (wip \ {active}) \cup {next_seg_id}
          /\ seg' = seg \cup ({active} \ {NoSegment})
          /\ active' = next_seg_id /\ Target(n) = next_seg_id
      BY <1>8, <2>1, <2>4 DEF Place, RotateFiles, Target
    <3>2. wip' \ {active'} = wip \ {active}
      BY <1>7, <2>1, <3>1
    <3>3. CASE k = 0
      <4>1. bytes' = bytes
        BY <1>8, <3>3 DEF Cells
      <4> QED  BY <1>6, <1>8, <2>1, <3>1, <3>2, <4>1 DEF Ledger!Next
    <3>4. CASE k # 0
      <4>1. pending' = {next_rec}
        <5>1. [seg |-> next_seg_id, rec |-> next_rec, off |-> 0] \in bytes'
          BY <1>8, <3>1, <3>4 DEF Cells
        <5> QED  BY <1>1, <1>8, <2>1, <2>2, <3>1, <5>1 DEF RecordsIn, RecordsOf
      <4>2. next_seg_id \notin seg' /\ next_seg_id \notin (wip \ {active}) \cup quarantine
        BY <1>7, <2>1, <3>1, NoSegmentIsNoId DEF LogInv, TypeOK, FilesInv, OneFilePerId, Numbered
      <4>3. \A b \in bytes' : b.seg # next_seg_id => b \in bytes
        BY <1>8, <2>2, <3>1
      <4>4. sealed' = sealed \cup pending
        BY <1>1, <1>8, <3>1, <4>2, <4>3 DEF RecordsIn, RecordsOf
      <4>5. aside' = aside
        BY <1>8, <3>2, <4>2, <4>3 DEF RecordsIn, RecordsOf
      <4> QED
        BY <2>1, <2>3, <4>1, <4>4, <4>5 DEF Ledger!Next, Ledger!SealAndAccept, Ledger!Younger
    <3> QED  BY <3>3, <3>4
  <2>5. CASE ~MustRotate(n)
    <3>1. /\ wip' = wip /\ seg' = seg /\ active' = active /\ Target(n) = active
          /\ active # NoSegment
      BY <1>8, <2>1, <2>5 DEF Place, Target, MustRotate
    <3>2. active \notin seg /\ active \notin (wip \ {active}) \cup quarantine
      BY <3>1 DEF LogInv, FilesInv, OneFilePerId
    <3>3. \A b \in bytes' : b.seg # active => b \in bytes
      BY <1>8, <2>2, <3>1
    <3>4. sealed' = sealed /\ aside' = aside
      BY <1>8, <3>1, <3>2, <3>3 DEF RecordsIn, RecordsOf
    <3>5. CASE k = 0
      <4>1. bytes' = bytes
        BY <1>8, <3>5 DEF Cells
      <4>2. pending' = pending
        BY <3>1, <4>1 DEF RecordsIn
      <4> QED  BY <3>4, <4>2 DEF Ledger!ledger
    <3>6. CASE k # 0
      <4>1. pending' = pending \cup {next_rec}
        <5>1. [seg |-> active, rec |-> next_rec, off |-> 0] \in bytes'
          BY <1>8, <3>1, <3>6 DEF Cells
        <5> QED  BY <1>8, <2>2, <3>1, <5>1 DEF RecordsIn, RecordsOf
      <4> QED  BY <2>1, <2>3, <3>4, <4>1 DEF Ledger!Next, Ledger!Accept, Ledger!Younger
    <3> QED  BY <3>5, <3>6
  <2> QED  BY <2>4, <2>5
<1>9. ASSUME NEW n \in RecordSizes, Append(n)
      PROVE  Ledger!Next \/ UNCHANGED Ledger!ledger
  <2>1. n \in Nat
    BY SizesAreNat
  <2> QED  BY <1>8, <1>9, <2>1 DEF Append
<1>10. ASSUME NEW n \in RecordSizes, AppendTorn(n)
       PROVE  Ledger!Next \/ UNCHANGED Ledger!ledger
  <2>1. PICK k \in 0..(n - 1) : bytes' = bytes \cup Cells(Target(n), next_rec, k)
    BY <1>10 DEF AppendTorn
  <2>2. k \in Nat
    BY SizesAreNat
  <2> QED  BY <1>8, <1>10, <2>1, <2>2 DEF AppendTorn
<1>11. CASE Rotate
  <2>1. up /\ active' = next_seg_id /\ wip' = (wip \ {active}) \cup {next_seg_id}
    BY <1>11 DEF Rotate, RotateFiles
  <2>2. wip' \ {active'} = wip \ {active}
    BY <1>7, <2>1
  <2>3. Ledger!Seal
    BY <1>6, <1>11, <2>1, <2>2 DEF Rotate, RotateFiles
  <2> QED  BY <2>3 DEF Ledger!Next
<1>12. CASE RotateFailsToClose
  <2>1. /\ active \in wip /\ active' = NoSegment /\ wip' = wip /\ seg' = seg
        /\ quarantine' = quarantine /\ bytes' = bytes /\ up
    BY <1>12 DEF RotateFailsToClose, disk, LogInv, FilesInv, OneFilePerId
  <2>2. (wip' \ {active'}) \cup quarantine' = ((wip \ {active}) \cup quarantine) \cup {active}
    BY <1>7, <2>1
  <2>3. aside' = aside \cup pending
    BY <2>1, <2>2 DEF RecordsIn, RecordsOf
  <2>4. pending' = {} /\ sealed' = sealed
    BY <1>1, <2>1 DEF RecordsIn, RecordsOf
  <2> QED  BY <2>3, <2>4 DEF Ledger!Next, Ledger!SetAside
<1>13. CASE RotateFailsToOpen
  <2>1. up /\ active' = NoSegment /\ wip' = wip \ {active}
    BY <1>13 DEF RotateFailsToOpen
  <2>2. wip' \ {active'} = wip \ {active}
    BY <1>7, <2>1
  <2>3. Ledger!Seal
    BY <1>6, <1>13, <2>1, <2>2 DEF RotateFailsToOpen
  <2> QED  BY <2>3 DEF Ledger!Next
<1>14. CASE Close
  <2>1. /\ up /\ active' = NoSegment /\ wip' = wip \ {active}
        /\ seg' = seg \cup ({active} \ {NoSegment})
    BY <1>7, <1>14 DEF Close
  <2>2. wip' \ {active'} = wip \ {active}
    BY <1>7, <2>1
  <2>3. Ledger!Seal
    BY <1>6, <1>14, <2>1, <2>2 DEF Close
  <2> QED  BY <2>3 DEF Ledger!Next
<1>15. CASE EvictOldestClosed
  <2> DEFINE t == Oldest(seg)
  <2>1. t \in seg /\ \A s \in seg : t <= s
    BY <1>15, OldestExists DEF EvictOldestClosed, LogInv, TypeOK
  <2>2. /\ bytes' = bytes \ FileBytes(t) /\ seg' = seg \ {t} /\ active' = active
        /\ wip' = wip /\ quarantine' = quarantine
    BY <1>15 DEF EvictOldestClosed
  <2>3. t \notin (wip \ {active}) \cup quarantine /\ t # active
    BY <1>3, <2>1, NoSegmentIsNoId DEF LogInv, TypeOK, FilesInv, OneFilePerId
  <2>4. pending' = pending /\ aside' = aside
    BY <2>2, <2>3 DEF RecordsIn, RecordsOf, FileBytes
  <2>5. sealed' \subseteq sealed
    BY <2>2 DEF RecordsIn, RecordsOf
  <2>6. ASSUME NEW gone \in sealed \ sealed', NEW kept \in sealed'
        PROVE  gone < kept
    <3>1. PICK g \in bytes : g.rec = gone /\ g.seg \in seg
      BY DEF RecordsIn, RecordsOf
    <3>2. PICK b \in bytes' : b.rec = kept /\ b.seg \in seg'
      BY DEF RecordsIn, RecordsOf
    <3>3. g.seg = t
      BY <2>2, <3>1 DEF RecordsIn, RecordsOf, FileBytes
    <3>4. b \in bytes /\ t < b.seg
      BY <1>1, <2>1, <2>2, <3>2, <3>3, <3>1
    <3>5. ~(b.rec <= g.rec)
      BY <1>1, <3>1, <3>3, <3>4 DEF LogInv, BytesInv
    <3> QED  BY <1>1, <3>1, <3>2, <3>4, <3>5
  <2> QED  BY <2>4, <2>5, <2>6 DEF Ledger!Next, Ledger!Expire
<1>16. CASE Crash
  <2>1. PICK cut \in 0..next_rec : bytes' = bytes \ {b \in bytes : b.seg \in wip /\ b.rec >= cut}
    BY <1>16 DEF Crash
  <2>2. /\ active' = NoSegment /\ wip' = wip /\ seg' = seg /\ quarantine' = quarantine /\ up
    BY <1>16 DEF Crash
  <2>3. pending' = {}
    BY <1>1, <2>1, <2>2 DEF RecordsIn, RecordsOf
  <2>4. sealed' = sealed
    BY <1>3, <2>1, <2>2 DEF RecordsIn, RecordsOf
  <2>5. aside' \subseteq aside \cup pending
    BY <2>1, <2>2 DEF RecordsIn, RecordsOf
  <2>6. ASSUME NEW gone \in (aside \cup pending) \ aside', NEW kept \in aside'
        PROVE  kept < gone
    <3>1. PICK g \in bytes : g.rec = gone /\ g.seg \in wip \cup quarantine
      BY <1>2 DEF RecordsIn, RecordsOf, LogInv, FilesInv, OneFilePerId
    <3>2. PICK b \in bytes' : b.rec = kept /\ b.seg \in wip \cup quarantine
      BY <2>2 DEF RecordsIn, RecordsOf
    <3>3. g \notin bytes'
      BY <1>1, <2>2, <3>1 DEF RecordsIn, RecordsOf
    <3>4. g.seg \in wip /\ cut <= g.rec
      BY <1>1, <2>1, <3>1, <3>3
    <3>5. CASE b.seg \in wip
      BY <1>1, <2>1, <3>1, <3>2, <3>4, <3>5
    <3>6. CASE b.seg \in quarantine
      <4>1. b.seg < g.seg
        BY <2>2, <3>4, <3>6 DEF LogInv, FilesInv
      <4>2. ~(g.rec <= b.rec)
        BY <1>1, <2>1, <3>2, <4>1 DEF LogInv, BytesInv
      <4> QED  BY <1>1, <2>1, <3>1, <3>2, <4>2
    <3> QED  BY <3>2, <3>5, <3>6
  <2> QED  BY <2>3, <2>4, <2>5, <2>6 DEF Ledger!Next, Ledger!SetAside
<1>17. CASE UNCHANGED vars
  BY <1>17 DEF vars, disk, handle, Ledger!ledger, RecordsIn
<1> QED
  BY <1>4, <1>5, <1>9, <1>10, <1>11, <1>12, <1>13, <1>14, <1>15, <1>16, <1>17 DEF Next

(* The segmented log implements the evidence ledger: the rest of the       *)
(* daemon may reason about it without files, ids or byte counts.           *)
THEOREM LogImplementsLedger == Spec => ImplementsLedger
<1>1. [Next]_vars /\ LogInv => [Ledger!Next]_Ledger!ledger
  BY LedgerStep
<1> QED  BY <1>1, LedgerInit, LogInvariant, PTL DEF Spec, ImplementsLedger, Ledger!Spec

-----------------------------------------------------------------------------
(* Every step of the composition is a step of the log or leaves it alone.  *)
LEMMA DriverStepIsLogStep == [EvictionNext]_evars => [Next]_vars
  BY DEF EvictionNext, Wake, EvictOne, GiveUp, Check, Traffic, Stop,
         AppendCannotRotate, Next, evars

(* With the driver running, the evidence log still is the SegmentLog of    *)
(* segment_log.rs.                                                         *)
THEOREM DriverImplementsLog == EvictionSpec => Spec
<1>1. EvictionInit => Init
  BY DEF EvictionInit
<1> QED  BY <1>1, DriverStepIsLogStep, PTL DEF EvictionSpec, Spec

-----------------------------------------------------------------------------
(* The driver's invariant.                                                 *)
DriverIInv == DriverTypeOK /\ DriverInv

(* Traffic on the log never takes pressure away.                           *)
LEMMA TrafficAddsBytes ==
  ASSUME LogInv, up, Traffic
  PROVE  up' /\ total_bytes' \in Nat /\ total_bytes <= total_bytes'
<1> total_bytes \in Nat
  BY DEF LogInv, TypeOK
<1>1. CASE Open \/ OpenFails
  BY <1>1 DEF Open, OpenFails
<1>2. CASE \E n \in RecordSizes : Append(n)
  <2>1. PICK n \in RecordSizes : Append(n)
    BY <1>2
  <2>2. n \in Nat
    BY SizesAreNat
  <2> QED  BY <2>1, <2>2 DEF Append, Place
<1>3. CASE \E n \in RecordSizes : AppendTorn(n)
  BY <1>3 DEF AppendTorn, Place
<1>4. CASE AppendCannotRotate
  <2>1. total_bytes' = total_bytes /\ up' = up
    BY <1>4 DEF AppendCannotRotate, RotateFailsToClose, RotateFailsToOpen
  <2> QED  BY <2>1
<1> QED  BY <1>1, <1>2, <1>3, <1>4 DEF Traffic

(* Pressure once seen is still there when no byte went away.               *)
LEMMA PressurePersists ==
  ASSUME NEW pct \in Nat, total_bytes \in Nat, total_bytes' \in Nat,
         total_bytes <= total_bytes', FillAtLeast(pct)
  PROVE  FillAtLeast(pct)'
<1> DEFINE mark == pct * QuotaLimit
<1>1. mark \in Nat /\ 100 * total_bytes >= mark
  BY LimitsAreNat DEF FillAtLeast
<1>2. FillAtLeast(pct)' <=> 100 * total_bytes' >= mark
  BY DEF FillAtLeast
<1>3. 100 * total_bytes' >= mark
  <2>1. \A a, b, m \in Nat : a <= b /\ 100 * a >= m => 100 * b >= m
    OBVIOUS
  <2> HIDE DEF mark
  <2> QED  BY <1>1, <2>1
<1> QED  BY <1>2, <1>3

LEMMA DriverStep == LogInv /\ DriverIInv /\ [EvictionNext]_evars => DriverIInv'
<1> SUFFICES ASSUME LogInv, DriverIInv, [EvictionNext]_evars PROVE DriverIInv'
  OBVIOUS
<1> USE WaterMarks, TickCap DEF DriverIInv
<1>0. total_bytes \in Nat
  BY DEF LogInv, TypeOK
<1>1. CASE Wake
  <2>1. FillAtLeast(HighWaterPct)'
    BY <1>1 DEF Wake, vars, handle, FillAtLeast
  <2>2. Decided'
    BY <1>1, <2>1 DEF Wake, Decided, FillAtLeast
  <2> QED  BY <1>1, <2>2 DEF Wake, DriverTypeOK, DriverInv, vars, handle
<1>2. CASE EvictOne
  <2>1. evictions' \in 1..MaxEvictionsPerTick
    BY <1>2 DEF EvictOne, DriverTypeOK, DriverInv
  <2> QED  BY <1>2, <2>1 DEF EvictOne, EvictOldestClosed, DriverTypeOK, DriverInv
<1>3. CASE GiveUp
  BY <1>3 DEF GiveUp, DriverTypeOK, DriverInv, vars, handle
<1>4. CASE Check
  <2>1. ASSUME driver' = "evict" PROVE Decided'
    <3>1. FillAtLeast(LowWaterPct) /\ evictions # 0
      BY <1>4, <2>1 DEF Check, DriverTypeOK, DriverInv
    <3>2. FillAtLeast(LowWaterPct)' /\ evictions' = evictions
      BY <1>4, <3>1 DEF Check, vars, handle, FillAtLeast
    <3> QED  BY <3>1, <3>2 DEF Decided, FillAtLeast
  <2> QED  BY <1>4, <2>1 DEF Check, DriverTypeOK, DriverInv, vars, handle
<1>5. CASE Traffic
  <2>0. UNCHANGED driverVars
    BY <1>5 DEF Traffic
  <2>1. CASE driver = "idle"
    BY <2>0, <2>1 DEF driverVars, DriverTypeOK, DriverInv
  <2>2. CASE driver # "idle"
    <3>1. up' /\ total_bytes' \in Nat /\ total_bytes <= total_bytes'
      BY <1>5, <2>2, TrafficAddsBytes DEF DriverInv
    <3>2. ASSUME Decided PROVE Decided'
      <4> DEFINE mark == IF evictions = 0 THEN HighWaterPct ELSE LowWaterPct
      <4>1. FillAtLeast(mark)'
        BY <1>0, <3>1, <3>2, PressurePersists, <2>0 DEF Decided, driverVars
      <4> QED  BY <4>1, <2>0 DEF Decided, driverVars, FillAtLeast
    <3> QED  BY <2>0, <3>1, <3>2 DEF driverVars, DriverTypeOK, DriverInv
  <2> QED  BY <2>1, <2>2
<1>6. CASE Stop
  BY <1>6 DEF Stop, DriverTypeOK, DriverInv
<1>7. CASE UNCHANGED evars
  BY <1>7 DEF evars, vars, handle, driverVars, DriverTypeOK, DriverInv, Decided, FillAtLeast
<1> QED  BY <1>1, <1>2, <1>3, <1>4, <1>5, <1>6, <1>7 DEF EvictionNext

(* What the driver decided on is still true when it acts, in every state.  *)
THEOREM DriverInvariant == EvictionSpec => [](DriverTypeOK /\ DriverInv)
<1>1. EvictionInit => DriverIInv
  BY TickCap DEF EvictionInit, DriverIInv, DriverTypeOK, DriverInv
<1>2. DriverIInv => DriverTypeOK /\ DriverInv
  BY DEF DriverIInv
<1> QED
  BY <1>1, <1>2, DriverStep, DriverImplementsLog, LogInvariant, PTL DEF EvictionSpec

(* Of the steps of the log, only an eviction removes a closed segment.     *)
LEMMA OnlyEvictionDeletes ==
  ASSUME [EvictionNext]_evars, ~(seg \subseteq seg')
  PROVE  EvictOne
<1>1. CASE Wake \/ GiveUp \/ Check \/ UNCHANGED evars
  BY <1>1 DEF Wake, GiveUp, Check, evars, vars, disk
<1>2. CASE Traffic
  BY <1>2 DEF Traffic, Open, OpenFails, Append, AppendTorn, Place, RotateFiles,
              AppendCannotRotate, RotateFailsToClose, RotateFailsToOpen, disk
<1>3. CASE Stop
  BY <1>3 DEF Stop, Close, Crash
<1> QED  BY <1>1, <1>2, <1>3 DEF EvictionNext

(* run_once deletes segments of a log that is under pressure at that very  *)
(* moment, for every quota, water marks, record sizes and tick cap.        *)
THEOREM EvictionNeedsPressure == EvictionSpec => EvictsUnderPressure
<1>1. DriverTypeOK /\ DriverInv /\ [EvictionNext]_evars => [~(seg \subseteq seg') => Decided]_evars
  BY OnlyEvictionDeletes DEF EvictOne, DriverInv
<1> QED  BY <1>1, DriverInvariant, PTL DEF EvictionSpec, EvictsUnderPressure

(* The ledger is kept with the driver deleting segments beside appends.    *)
THEOREM DriverKeepsLedger == EvictionSpec => ImplementsLedger
  BY DriverImplementsLog, LogImplementsLedger
=============================================================================
