-------------------------- MODULE ShimDeliveryProofs --------------------------
(***************************************************************************)
(* Proofs about ShimDelivery, for any number of requests, events, boots    *)
(* and failures and any size of the buffer: what stage a request, its file *)
(* and the collector are at together (StageInv), how often a file was      *)
(* ingested (OnceInv), which frames are where (OrderInv, PlaceInv), and    *)
(* what has become of each (FateInv), by which it implements EventChannel. *)
(***************************************************************************)
EXTENDS ShimDelivery, TLAPS

Frame == Requests \X Nat

ShimTypes ==
  /\ at \in [Requests -> {"serving", "connect", "write", "spool", "fill", "done"}]
  /\ observed \in [Requests -> Nat] /\ lost \in [Requests -> SUBSET Frame]
  /\ buffer \in [Requests -> Seq(Frame)] /\ socket \in [Requests -> Seq(Frame)]
  /\ file \in [Requests -> {"none", "empty", "full", "gone"}]
  /\ reset \in [Requests -> BOOLEAN]
  /\ received \subseteq Frame /\ gaps \subseteq Frame /\ silent \subseteq Frame
  /\ collector \in {NoScan} \cup [file : Requests, at : {"log", "audit", "remove"}]
  /\ appended \in [Requests -> Nat] /\ troubles \in [Requests -> Nat]

-----------------------------------------------------------------------------
(* The frames of a sequence that grows at its end and shrinks at its head. *)
LEMMA NoFrames == ToSet(<<>>) = {}
  BY DEF ToSet

LEMMA OneMore ==
  ASSUME NEW s \in Seq(Frame), NEW f \in Frame
  PROVE  /\ Append(s, f) \in Seq(Frame) /\ Len(Append(s, f)) = Len(s) + 1
         /\ ToSet(Append(s, f)) = ToSet(s) \cup {f}
<1>1. /\ Append(s, f) \in Seq(Frame) /\ Len(Append(s, f)) = Len(s) + 1 /\ Len(s) \in Nat
      /\ \A n \in 1..Len(s) : Append(s, f)[n] = s[n]
      /\ Append(s, f)[Len(s) + 1] = f
      /\ DOMAIN s = 1..Len(s) /\ DOMAIN Append(s, f) = 1..(Len(s) + 1)
  OBVIOUS
<1>2. \A n : n \in 1..(Len(s) + 1) <=> n \in 1..Len(s) \/ n = Len(s) + 1
  BY <1>1
<1> QED  BY <1>1, <1>2 DEF ToSet

LEMMA OneLess ==
  ASSUME NEW s \in Seq(Frame), s # <<>>
  PROVE  /\ Head(s) \in Frame /\ Tail(s) \in Seq(Frame)
         /\ ToSet(s) = {Head(s)} \cup ToSet(Tail(s))
<1>1. /\ Head(s) = s[1] /\ Head(s) \in Frame /\ Tail(s) \in Seq(Frame)
      /\ Len(s) \in Nat /\ Len(s) > 0 /\ Len(Tail(s)) = Len(s) - 1
      /\ DOMAIN s = 1..Len(s) /\ DOMAIN Tail(s) = 1..(Len(s) - 1)
  OBVIOUS
<1>2. ASSUME NEW k \in 1..(Len(s) - 1) PROVE Tail(s)[k] = s[k + 1] /\ k + 1 \in 1..Len(s)
  BY <1>1
<1>3. ASSUME NEW n \in 1..Len(s) PROVE n = 1 \/ (n - 1 \in 1..(Len(s) - 1) /\ s[n] = Tail(s)[n - 1])
  <2>1. CASE n = 1
    BY <2>1
  <2>2. CASE n # 1
    <3>1. n - 1 \in 1..(Len(s) - 1) /\ (n - 1) + 1 = n
      BY <1>1, <2>2
    <3> QED  BY <1>2, <3>1
  <2> QED  BY <2>1, <2>2
<1>4. ToSet(s) = {s[n] : n \in 1..Len(s)} /\ ToSet(Tail(s)) = {Tail(s)[k] : k \in 1..(Len(s) - 1)}
  BY <1>1 DEF ToSet
<1>5. 1 \in 1..Len(s)
  BY <1>1
<1>6. ToSet(s) \subseteq {Head(s)} \cup ToSet(Tail(s))
  BY <1>1, <1>3, <1>4, SMTT(20)
<1>7. {Head(s)} \cup ToSet(Tail(s)) \subseteq ToSet(s)
  BY <1>1, <1>2, <1>4, <1>5
<1> QED  BY <1>1, <1>6, <1>7

LEMMA FramesOf ==
  ASSUME NEW s \in Seq(Frame)
  PROVE  ToSet(s) \subseteq Frame
  BY DEF ToSet

(* What a push leaves of the buffer.                                       *)
LEMMA Shortened ==
  ASSUME NEW s \in Seq(Frame), NEW n \in 0..Len(s)
  PROVE  /\ Without(n, s) \in Seq(Frame) /\ Len(Without(n, s)) = Len(s) - n
         /\ \A k \in 1..(Len(s) - n) : Without(n, s)[k] = s[n + k]
         /\ ToSet(Without(n, s)) \subseteq ToSet(s)
<1>1. /\ Without(n, s) \in Seq(Frame) /\ Len(Without(n, s)) = Len(s) - n
      /\ \A k \in 1..(Len(s) - n) : Without(n, s)[k] = s[n + k]
  BY DEF Without
<1>2. \A k \in 1..(Len(s) - n) : n + k \in 1..Len(s)
  OBVIOUS
<1> QED  BY <1>1, <1>2 DEF ToSet

LEMMA NoneLeft == <<>> \in Seq(Frame) /\ Len(<<>>) = 0 /\ ToSet(<<>>) = {}
  BY NoFrames

(* The buffer after a push: the frames of a suffix, and the new one unless *)
(* there is no room for it in an empty buffer.                             *)
LEMMA Pushed ==
  ASSUME NEW r \in Requests, Observe(r),
         buffer \in [Requests -> Seq(Frame)], observed \in [Requests -> Nat]
  PROVE  \E n \in 0..Len(buffer[r]) :
           \/ buffer' = [buffer EXCEPT ![r] = Append(Without(n, buffer[r]), <<r, observed[r] + 1>>)]
           \/ buffer' = [buffer EXCEPT ![r] = <<>>]
BY DEF Observe

LEMMA PushedFrames ==
  ASSUME NEW r \in Requests, Observe(r),
         buffer \in [Requests -> Seq(Frame)], observed \in [Requests -> Nat]
  PROVE  /\ <<r, observed[r] + 1>> \in Frame
         /\ buffer' \in [Requests -> Seq(Frame)]
         /\ Len(buffer'[r]) \in Nat /\ Len(buffer'[r]) <= Len(buffer[r]) + 1
         /\ ToSet(buffer'[r]) \subseteq ToSet(buffer[r]) \cup {<<r, observed[r] + 1>>}
         /\ \A q \in Requests : q # r => buffer'[q] = buffer[q]
<1> DEFINE f == <<r, observed[r] + 1>>
<1>1. f \in Frame /\ buffer[r] \in Seq(Frame) /\ Len(buffer[r]) \in Nat
  BY DEF Frame
<1>2. PICK n \in 0..Len(buffer[r]) :
        \/ buffer' = [buffer EXCEPT ![r] = Append(Without(n, buffer[r]), f)]
        \/ buffer' = [buffer EXCEPT ![r] = <<>>]
  BY Pushed
<1> HIDE DEF f
<1>3. CASE buffer' = [buffer EXCEPT ![r] = Append(Without(n, buffer[r]), f)]
  <2>1. /\ Without(n, buffer[r]) \in Seq(Frame) /\ Len(Without(n, buffer[r])) = Len(buffer[r]) - n
        /\ ToSet(Without(n, buffer[r])) \subseteq ToSet(buffer[r])
    BY <1>1, Shortened
  <2>2. /\ Append(Without(n, buffer[r]), f) \in Seq(Frame)
        /\ ToSet(Append(Without(n, buffer[r]), f)) = ToSet(Without(n, buffer[r])) \cup {f}
    BY <1>1, <2>1, OneMore
  <2>3. Len(Append(Without(n, buffer[r]), f)) = (Len(buffer[r]) - n) + 1
    BY <1>1, <2>1, OneMore
  <2>4. buffer'[r] = Append(Without(n, buffer[r]), f)
    BY <1>3
  <2>5. buffer' \in [Requests -> Seq(Frame)] /\ \A q \in Requests : q # r => buffer'[q] = buffer[q]
    BY <1>3, <2>2
  <2>6. Len(buffer'[r]) \in Nat /\ Len(buffer'[r]) <= Len(buffer[r]) + 1
    BY <1>1, <2>3, <2>4
  <2>7. ToSet(buffer'[r]) \subseteq ToSet(buffer[r]) \cup {f}
    BY <2>1, <2>2, <2>4
  <2> QED  BY <1>1, <2>5, <2>6, <2>7 DEF f
<1>4. CASE buffer' = [buffer EXCEPT ![r] = <<>>]
  BY <1>1, <1>4, NoneLeft DEF f
<1> QED  BY <1>2, <1>3, <1>4

-----------------------------------------------------------------------------
(* Where a request is, where its file and the collector are.  A frame that *)
(* is not sent in its request's flush is lost before the file exists; the  *)
(* collector has a file in hand that is there, and read it whole only once *)
(* its request was done.                                                   *)
StageInv ==
  /\ \A r \in Requests :
       /\ at[r] \in {"serving", "connect", "write", "spool"} => file[r] = "none"
       /\ at[r] \in {"serving", "connect", "write"} => lost[r] = {}
       /\ at[r] \in {"spool", "fill", "done"} => buffer[r] = <<>>
       /\ file[r] = "full" => at[r] = "done"
       /\ appended[r] > 0 => at[r] = "done" /\ lost[r] \subseteq gaps
  /\ collector # NoScan => file[collector.file] \in {"empty", "full"}
  /\ collector.at \in {"log", "audit"} => file[collector.file] = "full"

StagedInv == ShimTypes /\ StageInv

LEMMA StagedInitially == DeliveryInit => StagedInv
  BY DEF DeliveryInit, StagedInv, ShimTypes, StageInv, NoScan

LEMMA TypesStep == StagedInv /\ [DeliveryNext]_svars => ShimTypes'
<1> SUFFICES ASSUME StagedInv, [DeliveryNext]_svars PROVE ShimTypes'
  OBVIOUS
<1> USE DEF StagedInv
<1>1. ASSUME NEW r \in Requests, Observe(r) PROVE ShimTypes'
  <2>1. /\ buffer[r] \in Seq(Frame) /\ <<r, observed[r] + 1>> \in Frame
        /\ buffer' \in [Requests -> Seq(Frame)]
    BY <1>1, PushedFrames DEF ShimTypes
  <2>2. ToSet(buffer[r]) \cup {<<r, observed[r] + 1>>} \subseteq Frame
    BY <2>1, FramesOf
  <2>3. /\ UNCHANGED <<at, lost, file, socket, reset, received, gaps, collector, appended, troubles>>
        /\ observed' = [observed EXCEPT ![r] = @ + 1]
        /\ silent' \subseteq silent \cup (ToSet(buffer[r]) \cup {<<r, observed[r] + 1>>})
    BY <1>1 DEF Observe, link, spool
  <2>4. silent' \subseteq Frame
    BY <2>2, <2>3 DEF ShimTypes
  <2> QED  BY <2>1, <2>3, <2>4 DEF ShimTypes
<1>2. ASSUME NEW r \in Requests, Write(r) PROVE ShimTypes'
  <2>1. /\ buffer[r] \in Seq(Frame) /\ buffer[r] # <<>> /\ socket[r] \in Seq(Frame)
        /\ UNCHANGED <<at, observed, lost, file, reset, received, gaps, collector, appended, troubles>>
        /\ buffer' = [buffer EXCEPT ![r] = Tail(@)]
        /\ \/ silent' = silent \cup {Head(buffer[r])} /\ UNCHANGED socket
           \/ socket' = [socket EXCEPT ![r] = Append(@, Head(buffer[r]))] /\ UNCHANGED silent
    BY <1>2 DEF Write, ShimTypes, spool
  <2>2. /\ Tail(buffer[r]) \in Seq(Frame) /\ Head(buffer[r]) \in Frame
        /\ Append(socket[r], Head(buffer[r])) \in Seq(Frame)
    BY <2>1, OneLess, OneMore
  <2>3. buffer' \in [Requests -> Seq(Frame)] /\ silent' \subseteq Frame
    BY <2>1, <2>2 DEF ShimTypes
  <2>4. socket' \in [Requests -> Seq(Frame)]
    BY <2>1, <2>2 DEF ShimTypes
  <2> QED  BY <2>1, <2>3, <2>4 DEF ShimTypes
<1>3. ASSUME NEW r \in Requests, GiveUp(r) \/ Fail(r) \/ FillFile(r) PROVE ShimTypes'
  <2>1. buffer[r] \in Seq(Frame) /\ ToSet(buffer[r]) \subseteq Frame /\ <<>> \in Seq(Frame)
    BY FramesOf DEF ShimTypes
  <2>2. CASE GiveUp(r)
    <3>1. /\ lost' \in [Requests -> SUBSET Frame] /\ buffer' \in [Requests -> Seq(Frame)]
          /\ at' = [at EXCEPT ![r] = "spool"]
      BY <2>1, <2>2 DEF GiveUp, ShimTypes
    <3> QED  BY <2>2, <3>1 DEF GiveUp, link, spool, ShimTypes
  <2>3. CASE Fail(r)
    <3>1. buffer' \in [Requests -> Seq(Frame)] /\ silent' \subseteq Frame
      BY <2>1, <2>3 DEF Fail, ShimTypes
    <3> QED  BY <2>3, <3>1 DEF Fail, link, spool, ShimTypes
  <2>4. CASE FillFile(r)
    BY <2>4 DEF FillFile, link, spool, ShimTypes
  <2> QED  BY <1>3, <2>2, <2>3, <2>4
<1>4. ASSUME NEW r \in Requests, Receive(r) PROVE ShimTypes'
  <2>1. socket[r] \in Seq(Frame) /\ socket[r] # <<>>
    BY <1>4 DEF Receive, ShimTypes
  <2>2. Head(socket[r]) \in Frame /\ Tail(socket[r]) \in Seq(Frame)
    BY <2>1, OneLess
  <2>3. socket' \in [Requests -> Seq(Frame)] /\ received' \subseteq Frame
    BY <1>4, <2>2 DEF Receive, ShimTypes
  <2> QED  BY <1>4, <2>3 DEF Receive, shim, spool, ShimTypes
<1>5. CASE Crash
  <2>1. \A r \in Requests : ToSet(socket[r]) \subseteq Frame
    BY FramesOf DEF ShimTypes
  <2>2. UNION {ToSet(socket[r]) : r \in Requests} \subseteq Frame /\ <<>> \in Seq(Frame)
    BY <2>1
  <2>3. troubles' \in [Requests -> Nat]
    BY <1>5 DEF Crash, ShimTypes
  <2> QED  BY <1>5, <2>2, <2>3 DEF Crash, shim, ShimTypes
<1>6. CASE AppendGap \/ CommitGap \/ RemoveFile \/ LeaveInPlace
  <2>1. collector \in [file : Requests, at : {"log", "audit", "remove"}]
    BY <1>6 DEF AppendGap, CommitGap, RemoveFile, LeaveInPlace, At, NoScan, ShimTypes
  <2>2. CASE AppendGap
    <3>1. collector' \in [file : Requests, at : {"log", "audit", "remove"}]
      BY <2>1, <2>2 DEF AppendGap
    <3>2. gaps' \subseteq Frame /\ appended' \in [Requests -> Nat]
      BY <2>1, <2>2 DEF AppendGap, ShimTypes
    <3> QED  BY <2>2, <3>1, <3>2 DEF AppendGap, shim, link, ShimTypes
  <2>3. CASE CommitGap
    BY <2>1, <2>3 DEF CommitGap, shim, link, ShimTypes
  <2>4. CASE RemoveFile
    <3>1. file' \in [Requests -> {"none", "empty", "full", "gone"}] /\ silent' \subseteq Frame
      BY <2>1, <2>4 DEF RemoveFile, ShimTypes
    <3> QED  BY <2>4, <3>1 DEF RemoveFile, shim, link, ShimTypes
  <2>5. CASE LeaveInPlace
    BY <2>1, <2>5 DEF LeaveInPlace, shim, link, ShimTypes
  <2> QED  BY <1>6, <2>2, <2>3, <2>4, <2>5
<1>7. ASSUME NEW r \in Requests, Flush(r) \/ Connect(r) \/ Sent(r) \/ CreateFile(r) \/ Scan(r)
      PROVE  ShimTypes'
  <2>1. CASE Flush(r)
    BY <2>1 DEF Flush, link, spool, ShimTypes
  <2>2. CASE Connect(r) \/ Sent(r)
    BY <2>2 DEF Connect, Sent, link, spool, ShimTypes
  <2>3. CASE CreateFile(r)
    BY <2>3 DEF CreateFile, link, spool, ShimTypes
  <2>4. CASE Scan(r)
    BY <2>4 DEF Scan, shim, link, ShimTypes
  <2> QED  BY <1>7, <2>1, <2>2, <2>3, <2>4
<1>8. CASE Boot \/ UNCHANGED svars
  BY <1>8 DEF Boot, svars, shim, link, spool, ShimTypes
<1>9. ASSUME NEW r \in Requests, Hangup(r) PROVE ShimTypes'
  <2>1. /\ socket' \in [Requests -> Seq(Frame)] /\ silent' \subseteq Frame
        /\ reset' \in [Requests -> BOOLEAN]
    BY <1>9, FramesOf, NoneLeft DEF Hangup, ShimTypes
  <2> QED  BY <1>9, <2>1 DEF Hangup, shim, spool, ShimTypes
<1> QED
  BY <1>1, <1>2, <1>3, <1>4, <1>5, <1>6, <1>7, <1>8, <1>9 DEF DeliveryNext, DeliverRequest, Collect

LEMMA StageStep == StagedInv /\ [DeliveryNext]_svars => StageInv'
<1> SUFFICES ASSUME ShimTypes, StageInv, [DeliveryNext]_svars PROVE StageInv'
  BY DEF StagedInv
<1>0. /\ collector # NoScan => collector.file \in Requests /\ collector.at # "idle"
      /\ NoScan.at = "idle"
  BY DEF ShimTypes, NoScan
<1>1. ASSUME NEW r \in Requests, Observe(r) PROVE StageInv'
  <2>1. /\ at[r] = "serving" /\ UNCHANGED <<at, lost, file, gaps, collector, appended>>
        /\ \A q \in Requests : q # r => buffer'[q] = buffer[q]
    BY <1>1, PushedFrames DEF Observe, spool, ShimTypes
  <2> QED  BY <2>1 DEF StageInv
<1>2. ASSUME NEW r \in Requests, Flush(r) \/ Connect(r) \/ Sent(r) PROVE StageInv'
  <2>1. /\ at[r] \in {"serving", "connect", "write"}
        /\ UNCHANGED <<buffer, lost, file, gaps, collector, appended>>
        /\ at'[r] \in {"connect", "write"} \/ (at'[r] = "done" /\ buffer[r] = <<>>)
        /\ \A q \in Requests : q # r => at'[q] = at[q]
    BY <1>2 DEF Flush, Connect, Sent, spool, ShimTypes
  <2> QED  BY <2>1 DEF StageInv
<1>3. ASSUME NEW r \in Requests, Write(r) PROVE StageInv'
  <2>1. /\ at[r] = "write" /\ UNCHANGED <<at, lost, file, gaps, collector, appended>>
        /\ \A q \in Requests : q # r => buffer'[q] = buffer[q]
    BY <1>3 DEF Write, spool, ShimTypes
  <2> QED  BY <2>1 DEF StageInv
<1>4. ASSUME NEW r \in Requests, GiveUp(r) PROVE StageInv'
  <2>1. /\ at[r] \in {"connect", "write"} /\ at'[r] = "spool" /\ buffer'[r] = <<>>
        /\ UNCHANGED <<file, gaps, collector, appended>>
        /\ \A q \in Requests : q # r => at'[q] = at[q] /\ buffer'[q] = buffer[q] /\ lost'[q] = lost[q]
    BY <1>4 DEF GiveUp, spool, ShimTypes
  <2> QED  BY <2>1 DEF StageInv
<1>5. ASSUME NEW r \in Requests, CreateFile(r) PROVE StageInv'
  <2>1. /\ at[r] = "spool" /\ at'[r] = "fill" /\ file'[r] = "empty"
        /\ UNCHANGED <<buffer, lost, gaps, collector, appended>>
        /\ \A q \in Requests : q # r => at'[q] = at[q] /\ file'[q] = file[q]
    BY <1>5 DEF CreateFile, spool, ShimTypes
  <2>2. file[r] = "none" /\ (collector # NoScan => collector.file # r)
    BY <2>1 DEF StageInv
  <2> QED  BY <1>0, <2>1, <2>2 DEF StageInv
<1>6. ASSUME NEW r \in Requests, FillFile(r) PROVE StageInv'
  <2>1. /\ at[r] = "fill" /\ at'[r] = "done"
        /\ UNCHANGED <<buffer, lost, gaps, collector, appended>>
        /\ file'[r] = IF file[r] = "empty" THEN "full" ELSE file[r]
        /\ \A q \in Requests : q # r => at'[q] = at[q] /\ file'[q] = file[q]
    BY <1>6 DEF FillFile, spool, ShimTypes
  <2> QED  BY <1>0, <2>1 DEF StageInv
<1>7. ASSUME NEW r \in Requests, Fail(r) PROVE StageInv'
  <2>1. /\ at[r] # "done" /\ at'[r] = "done" /\ buffer'[r] = <<>>
        /\ UNCHANGED <<lost, file, gaps, collector, appended>>
        /\ \A q \in Requests : q # r => at'[q] = at[q] /\ buffer'[q] = buffer[q]
    BY <1>7 DEF Fail, spool, ShimTypes
  <2> QED  BY <2>1 DEF StageInv
<1>8. ASSUME NEW r \in Requests, Scan(r) PROVE StageInv'
  <2>1. /\ file[r] \in {"empty", "full"}
        /\ collector' = [file |-> r, at |-> IF file[r] = "full" THEN "log" ELSE "remove"]
        /\ UNCHANGED <<at, buffer, lost, file, gaps, appended>>
    BY <1>8 DEF Scan, shim
  <2> QED  BY <2>1 DEF StageInv
<1>9. CASE AppendGap
  <2>1. /\ collector.at = "log" /\ gaps' = gaps \cup lost[collector.file]
        /\ collector' = [collector EXCEPT !.at = "audit"]
        /\ appended' = [appended EXCEPT ![collector.file] = @ + 1]
        /\ UNCHANGED <<at, buffer, lost, file>>
    BY <1>9 DEF AppendGap, At, shim
  <2>2. /\ collector.file \in Requests /\ file[collector.file] = "full"
        /\ collector'.at = "audit" /\ collector'.file = collector.file
        /\ \A q \in Requests : q # collector.file => appended'[q] = appended[q]
    BY <1>0, <2>1 DEF StageInv, ShimTypes
  <2> QED  BY <2>1, <2>2 DEF StageInv
<1>10. CASE CommitGap
  <2>1. /\ collector.at = "audit" /\ collector' = [collector EXCEPT !.at = "remove"]
        /\ UNCHANGED <<at, buffer, lost, file, gaps, appended>>
    BY <1>10 DEF CommitGap, At, shim
  <2>2. /\ collector # NoScan /\ collector.file \in Requests
        /\ collector'.at = "remove" /\ collector'.file = collector.file
    BY <1>0, <2>1 DEF ShimTypes, NoScan
  <2> QED  BY <2>1, <2>2 DEF StageInv
<1>11. CASE RemoveFile
  <2>1. /\ collector.at = "remove" /\ collector' = NoScan
        /\ file' = [file EXCEPT ![collector.file] = "gone"]
        /\ UNCHANGED <<at, buffer, lost, gaps, appended>>
    BY <1>11 DEF RemoveFile, At, shim
  <2>2. /\ collector.file \in Requests /\ file[collector.file] \in {"empty", "full"}
        /\ file'[collector.file] = "gone"
        /\ \A q \in Requests : q # collector.file => file'[q] = file[q]
    BY <1>0, <2>1 DEF StageInv, ShimTypes
  <2> QED  BY <1>0, <2>1, <2>2 DEF StageInv
<1>12. CASE LeaveInPlace \/ Crash
  <2>1. collector' = NoScan /\ UNCHANGED <<at, buffer, lost, file, gaps, appended>>
    BY <1>12 DEF LeaveInPlace, Crash, shim
  <2> QED  BY <1>0, <2>1 DEF StageInv
<1>13. CASE (\E r \in Requests : Receive(r) \/ Hangup(r)) \/ Boot \/ UNCHANGED svars
  <2>1. UNCHANGED <<at, buffer, lost, file, gaps, collector, appended>>
    BY <1>13 DEF Receive, Hangup, Boot, svars, shim, spool
  <2> QED  BY <2>1 DEF StageInv
<1> QED
  BY <1>1, <1>2, <1>3, <1>4, <1>5, <1>6, <1>7, <1>8, <1>9, <1>10, <1>11, <1>12, <1>13
  DEF DeliveryNext, DeliverRequest, Collect

(* What a request in Runtime::flush, its spool file and the collector's    *)
(* drain are at together: a request that still sends has no loss record, a *)
(* file is full only when its request is done, and the collector commits   *)
(* and deletes files that are there (Runtime.php, Spool.php,               *)
(* shim_spool.rs:55-88).                                                   *)
THEOREM DeliveryStages == DeliverySpec => []StagedInv
<1>1. StagedInv /\ [DeliveryNext]_svars => StagedInv'
  BY TypesStep, StageStep DEF StagedInv
<1> QED  BY <1>1, StagedInitially, PTL DEF DeliverySpec

-----------------------------------------------------------------------------
(* A file is appended once for each time the collector had it in hand.     *)
OnceInv ==
  \A r \in Requests :
    /\ appended[r] <= 1 + troubles[r]
    /\ file[r] # "gone" /\ ~(collector.file = r /\ collector.at \in {"audit", "remove"})
         => appended[r] <= troubles[r]

LEMMA OnceStep == StagedInv /\ OnceInv /\ [DeliveryNext]_svars => OnceInv'
<1> SUFFICES ASSUME ShimTypes, StageInv, OnceInv, [DeliveryNext]_svars PROVE OnceInv'
  BY DEF StagedInv
<1>0. /\ collector # NoScan => collector.file \in Requests /\ collector.at # "idle"
      /\ NoScan.at = "idle" /\ appended \in [Requests -> Nat] /\ troubles \in [Requests -> Nat]
  BY DEF ShimTypes, NoScan
<1>1. ASSUME NEW r \in Requests, DeliverRequest(r) PROVE OnceInv'
  <2>1. /\ UNCHANGED <<collector, appended, troubles>>
        /\ \A q \in Requests : file[q] = "gone" => file'[q] = "gone"
    <3>1. CASE CreateFile(r)
      BY <3>1 DEF CreateFile, StageInv, ShimTypes, spool
    <3>2. CASE FillFile(r)
      BY <3>2 DEF FillFile, ShimTypes, spool
    <3> QED  BY <1>1, <3>1, <3>2 DEF DeliverRequest, Observe, Flush, Connect, Write, Sent, GiveUp,
                                     Fail, spool
  <2> QED  BY <2>1 DEF OnceInv
<1>2. ASSUME NEW r \in Requests, Scan(r) PROVE OnceInv'
  <2>1. collector = NoScan /\ UNCHANGED <<file, appended, troubles>>
    BY <1>2 DEF Scan
  <2> QED  BY <1>0, <2>1 DEF OnceInv
<1>3. CASE AppendGap
  <2>1. /\ collector.at = "log" /\ UNCHANGED <<file, troubles>>
        /\ collector' = [collector EXCEPT !.at = "audit"]
        /\ appended' = [appended EXCEPT ![collector.file] = @ + 1]
    BY <1>3 DEF AppendGap, At
  <2>2. /\ collector.file \in Requests /\ file[collector.file] = "full"
        /\ collector'.at = "audit" /\ collector'.file = collector.file
    BY <1>0, <2>1 DEF StageInv, ShimTypes
  <2>3. appended[collector.file] <= troubles[collector.file]
    BY <2>1, <2>2 DEF OnceInv
  <2> QED  BY <1>0, <2>1, <2>2, <2>3 DEF OnceInv
<1>4. CASE CommitGap
  <2>1. /\ collector.at = "audit" /\ collector' = [collector EXCEPT !.at = "remove"]
        /\ UNCHANGED <<file, appended, troubles>>
    BY <1>4 DEF CommitGap, At
  <2>2. collector'.at = "remove" /\ collector'.file = collector.file
    BY <1>0, <2>1 DEF ShimTypes, NoScan
  <2> QED  BY <2>1, <2>2 DEF OnceInv
<1>5. CASE RemoveFile
  <2>1. /\ collector.at = "remove" /\ collector' = NoScan /\ UNCHANGED <<appended, troubles>>
        /\ file' = [file EXCEPT ![collector.file] = "gone"]
    BY <1>5 DEF RemoveFile, At
  <2> QED  BY <1>0, <2>1 DEF OnceInv, ShimTypes
<1>6. CASE LeaveInPlace \/ Crash
  <2>1. collector' = NoScan /\ UNCHANGED <<file, appended>>
    BY <1>6 DEF LeaveInPlace, Crash
  <2>2. \/ collector = NoScan /\ troubles' = troubles
        \/ collector # NoScan /\ troubles' = [troubles EXCEPT ![collector.file] = @ + 1]
    BY <1>6 DEF LeaveInPlace, Crash
  <2>3. CASE collector = NoScan /\ troubles' = troubles
    BY <1>0, <2>1, <2>3 DEF OnceInv
  <2>4. CASE collector # NoScan /\ troubles' = [troubles EXCEPT ![collector.file] = @ + 1]
    BY <1>0, <2>1, <2>4 DEF OnceInv
  <2> QED  BY <2>2, <2>3, <2>4
<1>7. CASE (\E r \in Requests : Receive(r) \/ Hangup(r)) \/ Boot \/ UNCHANGED svars
  <2>1. UNCHANGED <<file, collector, appended, troubles>>
    BY <1>7 DEF Receive, Hangup, Boot, svars, spool
  <2> QED  BY <2>1 DEF OnceInv
<1> QED  BY <1>1, <1>2, <1>3, <1>4, <1>5, <1>6, <1>7 DEF DeliveryNext, Collect

(* A loss record is ingested once, and again only after a crash or failure *)
(* that left its file in place (shim_spool.rs:9-15).                       *)
THEOREM RecordsAreIngestedOnce == DeliverySpec => []IngestedOnce
<1>1. DeliveryInit => OnceInv
  BY DEF DeliveryInit, OnceInv
<1>2. OnceInv => IngestedOnce
  BY DEF OnceInv, IngestedOnce
<1> QED  BY <1>1, <1>2, OnceStep, DeliveryStages, PTL DEF DeliverySpec

-----------------------------------------------------------------------------
(* A buffer holds the frames its request observed last, in their order.    *)
LastOf(s, r, o) == Len(s) <= o /\ \A n \in 1..Len(s) : s[n] = <<r, (o - Len(s)) + n>>

LEMMA LastOfAppend ==
  ASSUME NEW s \in Seq(Frame), NEW r \in Requests, NEW o \in Nat, LastOf(s, r, o)
  PROVE  /\ LastOf(Append(s, <<r, o + 1>>), r, o + 1)
         /\ Len(Append(s, <<r, o + 1>>)) = Len(s) + 1
<1> DEFINE t == Append(s, <<r, o + 1>>)
<1>1. /\ Len(s) \in Nat /\ Len(t) = Len(s) + 1 /\ t[Len(s) + 1] = <<r, o + 1>>
      /\ \A n \in 1..Len(s) : t[n] = s[n]
  OBVIOUS
<1> HIDE DEF t
<1>2. ASSUME NEW n \in 1..Len(t) PROVE t[n] = <<r, ((o + 1) - Len(t)) + n>>
  <2>1. CASE n = Len(s) + 1
    <3>1. ((o + 1) - Len(t)) + n = o + 1
      BY <1>1, <2>1
    <3> QED  BY <1>1, <2>1, <3>1
  <2>2. CASE n # Len(s) + 1
    <3>1. n \in 1..Len(s) /\ ((o + 1) - Len(t)) + n = (o - Len(s)) + n
      BY <1>1, <2>2
    <3> QED  BY <1>1, <3>1 DEF LastOf
  <2> QED  BY <2>1, <2>2
<1> QED  BY <1>1, <1>2 DEF LastOf, t

LEMMA LastOfTail ==
  ASSUME NEW s \in Seq(Frame), NEW r \in Requests, NEW o \in Nat, LastOf(s, r, o), s # <<>>
  PROVE  /\ LastOf(Tail(s), r, o) /\ Len(Tail(s)) = Len(s) - 1
         /\ Head(s) = <<r, (o - Len(s)) + 1>> /\ Len(s) \in 1..o
<1> DEFINE t == Tail(s)
<1>1. Len(s) \in Nat \ {0} /\ Len(t) = Len(s) - 1 /\ Head(s) = s[1]
  OBVIOUS
<1>2. ASSUME NEW n \in 1..(Len(s) - 1) PROVE t[n] = s[n + 1]
  BY <1>1
<1> HIDE DEF t
<1>3. ASSUME NEW n \in 1..Len(t) PROVE t[n] = <<r, (o - Len(t)) + n>>
  <2>1. n \in 1..(Len(s) - 1) /\ n + 1 \in 1..Len(s)
        /\ (o - Len(t)) + n = (o - Len(s)) + (n + 1)
    BY <1>1
  <2> QED  BY <1>2, <2>1 DEF LastOf
<1>4. s[1] = <<r, (o - Len(s)) + 1>>
  BY <1>1 DEF LastOf
<1> QED  BY <1>1, <1>3, <1>4 DEF LastOf, t

LEMMA LastOfFrames ==
  ASSUME NEW s \in Seq(Frame), NEW r \in Requests, NEW o \in Nat, LastOf(s, r, o),
         NEW f \in ToSet(s)
  PROVE  f[1] = r /\ f[2] \in 1..o /\ f[2] > o - Len(s)
<1>1. PICK n \in 1..Len(s) : f = s[n]
  BY DEF ToSet
<1>2. Len(s) \in Nat /\ f = <<r, (o - Len(s)) + n>>
  BY <1>1 DEF LastOf
<1> QED  BY <1>2 DEF LastOf

LEMMA LastOfSuffix ==
  ASSUME NEW s \in Seq(Frame), NEW r \in Requests, NEW o \in Nat, LastOf(s, r, o),
         NEW n \in 0..Len(s)
  PROVE  LastOf(Without(n, s), r, o)
<1> DEFINE t == Without(n, s)
<1>1. /\ Len(s) \in Nat /\ Len(t) = Len(s) - n
      /\ \A k \in 1..(Len(s) - n) : t[k] = s[n + k]
  BY Shortened
<1> HIDE DEF t
<1>2. ASSUME NEW k \in 1..Len(t) PROVE t[k] = <<r, (o - Len(t)) + k>>
  <2>1. k \in 1..(Len(s) - n) /\ n + k \in 1..Len(s) /\ (o - Len(s)) + (n + k) = (o - Len(t)) + k
    BY <1>1
  <2> QED  BY <1>1, <2>1 DEF LastOf
<1> QED  BY <1>1, <1>2 DEF LastOf, t

LEMMA PushedLast ==
  ASSUME NEW r \in Requests, Observe(r), LastOf(buffer[r], r, observed[r]),
         buffer \in [Requests -> Seq(Frame)], observed \in [Requests -> Nat]
  PROVE  LastOf(buffer'[r], r, observed[r] + 1)
<1> DEFINE f == <<r, observed[r] + 1>>
<1>1. buffer[r] \in Seq(Frame) /\ observed[r] \in Nat
  OBVIOUS
<1>2. PICK n \in 0..Len(buffer[r]) :
        \/ buffer' = [buffer EXCEPT ![r] = Append(Without(n, buffer[r]), f)]
        \/ buffer' = [buffer EXCEPT ![r] = <<>>]
  BY Pushed
<1>3. CASE buffer' = [buffer EXCEPT ![r] = Append(Without(n, buffer[r]), f)]
  <2>1. Without(n, buffer[r]) \in Seq(Frame) /\ LastOf(Without(n, buffer[r]), r, observed[r])
    BY <1>1, Shortened, LastOfSuffix
  <2>2. LastOf(Append(Without(n, buffer[r]), f), r, observed[r] + 1)
    BY <1>1, <2>1, LastOfAppend
  <2> QED  BY <1>3, <2>2
<1>4. CASE buffer' = [buffer EXCEPT ![r] = <<>>]
  BY <1>1, <1>4, NoneLeft DEF LastOf
<1> QED  BY <1>2, <1>3, <1>4

(* What is not among the last of what was observed is older.               *)
LEMMA LastOfOthers ==
  ASSUME NEW s \in Seq(Frame), NEW r \in Requests, NEW o \in Nat, LastOf(s, r, o),
         NEW k \in 1..o, <<r, k>> \notin ToSet(s)
  PROVE  k <= o - Len(s)
<1>1. Len(s) \in Nat
  OBVIOUS
<1>2. ASSUME k > o - Len(s) PROVE FALSE
  <2>1. PICK n \in 1..Len(s) : (o - Len(s)) + n = k
    <3>1. k - (o - Len(s)) \in 1..Len(s) /\ (o - Len(s)) + (k - (o - Len(s))) = k
      BY <1>1, <1>2
    <3> QED  BY <3>1
  <2>2. s[n] = <<r, k>>
    BY <2>1 DEF LastOf
  <2>3. DOMAIN s = 1..Len(s)
    OBVIOUS
  <2> QED  BY <2>1, <2>2, <2>3 DEF ToSet
<1>3. k \in Int /\ o - Len(s) \in Int
  BY <1>1
<1> QED  BY <1>2, <1>3

(* Sent to the daemon, and at least into the kernel's hands.               *)
InHand(f) == f \in received \/ \E r \in Requests : f \in ToSet(socket[r])

Observed(f) == f[2] \in 1..observed[f[1]]

(* What the daemon has was sent before all that is still in the buffer,    *)
(* and is none of what was lost; gaps tell of what was lost.               *)
OrderInv ==
  /\ \A r \in Requests :
       /\ observed[r] <= MaxObserved /\ LastOf(buffer[r], r, observed[r])
       /\ \A f \in lost[r] : f[1] = r /\ Observed(f)
  /\ \A f : InHand(f) =>
       Observed(f) /\ f[2] <= observed[f[1]] - Len(buffer[f[1]]) /\ f \notin lost[f[1]]
  /\ \A f \in gaps : \E r \in Requests : f \in lost[r]
  /\ \A f \in silent : Observed(f)

LEMMA InHandFrames == ASSUME ShimTypes, NEW f, InHand(f) PROVE f \in Frame
  BY FramesOf DEF InHand, ShimTypes

LEMMA OrderInitially == DeliveryInit => OrderInv
<1> SUFFICES ASSUME DeliveryInit PROVE OrderInv
  OBVIOUS
<1>1. /\ \A r \in Requests : observed[r] = 0 /\ buffer[r] = <<>> /\ lost[r] = {} /\ socket[r] = <<>>
      /\ received = {} /\ gaps = {} /\ silent = {}
  BY DEF DeliveryInit
<1>2. \A f : ~InHand(f)
  BY <1>1, NoFrames DEF InHand
<1> QED  BY <1>1, <1>2, BufferHolds DEF OrderInv, LastOf

(* Steps that only move what is there.                                     *)
LEMMA OrderMoved ==
  ASSUME ShimTypes, OrderInv, UNCHANGED <<observed, buffer, lost>>,
         \A f : InHand(f)' => InHand(f),
         \A f \in gaps' : f \in gaps \/ \E r \in Requests : f \in lost[r],
         \A f \in silent' : f \in silent \/ InHand(f) \/ \E r \in Requests : f \in lost[r]
  PROVE  OrderInv'
<1>1. \A f : Observed(f)' = Observed(f)
  BY DEF Observed
<1>2. \A f \in silent' : Observed(f)
  BY DEF OrderInv
<1>3. \A f \in gaps' : \E r \in Requests : f \in lost'[r]
  BY DEF OrderInv
<1>4. \A r \in Requests :
        /\ observed'[r] <= MaxObserved /\ LastOf(buffer'[r], r, observed'[r])
        /\ \A f \in lost'[r] : f[1] = r /\ Observed(f)
  BY DEF OrderInv
<1>5. \A f : InHand(f)' =>
        Observed(f) /\ f[2] <= observed'[f[1]] - Len(buffer'[f[1]]) /\ f \notin lost'[f[1]]
  BY DEF OrderInv
<1> QED  BY <1>1, <1>2, <1>3, <1>4, <1>5 DEF OrderInv

LEMMA OrderObserve ==
  ASSUME ShimTypes, StageInv, OrderInv, NEW r \in Requests, Observe(r)
  PROVE  OrderInv'
<1> DEFINE f0 == <<r, observed[r] + 1>>
<1>1. /\ buffer[r] \in Seq(Frame) /\ observed[r] \in Nat /\ LastOf(buffer[r], r, observed[r])
      /\ observed[r] < MaxObserved /\ Len(buffer[r]) \in Nat
      /\ UNCHANGED <<lost, received, socket, gaps>>
      /\ observed' = [observed EXCEPT ![r] = @ + 1]
      /\ silent' \subseteq silent \cup ToSet(buffer[r]) \cup {f0}
  BY DEF Observe, link, spool, ShimTypes, OrderInv
<1>4. LastOf(buffer'[r], r, observed[r] + 1)
  BY <1>1, PushedLast DEF ShimTypes
<1>5. /\ observed'[r] = observed[r] + 1
      /\ Len(buffer'[r]) \in Nat /\ Len(buffer'[r]) <= Len(buffer[r]) + 1
      /\ \A q \in Requests : q # r => observed'[q] = observed[q] /\ buffer'[q] = buffer[q]
      /\ \A q \in Requests : observed[q] \in Nat
  BY <1>1, PushedFrames DEF ShimTypes
<1> HIDE DEF f0
<1>6. ASSUME NEW f \in Frame, Observed(f) PROVE Observed(f)'
  <2>1. f[1] \in Requests /\ f[2] \in Nat
    BY DEF Frame
  <2>2. CASE f[1] = r
    BY <1>5, <1>6, <2>1, <2>2 DEF Observed
  <2>3. CASE f[1] # r
    BY <1>5, <1>6, <2>1, <2>3 DEF Observed
  <2> QED  BY <2>2, <2>3
<1>7. ASSUME NEW q \in Requests
      PROVE  /\ observed'[q] <= MaxObserved /\ LastOf(buffer'[q], q, observed'[q])
             /\ \A f \in lost'[q] : f[1] = q /\ Observed(f)'
  <2>1. \A f \in lost'[q] : f[1] = q /\ Observed(f)'
    BY <1>1, <1>6 DEF OrderInv, ShimTypes
  <2>2. CASE q = r
    <3>1. observed'[q] <= MaxObserved
      BY <1>1, <1>5, <2>2, BufferHolds
    <3> QED  BY <1>4, <1>5, <2>1, <2>2, <3>1
  <2>3. CASE q # r
    BY <1>5, <2>1, <2>3 DEF OrderInv
  <2> QED  BY <2>2, <2>3
<1>8. ASSUME NEW f, InHand(f)
      PROVE  Observed(f)' /\ f[2] <= observed'[f[1]] - Len(buffer'[f[1]]) /\ f \notin lost'[f[1]]
  <2>1. f \in Frame /\ f[1] \in Requests /\ f[2] \in Nat
    BY <1>8, InHandFrames DEF Frame
  <2>2. Observed(f) /\ f[2] <= observed[f[1]] - Len(buffer[f[1]]) /\ f \notin lost[f[1]]
    BY <1>8 DEF OrderInv
  <2>3. f[2] <= observed'[f[1]] - Len(buffer'[f[1]])
    <3>1. CASE f[1] = r
      <4>1. observed'[r] - Len(buffer'[r]) >= observed[r] - Len(buffer[r])
        BY <1>1, <1>5
      <4>2. observed'[r] - Len(buffer'[r]) \in Int /\ observed[r] - Len(buffer[r]) \in Int
        BY <1>1, <1>5
      <4> QED  BY <2>1, <2>2, <3>1, <4>1, <4>2
    <3>2. CASE f[1] # r
      BY <1>5, <2>1, <2>2, <3>2
    <3> QED  BY <3>1, <3>2
  <2> QED  BY <1>1, <1>6, <2>1, <2>2, <2>3
<1>9. \A f : InHand(f)' <=> InHand(f)
  BY <1>1 DEF InHand
<1>10. ASSUME NEW f \in silent' PROVE Observed(f)'
  <2>1. CASE f \in silent
    BY <1>6, <2>1 DEF OrderInv, ShimTypes
  <2>2. CASE f \in ToSet(buffer[r])
    <3>1. f[1] = r /\ f[2] \in 1..observed[r] /\ f[2] \in 1..(observed[r] + 1)
      BY <1>1, <2>2, LastOfFrames
    <3> QED  BY <1>5, <3>1 DEF Observed
  <2>3. CASE f = f0
    <3>1. f[1] = r /\ f[2] \in 1..(observed[r] + 1)
      BY <1>1, <2>3 DEF f0
    <3> QED  BY <1>5, <3>1 DEF Observed
  <2> QED  BY <1>1, <1>10, <2>1, <2>2, <2>3
<1> QED  BY <1>1, <1>7, <1>8, <1>9, <1>10 DEF OrderInv

LEMMA OrderWrite ==
  ASSUME ShimTypes, StageInv, OrderInv, NEW r \in Requests, Write(r)
  PROVE  OrderInv'
<1> DEFINE h == Head(buffer[r])
<1>1. /\ buffer[r] \in Seq(Frame) /\ buffer[r] # <<>> /\ socket[r] \in Seq(Frame)
      /\ observed[r] \in Nat /\ LastOf(buffer[r], r, observed[r]) /\ lost[r] = {}
      /\ UNCHANGED <<observed, lost, received, gaps>>
      /\ buffer' = [buffer EXCEPT ![r] = Tail(@)]
      /\ \/ silent' = silent \cup {h} /\ UNCHANGED socket
         \/ socket' = [socket EXCEPT ![r] = Append(@, h)] /\ UNCHANGED silent
  BY DEF Write, spool, ShimTypes, OrderInv, StageInv
<1>2. /\ LastOf(Tail(buffer[r]), r, observed[r]) /\ Len(Tail(buffer[r])) = Len(buffer[r]) - 1
      /\ h = <<r, (observed[r] - Len(buffer[r])) + 1>> /\ Len(buffer[r]) \in 1..observed[r]
      /\ h \in Frame
  BY <1>1, LastOfTail, OneLess
<1> HIDE DEF h
<1>3. /\ buffer'[r] = Tail(buffer[r])
      /\ \A q \in Requests : q # r => buffer'[q] = buffer[q]
  BY <1>1 DEF ShimTypes
<1>4. \A f : Observed(f)' = Observed(f)
  BY <1>1 DEF Observed
<1>5. \A f : InHand(f)' => InHand(f) \/ f = h
  <2>1. ToSet(Append(socket[r], h)) = ToSet(socket[r]) \cup {h}
    BY <1>1, <1>2, OneMore
  <2>2. \A q \in Requests : ToSet(socket'[q]) \subseteq ToSet(socket[q]) \cup {h}
    BY <1>1, <2>1 DEF ShimTypes
  <2> QED  BY <1>1, <2>2 DEF InHand
<1>6. Observed(h) /\ h[1] = r /\ h[2] <= observed[r] - Len(buffer'[r])
  <2>1. h[1] = r /\ h[2] = (observed[r] - Len(buffer[r])) + 1
    BY <1>2
  <2>2. h[2] \in 1..observed[r] /\ h[2] <= observed[r] - (Len(buffer[r]) - 1)
    BY <1>1, <1>2, <2>1
  <2> QED  BY <1>2, <1>3, <2>1, <2>2 DEF Observed
<1>7. ASSUME NEW f, InHand(f)
      PROVE  Observed(f) /\ f[2] <= observed[f[1]] - Len(buffer'[f[1]]) /\ f \notin lost[f[1]]
  <2>1. f[1] \in Requests /\ f[2] \in Nat
    BY <1>7, InHandFrames DEF Frame
  <2>2. Observed(f) /\ f[2] <= observed[f[1]] - Len(buffer[f[1]]) /\ f \notin lost[f[1]]
    BY <1>7 DEF OrderInv
  <2>3. CASE f[1] = r
    BY <1>1, <1>2, <1>3, <2>1, <2>2, <2>3
  <2>4. CASE f[1] # r
    BY <1>3, <2>1, <2>2, <2>4
  <2> QED  BY <2>3, <2>4
<1>8. \A f \in silent' : Observed(f)
  BY <1>1, <1>6 DEF OrderInv
<1>9. ASSUME NEW f, InHand(f)'
      PROVE  Observed(f) /\ f[2] <= observed'[f[1]] - Len(buffer'[f[1]]) /\ f \notin lost'[f[1]]
  <2>1. CASE InHand(f)
    BY <1>1, <1>7, <2>1
  <2>2. CASE f = h
    BY <1>1, <1>6, <2>2
  <2> QED  BY <1>5, <1>9, <2>1, <2>2
<1>10. \A q \in Requests :
         /\ observed'[q] <= MaxObserved /\ LastOf(buffer'[q], q, observed'[q])
         /\ \A f \in lost'[q] : f[1] = q /\ Observed(f)
  BY <1>1, <1>2, <1>3 DEF OrderInv
<1> QED  BY <1>1, <1>4, <1>8, <1>9, <1>10 DEF OrderInv

(* The buffer is emptied: into the loss record, or with the process.       *)
LEMMA OrderEmptied ==
  ASSUME ShimTypes, StageInv, OrderInv, NEW r \in Requests,
         UNCHANGED <<observed, received, socket, gaps>>,
         buffer' = [buffer EXCEPT ![r] = <<>>],
         \/ /\ lost[r] = {} /\ lost' = [lost EXCEPT ![r] = ToSet(buffer[r])]
            /\ UNCHANGED silent
         \/ silent' = silent \cup ToSet(buffer[r]) \cup lost[r] /\ UNCHANGED lost
  PROVE  OrderInv'
<1>1. /\ buffer[r] \in Seq(Frame) /\ observed[r] \in Nat /\ LastOf(buffer[r], r, observed[r])
      /\ Len(buffer[r]) \in Nat
  BY DEF ShimTypes, OrderInv
<1>2. /\ buffer'[r] = <<>> /\ \A q \in Requests : q # r => buffer'[q] = buffer[q]
      /\ lost'[r] \subseteq lost[r] \cup ToSet(buffer[r])
      /\ \A q \in Requests : q # r => lost'[q] = lost[q]
      /\ \A q \in Requests : lost[q] \subseteq lost'[q]
  <2>1. buffer'[r] = <<>> /\ \A q \in Requests : q # r => buffer'[q] = buffer[q]
    BY DEF ShimTypes
  <2>2. CASE lost[r] = {} /\ lost' = [lost EXCEPT ![r] = ToSet(buffer[r])]
    <3>1. lost'[r] = ToSet(buffer[r]) /\ \A q \in Requests : q # r => lost'[q] = lost[q]
      BY <2>2 DEF ShimTypes
    <3> QED  BY <2>1, <2>2, <3>1
  <2>3. CASE UNCHANGED lost
    BY <2>1, <2>3
  <2> QED  BY <2>2, <2>3
<1>3. ASSUME NEW f \in ToSet(buffer[r])
      PROVE  f[1] = r /\ Observed(f) /\ f[2] > observed[r] - Len(buffer[r])
  <2>1. f[1] = r /\ f[2] \in 1..observed[r] /\ f[2] > observed[r] - Len(buffer[r])
    BY <1>1, LastOfFrames
  <2> QED  BY <2>1 DEF Observed
<1>4. \A f : (Observed(f)' <=> Observed(f)) /\ (InHand(f)' <=> InHand(f))
  BY DEF Observed, InHand
<1>5. LastOf(<<>>, r, observed[r])
  BY <1>1 DEF LastOf
<1>6. ASSUME NEW q \in Requests
      PROVE  /\ observed'[q] <= MaxObserved /\ LastOf(buffer'[q], q, observed'[q])
             /\ \A f \in lost'[q] : f[1] = q /\ Observed(f)
  <2>1. CASE q = r
    BY <1>2, <1>3, <1>5, <2>1 DEF OrderInv
  <2>2. CASE q # r
    BY <1>2, <2>2 DEF OrderInv
  <2> QED  BY <2>1, <2>2
<1>7. ASSUME NEW f, InHand(f)
      PROVE  Observed(f) /\ f[2] <= observed[f[1]] - Len(buffer'[f[1]]) /\ f \notin lost'[f[1]]
  <2>1. f[1] \in Requests /\ f[2] \in Nat
    BY <1>7, InHandFrames DEF Frame
  <2>2. Observed(f) /\ f[2] <= observed[f[1]] - Len(buffer[f[1]]) /\ f \notin lost[f[1]]
    BY <1>7 DEF OrderInv
  <2>3. CASE f[1] = r
    <3>1. f \notin ToSet(buffer[r])
      BY <1>1, <1>3, <2>1, <2>2, <2>3
    <3>2. Len(buffer'[r]) = 0
      BY <1>2
    <3> QED  BY <1>1, <1>2, <2>1, <2>2, <2>3, <3>1, <3>2
  <2>4. CASE f[1] # r
    BY <1>2, <2>1, <2>2, <2>4
  <2> QED  BY <2>3, <2>4
<1>8. \A f \in silent' : Observed(f)
  BY <1>3 DEF OrderInv
<1>9. \A f \in gaps' : \E q \in Requests : f \in lost'[q]
  BY <1>2 DEF OrderInv
<1>10. \A f : InHand(f) =>
         Observed(f) /\ f[2] <= observed'[f[1]] - Len(buffer'[f[1]]) /\ f \notin lost'[f[1]]
  BY <1>7
<1> QED  BY <1>4, <1>6, <1>8, <1>9, <1>10 DEF OrderInv

LEMMA OrderStep == StagedInv /\ OrderInv /\ [DeliveryNext]_svars => OrderInv'
<1> SUFFICES ASSUME ShimTypes, StageInv, OrderInv, [DeliveryNext]_svars PROVE OrderInv'
  BY DEF StagedInv
<1>0. collector # NoScan => collector.file \in Requests
  BY DEF ShimTypes, NoScan
<1>1. ASSUME NEW r \in Requests, GiveUp(r) \/ Fail(r) PROVE OrderInv'
  <2>1. UNCHANGED <<observed, received, socket, gaps>> /\ buffer' = [buffer EXCEPT ![r] = <<>>]
    BY <1>1 DEF GiveUp, Fail, link, spool
  <2>2. \/ /\ lost[r] = {} /\ lost' = [lost EXCEPT ![r] = ToSet(buffer[r])]
           /\ UNCHANGED silent
        \/ silent' = silent \cup ToSet(buffer[r]) \cup lost[r] /\ UNCHANGED lost
    BY <1>1 DEF GiveUp, Fail, StageInv
  <2> QED  BY <2>1, <2>2, OrderEmptied
<1>2. ASSUME NEW r \in Requests,
             Flush(r) \/ Connect(r) \/ Sent(r) \/ CreateFile(r) \/ FillFile(r) \/ Scan(r)
      PROVE  OrderInv'
  <2>1. /\ UNCHANGED <<observed, buffer, lost, received, socket, gaps>>
        /\ silent' \subseteq silent \cup lost[r]
    BY <1>2 DEF Flush, Connect, Sent, CreateFile, FillFile, Scan, shim, link, spool
  <2>2. \A f : InHand(f)' <=> InHand(f)
    BY <2>1 DEF InHand
  <2> QED  BY <2>1, <2>2, OrderMoved
<1>3. ASSUME NEW r \in Requests, Receive(r) PROVE OrderInv'
  <2>1. /\ socket[r] \in Seq(Frame) /\ socket[r] # <<>>
        /\ UNCHANGED <<observed, buffer, lost, gaps, silent>>
        /\ received' = received \cup {Head(socket[r])}
        /\ socket' = [socket EXCEPT ![r] = Tail(@)]
    BY <1>3 DEF Receive, shim, spool, ShimTypes
  <2>2. ToSet(socket[r]) = {Head(socket[r])} \cup ToSet(Tail(socket[r]))
    BY <2>1, OneLess
  <2>3. \A q \in Requests : ToSet(socket'[q]) \subseteq ToSet(socket[q])
    BY <2>1, <2>2 DEF ShimTypes
  <2>4. \A f : InHand(f)' => InHand(f)
    BY <2>1, <2>2, <2>3 DEF InHand
  <2> QED  BY <2>1, <2>4, OrderMoved
<1>4. CASE Crash \/ \E r \in Requests : Hangup(r)
  <2>1. /\ UNCHANGED <<observed, buffer, lost, gaps, received>>
        /\ \A r \in Requests : socket'[r] = <<>> \/ socket'[r] = socket[r]
        /\ silent' \subseteq silent \cup UNION {ToSet(socket[r]) : r \in Requests}
    BY <1>4 DEF Crash, Hangup, shim, spool, ShimTypes
  <2>2. \A f : InHand(f)' => InHand(f)
    BY <2>1, NoFrames DEF InHand
  <2>3. \A f \in silent' : f \in silent \/ InHand(f)
    BY <2>1 DEF InHand
  <2> QED  BY <2>1, <2>2, <2>3, OrderMoved
<1>5. CASE AppendGap \/ CommitGap \/ RemoveFile \/ LeaveInPlace
  <2>1. /\ UNCHANGED <<observed, buffer, lost, received, socket>>
        /\ collector.file \in Requests
        /\ gaps' \subseteq gaps \cup lost[collector.file]
        /\ silent' \subseteq silent \cup lost[collector.file]
    BY <1>0, <1>5 DEF AppendGap, CommitGap, RemoveFile, LeaveInPlace, At, NoScan, shim, link
  <2>2. \A f : InHand(f)' <=> InHand(f)
    BY <2>1 DEF InHand
  <2> QED  BY <2>1, <2>2, OrderMoved
<1>6. CASE Boot \/ UNCHANGED svars
  <2>1. UNCHANGED <<observed, buffer, lost, received, socket, gaps, silent>>
    BY <1>6 DEF Boot, svars, shim, link, spool
  <2>2. \A f : InHand(f)' <=> InHand(f)
    BY <2>1 DEF InHand
  <2> QED  BY <2>1, <2>2, OrderMoved
<1> QED
  BY <1>1, <1>2, <1>3, <1>4, <1>5, <1>6, OrderObserve, OrderWrite
  DEF DeliveryNext, DeliverRequest, Collect

LEMMA OrderInvariant == DeliverySpec => []OrderInv
  BY OrderInitially, OrderStep, DeliveryStages, PTL DEF DeliverySpec

(* No event is both received and reported lost (Transport.php:34-35): what *)
(* a flush spools is what it had not written, however it was cut short.    *)
THEOREM ReceivedIsNotLost == DeliverySpec => []NeverBoth
<1>1. OrderInv => NeverBoth
  <2> SUFFICES ASSUME OrderInv, NEW f, InHand(f),
                      f \in gaps \/ \E r \in Requests : f \in Spooled(r)
               PROVE  FALSE
    BY DEF NeverBoth, InHand
  <2>1. PICK r \in Requests : f \in lost[r]
    BY DEF OrderInv, Spooled
  <2> QED  BY <2>1 DEF OrderInv
<1> QED  BY <1>1, OrderInvariant, PTL

-----------------------------------------------------------------------------
(* Every frame is somewhere.                                               *)
Gone == silent \cup received \cup gaps
Holds(r) == ToSet(buffer[r]) \cup ToSet(socket[r]) \cup Spooled(r)

PlaceInv == \A f \in Made : f \in Gone \/ \E r \in Requests : f \in Holds(r)

LEMMA Placed ==
  ASSUME PlaceInv, Gone \subseteq Gone',
         \A r \in Requests : Holds(r) \subseteq Holds(r)' \cup Gone',
         \A f \in Made' : f \in Made \/ f \in Gone' \/ \E r \in Requests : f \in Holds(r)'
  PROVE  PlaceInv'
<1>1. ASSUME NEW f \in Made' PROVE f \in Gone' \/ \E r \in Requests : f \in Holds(r)'
  <2>1. CASE f \in Made
    <3>1. f \in Gone \/ \E r \in Requests : f \in Holds(r)
      BY <2>1 DEF PlaceInv
    <3> QED  BY <3>1
  <2> QED  BY <1>1, <2>1
<1> QED  BY <1>1 DEF PlaceInv

LEMMA SameMade == ASSUME UNCHANGED observed PROVE Made' = Made
  BY DEF Made

LEMMA PlaceObserve ==
  ASSUME ShimTypes, PlaceInv, NEW r \in Requests, Observe(r)
  PROVE  PlaceInv'
<1> DEFINE f0 == <<r, observed[r] + 1>>
<1>1. /\ observed[r] \in Nat
      /\ UNCHANGED <<at, lost, file, received, socket, gaps>>
      /\ observed' = [observed EXCEPT ![r] = @ + 1]
      /\ silent' = silent \cup ((ToSet(buffer[r]) \cup {f0}) \ ToSet(buffer'[r]))
  BY DEF Observe, link, spool, ShimTypes
<1>3. ToSet(buffer[r]) \cup {f0} \subseteq ToSet(buffer'[r]) \cup silent'
  BY <1>1
<1>5. /\ \A q \in Requests : q # r => buffer'[q] = buffer[q]
      /\ observed'[r] = observed[r] + 1 /\ \A q \in Requests : q # r => observed'[q] = observed[q]
  BY <1>1, PushedFrames DEF ShimTypes
<1>6. \A q \in Requests : Spooled(q)' = Spooled(q)
  BY <1>1 DEF Spooled
<1>7. Gone \subseteq Gone'
  BY <1>1 DEF Gone
<1>8. ASSUME NEW q \in Requests PROVE Holds(q) \subseteq Holds(q)' \cup Gone'
  <2>1. CASE q = r
    BY <1>1, <1>3, <1>6, <2>1 DEF Holds, Gone
  <2>2. CASE q # r
    BY <1>1, <1>5, <1>6, <2>2 DEF Holds
  <2> QED  BY <2>1, <2>2
<1>9. f0 \in Holds(r)' \cup Gone'
  BY <1>3 DEF Holds, Gone
<1>10. ASSUME NEW f \in Made' PROVE f \in Made \/ f = f0
  <2>1. f \in Requests \X (1..MaxObserved) /\ f[2] <= observed'[f[1]] /\ f[1] \in Requests /\ f[2] \in Nat
    BY <1>10, BufferHolds DEF Made
  <2>2. CASE f[1] = r
    <3>1. f[2] <= observed[r] \/ f[2] = observed[r] + 1
      BY <1>1, <1>5, <2>1, <2>2
    <3>2. f = <<f[1], f[2]>>
      BY <2>1
    <3> QED  BY <2>1, <2>2, <3>1, <3>2 DEF Made
  <2>3. CASE f[1] # r
    BY <1>5, <2>1, <2>3 DEF Made
  <2> QED  BY <2>2, <2>3
<1> HIDE DEF f0
<1> QED  BY <1>7, <1>8, <1>9, <1>10, Placed

LEMMA PlaceStep == StagedInv /\ PlaceInv /\ [DeliveryNext]_svars => PlaceInv'
<1> SUFFICES ASSUME ShimTypes, StageInv, PlaceInv, [DeliveryNext]_svars PROVE PlaceInv'
  BY DEF StagedInv
<1>1. ASSUME NEW r \in Requests, Write(r) PROVE PlaceInv'
  <2> DEFINE h == Head(buffer[r])
  <2>1. /\ buffer[r] \in Seq(Frame) /\ buffer[r] # <<>> /\ socket[r] \in Seq(Frame)
        /\ UNCHANGED <<at, observed, lost, file, received, gaps>>
        /\ buffer' = [buffer EXCEPT ![r] = Tail(@)]
        /\ \/ silent' = silent \cup {h} /\ UNCHANGED socket
           \/ socket' = [socket EXCEPT ![r] = Append(@, h)] /\ UNCHANGED silent
    BY <1>1 DEF Write, spool, ShimTypes
  <2>2. h \in Frame /\ ToSet(buffer[r]) = {h} \cup ToSet(Tail(buffer[r]))
    BY <2>1, OneLess
  <2> HIDE DEF h
  <2>3. ToSet(Append(socket[r], h)) = ToSet(socket[r]) \cup {h}
    BY <2>1, <2>2, OneMore
  <2>4. /\ buffer'[r] = Tail(buffer[r]) /\ \A q \in Requests : q # r => buffer'[q] = buffer[q]
        /\ \A q \in Requests : ToSet(socket[q]) \subseteq ToSet(socket'[q])
        /\ h \in ToSet(socket'[r]) \/ h \in silent'
    BY <2>1, <2>3 DEF ShimTypes
  <2>5. \A q \in Requests : Spooled(q)' = Spooled(q)
    BY <2>1 DEF Spooled
  <2>6. Gone \subseteq Gone'
    BY <2>1 DEF Gone
  <2>7. ASSUME NEW q \in Requests PROVE Holds(q) \subseteq Holds(q)' \cup Gone'
    <3>1. CASE q = r
      BY <2>2, <2>4, <2>5, <3>1 DEF Holds, Gone
    <3>2. CASE q # r
      BY <2>4, <2>5, <3>2 DEF Holds
    <3> QED  BY <3>1, <3>2
  <2> QED  BY <2>1, <2>6, <2>7, SameMade, Placed
<1>2. ASSUME NEW r \in Requests, GiveUp(r) PROVE PlaceInv'
  <2>1. /\ at'[r] = "spool" /\ lost'[r] = ToSet(buffer[r]) /\ at[r] \in {"connect", "write"}
        /\ \A q \in Requests : q # r =>
             at'[q] = at[q] /\ lost'[q] = lost[q] /\ buffer'[q] = buffer[q]
        /\ UNCHANGED <<observed, file, socket, received, gaps, silent>>
    BY <1>2 DEF GiveUp, link, spool, ShimTypes
  <2>2. Spooled(r) = {}
    BY <2>1 DEF Spooled, StageInv
  <2>3. ASSUME NEW q \in Requests PROVE Holds(q) \subseteq Holds(q)'
    <3>1. CASE q = r
      BY <2>1, <2>2, <3>1 DEF Holds, Spooled
    <3>2. CASE q # r
      BY <2>1, <3>2 DEF Holds, Spooled
    <3> QED  BY <3>1, <3>2
  <2>4. Gone' = Gone
    BY <2>1 DEF Gone
  <2> QED  BY <2>1, <2>3, <2>4, SameMade, Placed
<1>3. ASSUME NEW r \in Requests, Fail(r) PROVE PlaceInv'
  <2>1. /\ silent' = silent \cup ToSet(buffer[r]) \cup lost[r]
        /\ \A q \in Requests : q # r => at'[q] = at[q] /\ buffer'[q] = buffer[q]
        /\ UNCHANGED <<observed, lost, file, socket, received, gaps>>
    BY <1>3 DEF Fail, link, spool, ShimTypes
  <2>2. ASSUME NEW q \in Requests PROVE Holds(q) \subseteq Holds(q)' \cup Gone'
    <3>1. CASE q = r
      BY <2>1, <3>1 DEF Holds, Spooled, Gone
    <3>2. CASE q # r
      BY <2>1, <3>2 DEF Holds, Spooled
    <3> QED  BY <3>1, <3>2
  <2>3. Gone \subseteq Gone'
    BY <2>1 DEF Gone
  <2> QED  BY <2>1, <2>2, <2>3, SameMade, Placed
<1>4. ASSUME NEW r \in Requests, Flush(r) \/ Connect(r) \/ Sent(r) \/ CreateFile(r) \/ FillFile(r)
      PROVE  PlaceInv'
  <2>1. /\ \/ /\ at[r] \in {"serving", "connect", "write"} /\ UNCHANGED <<file, silent>>
           \/ at[r] = "spool" /\ at'[r] = "fill" /\ UNCHANGED silent
           \/ at[r] = "fill" /\ (file'[r] = "full" \/ silent' = silent \cup lost[r])
        /\ silent \subseteq silent'
        /\ \A q \in Requests : q # r => at'[q] = at[q] /\ file'[q] = file[q]
        /\ UNCHANGED <<observed, buffer, lost, socket, received, gaps>>
    BY <1>4 DEF Flush, Connect, Sent, CreateFile, FillFile, link, spool, ShimTypes
  <2>2. Spooled(r) \subseteq Spooled(r)' \cup silent'
    BY <2>1 DEF Spooled, StageInv
  <2>3. ASSUME NEW q \in Requests PROVE Holds(q) \subseteq Holds(q)' \cup Gone'
    <3>1. CASE q = r
      BY <2>1, <2>2, <3>1 DEF Holds, Gone
    <3>2. CASE q # r
      BY <2>1, <3>2 DEF Holds, Spooled
    <3> QED  BY <3>1, <3>2
  <2>4. Gone \subseteq Gone'
    BY <2>1 DEF Gone
  <2> QED  BY <2>1, <2>3, <2>4, SameMade, Placed
<1>5. ASSUME NEW r \in Requests, Receive(r) PROVE PlaceInv'
  <2>1. /\ socket[r] \in Seq(Frame) /\ socket[r] # <<>>
        /\ UNCHANGED <<at, observed, buffer, lost, file, gaps, silent>>
        /\ received' = received \cup {Head(socket[r])}
        /\ socket'[r] = Tail(socket[r])
        /\ \A q \in Requests : q # r => socket'[q] = socket[q]
    BY <1>5 DEF Receive, shim, spool, ShimTypes
  <2>2. ToSet(socket[r]) = {Head(socket[r])} \cup ToSet(Tail(socket[r]))
    BY <2>1, OneLess
  <2>3. \A q \in Requests : Spooled(q)' = Spooled(q)
    BY <2>1 DEF Spooled
  <2>4. ASSUME NEW q \in Requests PROVE Holds(q) \subseteq Holds(q)' \cup Gone'
    <3>1. CASE q = r
      BY <2>1, <2>2, <2>3, <3>1 DEF Holds, Gone
    <3>2. CASE q # r
      BY <2>1, <2>3, <3>2 DEF Holds
    <3> QED  BY <3>1, <3>2
  <2>5. Gone \subseteq Gone'
    BY <2>1 DEF Gone
  <2> QED  BY <2>1, <2>4, <2>5, SameMade, Placed
<1>6. CASE Crash \/ \E r \in Requests : Hangup(r)
  <2>1. /\ UNCHANGED <<at, observed, buffer, lost, file, gaps, received>>
        /\ silent \subseteq silent'
        /\ \A q \in Requests : socket'[q] = socket[q] \/ ToSet(socket[q]) \subseteq silent'
    BY <1>6 DEF Crash, Hangup, shim, spool, ShimTypes
  <2>2. \A q \in Requests : Spooled(q)' = Spooled(q)
    BY <2>1 DEF Spooled
  <2>3. \A q \in Requests : Holds(q) \subseteq Holds(q)' \cup Gone'
    BY <2>1, <2>2 DEF Holds, Gone
  <2>4. Gone \subseteq Gone'
    BY <2>1 DEF Gone
  <2> QED  BY <2>1, <2>3, <2>4, SameMade, Placed
<1>7. CASE RemoveFile
  <2>0. collector.file \in Requests /\ file[collector.file] \in {"empty", "full"}
    BY <1>7 DEF RemoveFile, At, ShimTypes, StageInv, NoScan
  <2>1. PICK r \in Requests : r = collector.file /\ file[r] \in {"empty", "full"}
    BY <2>0
  <2>2. /\ UNCHANGED <<at, observed, buffer, lost, socket, received, gaps>>
        /\ file' = [file EXCEPT ![r] = "gone"]
        /\ silent' = IF file[r] = "full" /\ appended[r] = 0 THEN silent \cup lost[r] ELSE silent
    BY <1>7, <2>1 DEF RemoveFile, shim, link
  <2>3. \A q \in Requests : q # r => file'[q] = file[q]
    BY <2>2 DEF ShimTypes
  <2>4. Spooled(r) \subseteq Spooled(r)' \cup Gone'
    <3>1. CASE file[r] = "full"
      <4>0. appended[r] \in Nat
        BY DEF ShimTypes
      <4>1. appended[r] = 0 \/ lost[r] \subseteq gaps
        BY <4>0 DEF StageInv
      <4> QED  BY <2>2, <3>1, <4>1 DEF Spooled, Gone
    <3>2. CASE file[r] = "empty"
      BY <2>2, <3>2 DEF Spooled
    <3> QED  BY <2>1, <3>1, <3>2
  <2>5. ASSUME NEW q \in Requests PROVE Holds(q) \subseteq Holds(q)' \cup Gone'
    <3>1. CASE q = r
      BY <2>2, <2>4, <3>1 DEF Holds
    <3>2. CASE q # r
      BY <2>2, <2>3, <3>2 DEF Holds, Spooled
    <3> QED  BY <3>1, <3>2
  <2>6. Gone \subseteq Gone'
    BY <2>2 DEF Gone
  <2> QED  BY <2>2, <2>5, <2>6, SameMade, Placed
<1>8. CASE \/ \E r \in Requests : Scan(r)
           \/ AppendGap \/ CommitGap \/ LeaveInPlace \/ Boot \/ UNCHANGED svars
  <2>1. UNCHANGED <<at, observed, buffer, lost, file, socket, received, silent>> /\ gaps \subseteq gaps'
    BY <1>8 DEF Scan, AppendGap, CommitGap, LeaveInPlace, Boot, svars, shim, link, spool
  <2>2. \A q \in Requests : Holds(q)' = Holds(q)
    BY <2>1 DEF Holds, Spooled
  <2>3. Gone \subseteq Gone'
    BY <2>1 DEF Gone
  <2> QED  BY <2>1, <2>2, <2>3, SameMade, Placed
<1> QED
  BY <1>1, <1>2, <1>3, <1>4, <1>5, <1>6, <1>7, <1>8, PlaceObserve
  DEF DeliveryNext, DeliverRequest, Collect

LEMMA ObservedIsMade ==
  ASSUME ShimTypes, OrderInv, NEW f \in Frame, Observed(f)
  PROVE  f \in Made
<1>1. f \in Requests \X Nat /\ f[1] \in Requests /\ f[2] \in 1..observed[f[1]]
  BY DEF Frame, Observed
<1>2. observed[f[1]] \in Nat /\ observed[f[1]] <= MaxObserved
  BY <1>1 DEF ShimTypes, OrderInv
<1>3. f[2] \in 1..MaxObserved /\ f[2] <= observed[f[1]] /\ f = <<f[1], f[2]>>
  BY <1>1, <1>2, BufferHolds
<1> QED  BY <1>1, <1>3 DEF Made

(* An observed event is on its way, received, in the spool, told of by a   *)
(* coverage_gap, or went in one of the ways Runtime, Transport and Spool   *)
(* give it up in silence; and nothing else is (MOD-29, Spool.php:7-10).    *)
THEOREM NoEventVanishes == DeliverySpec => []NothingVanishes
<1>1. DeliveryInit => PlaceInv
  BY DEF DeliveryInit, PlaceInv, Made
<1>2. StagedInv /\ OrderInv /\ PlaceInv => NothingVanishes
  <2> SUFFICES ASSUME ShimTypes, OrderInv, PlaceInv PROVE NothingVanishes
    BY DEF StagedInv
  <2>1. \A f \in Frame : Observed(f) => f \in Made
    BY ObservedIsMade
  <2>0. \A r \in Requests : LastOf(buffer[r], r, observed[r]) /\ buffer[r] \in Seq(Frame)
           /\ observed[r] \in Nat
    BY DEF OrderInv, ShimTypes
  <2>2. ASSUME NEW f \in Gone PROVE f \in Made
    <3>1. f \in Frame
      BY DEF Gone, ShimTypes
    <3>2. Observed(f)
      BY <3>1 DEF Gone, OrderInv, InHand
    <3> QED  BY <2>1, <3>1, <3>2
  <2>3. ASSUME NEW r \in Requests, NEW f \in Holds(r) PROVE f \in Made
    <3>1. CASE f \in ToSet(buffer[r])
      <4>1. f \in Frame /\ f[1] = r /\ f[2] \in 1..observed[r]
        BY <2>0, <3>1, FramesOf, LastOfFrames
      <4> QED  BY <2>1, <4>1 DEF Observed
    <3>2. CASE f \in ToSet(socket[r])
      <4>1. f \in Frame /\ InHand(f)
        BY <3>2, InHandFrames DEF InHand
      <4> QED  BY <2>1, <4>1 DEF OrderInv
    <3>3. CASE f \in Spooled(r)
      <4>1. f \in lost[r] /\ f \in Frame
        BY <3>3 DEF Spooled, ShimTypes
      <4> QED  BY <2>1, <4>1 DEF OrderInv
    <3> QED  BY <3>1, <3>2, <3>3 DEF Holds
  <2>4. Made = Gone \cup UNION {Holds(r) : r \in Requests}
    BY <2>2, <2>3 DEF PlaceInv
  <2> QED  BY <2>4 DEF NothingVanishes, Gone, Holds
<1> QED  BY <1>1, <1>2, PlaceStep, OrderInvariant, DeliveryStages, PTL DEF DeliverySpec

-----------------------------------------------------------------------------
(* One fate for each event, for good.  What is still in a buffer, on the   *)
(* wire or waiting in the spool has none yet; what was given up in silence *)
(* is older than what the buffer holds.                                    *)
Settled(f) == f[2] <= observed[f[1]] - Len(buffer[f[1]])

Waits(r) == at[r] \in {"spool", "fill"} \/ file[r] = "full"

WireInv ==
  \A r \in Requests :
    /\ \A m, n \in 1..Len(socket[r]) : socket[r][m] = socket[r][n] => m = n
    /\ \A f \in ToSet(socket[r]) : f[1] = r /\ f \notin received \cup silent

SpoolInv ==
  \A r \in Requests :
    /\ appended[r] = 0 => lost[r] \cap gaps = {}
    /\ Waits(r) => lost[r] \cap silent = {}

SilentInv == \A f \in silent : Settled(f) /\ f \notin received \cup gaps

FateInv == WireInv /\ SpoolInv /\ SilentInv

DeliveryInv == StagedInv /\ OrderInv /\ FateInv

OnItsWay == Made \ (received \cup gaps \cup silent)

LEMMA FateInitially == DeliveryInit => FateInv
<1> SUFFICES ASSUME DeliveryInit PROVE FateInv
  OBVIOUS
<1>1. WireInv
  BY NoFrames DEF DeliveryInit, WireInv
<1>2. SpoolInv /\ SilentInv
  BY DEF DeliveryInit, SpoolInv, SilentInv, Waits
<1> QED  BY <1>1, <1>2 DEF FateInv

(* A gap tells of frames a request gave up, which are its own.             *)
LEMMA ToldWereLost ==
  ASSUME DeliveryInv, NEW f \in gaps
  PROVE  f[1] \in Requests /\ f \in lost[f[1]]
<1>1. PICK r \in Requests : f \in lost[r]
  BY DEF DeliveryInv, OrderInv
<1>2. f[1] = r
  BY <1>1 DEF DeliveryInv, OrderInv
<1> QED  BY <1>1, <1>2

LEMMA BufferedOnItsWay ==
  ASSUME DeliveryInv, NEW r \in Requests, NEW f \in ToSet(buffer[r])
  PROVE  /\ f \in OnItsWay /\ f \in Frame /\ f[1] = r /\ f \notin lost[r] /\ ~Settled(f)
         /\ \A q \in Requests : f \notin ToSet(socket[q])
<1>1. /\ buffer[r] \in Seq(Frame) /\ observed[r] \in Nat /\ LastOf(buffer[r], r, observed[r])
      /\ Len(buffer[r]) \in Nat
  BY DEF DeliveryInv, StagedInv, ShimTypes, OrderInv
<1>2. f \in Frame /\ f[1] = r /\ f[2] \in 1..observed[r] /\ f[2] > observed[r] - Len(buffer[r])
  BY <1>1, LastOfFrames, FramesOf
<1>3. ~Settled(f)
  BY <1>1, <1>2 DEF Settled
<1>4. f \in Made
  BY <1>2, ObservedIsMade DEF Observed, DeliveryInv, StagedInv
<1>5. ~InHand(f)
  BY <1>3 DEF Settled, DeliveryInv, OrderInv
<1>6. f \notin silent
  BY <1>3 DEF DeliveryInv, FateInv, SilentInv
<1>7. lost[r] = {}
  <2>1. buffer[r] # <<>>
    BY NoFrames
  <2>2. at[r] \in {"serving", "connect", "write", "spool", "fill", "done"}
    BY DEF DeliveryInv, StagedInv, ShimTypes
  <2>3. at[r] \in {"serving", "connect", "write"}
    BY <2>1, <2>2 DEF DeliveryInv, StagedInv, StageInv
  <2> QED  BY <2>3 DEF DeliveryInv, StagedInv, StageInv
<1>8. f \notin gaps
  BY <1>2, <1>7, ToldWereLost
<1> QED  BY <1>2, <1>3, <1>4, <1>5, <1>6, <1>7, <1>8 DEF OnItsWay, InHand

LEMMA SentOnItsWay ==
  ASSUME DeliveryInv, NEW r \in Requests, NEW f \in ToSet(socket[r])
  PROVE  f \in OnItsWay /\ f \in Frame /\ Settled(f) /\ \A q \in Requests : f \notin lost[q]
<1>1. InHand(f) /\ f \in Frame
  BY InHandFrames DEF InHand, DeliveryInv, StagedInv
<1>2. Observed(f) /\ Settled(f) /\ f \notin lost[f[1]]
  BY <1>1 DEF Settled, DeliveryInv, OrderInv
<1>3. f \in Made
  BY <1>1, <1>2, ObservedIsMade DEF DeliveryInv, StagedInv
<1>4. f \notin received \cup silent
  BY DEF DeliveryInv, FateInv, WireInv
<1>5. f \notin gaps
  BY <1>2, ToldWereLost
<1>6. \A q \in Requests : f \notin lost[q]
  BY <1>2 DEF DeliveryInv, OrderInv
<1> QED  BY <1>1, <1>2, <1>3, <1>4, <1>5, <1>6 DEF OnItsWay

LEMMA WaitingOnItsWay ==
  ASSUME DeliveryInv, NEW r \in Requests, Waits(r), NEW f \in lost[r]
  PROVE  /\ f \in Made /\ f \notin received \cup silent /\ f \in Frame /\ f[1] = r
         /\ appended[r] = 0 => f \in OnItsWay
         /\ \A q \in Requests : f \notin ToSet(socket[q])
<1>1. f \in Frame /\ f[1] = r /\ Observed(f)
  BY DEF DeliveryInv, StagedInv, ShimTypes, OrderInv
<1>2. f \in Made
  BY <1>1, ObservedIsMade DEF DeliveryInv, StagedInv
<1>3. ~InHand(f)
  BY <1>1 DEF DeliveryInv, OrderInv
<1>4. f \notin silent /\ (appended[r] = 0 => f \notin gaps)
  BY DEF DeliveryInv, FateInv, SpoolInv
<1> QED  BY <1>1, <1>2, <1>3, <1>4 DEF OnItsWay, InHand

LEMMA WireKept ==
  ASSUME WireInv, UNCHANGED <<socket, received>>,
         \A r \in Requests : \A f \in ToSet(socket[r]) : f \in silent' => f \in silent
  PROVE  WireInv'
BY DEF WireInv

LEMMA SpoolKept ==
  ASSUME SpoolInv, UNCHANGED <<appended, gaps, lost>>,
         \A r \in Requests : Waits(r)' => Waits(r) /\ lost[r] \cap silent' \subseteq silent
  PROVE  SpoolInv'
BY DEF SpoolInv

LEMMA SilentKept ==
  ASSUME SilentInv, UNCHANGED <<received, gaps>>,
         \A f \in silent' :
           (f \in silent /\ Settled(f)') \/ (Settled(f)' /\ f \notin received \cup gaps)
  PROVE  SilentInv'
BY DEF SilentInv

(* A request's buffer is emptied, or was: all it observed is settled. *)
LEMMA SettledWhenEmpty ==
  ASSUME DeliveryInv, NEW r \in Requests, UNCHANGED observed,
         buffer'[r] = <<>>, \A q \in Requests : q # r => buffer'[q] = buffer[q],
         NEW f \in Frame, Settled(f) \/ (f[1] = r /\ Observed(f))
  PROVE  Settled(f)'
<1>1. f[1] \in Requests /\ f[2] \in Nat
  BY DEF Frame
<1>2. /\ observed[r] \in Nat /\ Len(buffer[r]) \in Nat /\ Len(buffer'[r]) = 0
      /\ buffer[r] \in Seq(Frame)
  BY DEF DeliveryInv, StagedInv, ShimTypes
<1>3. CASE f[1] = r
  <2>1. f[2] <= observed[r]
    BY <1>1, <1>2, <1>3 DEF Settled, Observed
  <2> QED  BY <1>2, <1>3, <2>1 DEF Settled
<1>4. CASE f[1] # r
  BY <1>1, <1>4 DEF Settled
<1> QED  BY <1>3, <1>4

(* Steps that only move what is there. *)
LEMMA FateMoved ==
  ASSUME FateInv, UNCHANGED <<observed, buffer, lost, socket, received, gaps, silent, appended>>,
         \A r \in Requests : Waits(r)' => Waits(r)
  PROVE  FateInv' /\ UNCHANGED Channel!channel
<1>1. WireInv' /\ SpoolInv'
  BY WireKept, SpoolKept DEF FateInv
<1>2. SilentInv'
  BY SilentKept DEF FateInv, SilentInv, Settled
<1>3. UNCHANGED Channel!channel
  BY SameMade DEF Channel!channel
<1> QED  BY <1>1, <1>2, <1>3 DEF FateInv

LEMMA ChannelLoses ==
  ASSUME UNCHANGED <<observed, received, gaps>>,
         NEW D \in SUBSET OnItsWay, silent' = silent \cup D
  PROVE  Channel!Next
BY SameMade DEF OnItsWay, Channel!Next, Channel!Lose, Channel!OnItsWay

(* A request, or the collector, gives up what is in the request's hands.   *)
LEMMA FateGivenUp ==
  ASSUME DeliveryInv, NEW r \in Requests,
         UNCHANGED <<observed, lost, socket, received, gaps, appended>>,
         NEW D \in SUBSET (ToSet(buffer[r]) \cup lost[r]), silent' = silent \cup D,
         D \cap lost[r] # {} => Waits(r) /\ appended[r] = 0,
         buffer'[r] = <<>>, \A q \in Requests : q # r => buffer'[q] = buffer[q],
         ~Waits(r)', \A q \in Requests : q # r => (Waits(q)' <=> Waits(q))
  PROVE  FateInv' /\ Channel!Next
<1>1. ASSUME NEW f \in D
      PROVE  /\ f \in OnItsWay /\ f \in Frame /\ f[1] = r
             /\ \A q \in Requests : f \notin ToSet(socket[q])
  BY <1>1, BufferedOnItsWay, WaitingOnItsWay
<1>2. WireInv'
  BY <1>1, WireKept DEF DeliveryInv, FateInv
<1>3. SpoolInv'
  <2>1. ASSUME NEW q \in Requests, q # r PROVE lost[q] \cap D = {}
    BY <1>1, <2>1 DEF DeliveryInv, OrderInv
  <2> QED  BY <2>1, SpoolKept DEF DeliveryInv, FateInv
<1>4. SilentInv'
  <2>1. ASSUME NEW f \in silent PROVE f \in Frame /\ Settled(f)
    BY DEF DeliveryInv, StagedInv, ShimTypes, FateInv, SilentInv
  <2>2. ASSUME NEW f \in D PROVE Observed(f)
    BY <1>1, <2>2 DEF OnItsWay, Made, Observed, Frame
  <2>3. ASSUME NEW f \in silent' PROVE Settled(f)'
    BY <1>1, <2>1, <2>2, <2>3, SettledWhenEmpty
  <2> QED  BY <1>1, <2>3, SilentKept DEF OnItsWay, DeliveryInv, FateInv
<1>5. Channel!Next
  BY <1>1, ChannelLoses
<1> QED  BY <1>2, <1>3, <1>4, <1>5 DEF FateInv

LEMMA GivingUpIsLosing ==
  ASSUME DeliveryInv, NEW r \in Requests,
         FillFile(r) \/ Fail(r) \/ (RemoveFile /\ collector.file = r)
  PROVE  FateInv' /\ (Channel!Next \/ UNCHANGED Channel!channel)
<1>1. /\ at[r] \in {"serving", "connect", "write", "spool", "fill", "done"}
      /\ file[r] \in {"none", "empty", "full", "gone"} /\ appended[r] \in Nat
      /\ at \in [Requests -> {"serving", "connect", "write", "spool", "fill", "done"}]
      /\ file \in [Requests -> {"none", "empty", "full", "gone"}]
      /\ buffer \in [Requests -> Seq(Frame)]
  BY DEF DeliveryInv, StagedInv, ShimTypes
<1>2. /\ at[r] \in {"serving", "connect", "write"} => lost[r] = {}
      /\ at[r] \in {"spool", "fill", "done"} => buffer[r] = <<>>
      /\ file[r] = "full" => at[r] = "done"
      /\ appended[r] > 0 => at[r] = "done"
  BY DEF DeliveryInv, StagedInv, StageInv
<1>3. CASE FillFile(r)
  <2>1. /\ UNCHANGED <<observed, buffer, lost, socket, received, gaps, appended>>
        /\ at[r] = "fill" /\ at' = [at EXCEPT ![r] = "done"]
        /\ \/ file' = [file EXCEPT ![r] = "full"] /\ UNCHANGED silent
           \/ silent' = silent \cup lost[r] /\ UNCHANGED file
    BY <1>3 DEF FillFile, link, spool
  <2>2. at'[r] = "done" /\ \A q \in Requests : q # r => at'[q] = at[q]
    BY <1>1, <2>1
  <2>3. Waits(r) /\ appended[r] = 0 /\ buffer'[r] = <<>> /\ file[r] # "full"
    BY <1>1, <1>2, <2>1 DEF Waits
  <2>4. CASE file' = [file EXCEPT ![r] = "full"] /\ UNCHANGED silent
    <3>1. \A q \in Requests : Waits(q)' => Waits(q)
      BY <1>1, <2>2, <2>3, <2>4 DEF Waits
    <3> QED  BY <2>1, <2>4, <3>1, FateMoved DEF DeliveryInv
  <2>5. CASE silent' = silent \cup lost[r] /\ UNCHANGED file
    <3>1. ~Waits(r)' /\ \A q \in Requests : q # r => (Waits(q)' <=> Waits(q))
      BY <2>2, <2>3, <2>5 DEF Waits
    <3>2. PICK D \in SUBSET (ToSet(buffer[r]) \cup lost[r]) : D = lost[r]
      OBVIOUS
    <3> QED  BY <2>1, <2>3, <2>5, <3>1, <3>2, FateGivenUp
  <2> QED  BY <2>1, <2>4, <2>5
<1>4. CASE Fail(r)
  <2>1. /\ UNCHANGED <<observed, lost, file, socket, received, gaps, appended>>
        /\ at[r] # "done" /\ at' = [at EXCEPT ![r] = "done"]
        /\ silent' = silent \cup (ToSet(buffer[r]) \cup lost[r])
        /\ buffer' = [buffer EXCEPT ![r] = <<>>]
    BY <1>4 DEF Fail, link, spool
  <2>2. /\ at'[r] = "done" /\ \A q \in Requests : q # r => at'[q] = at[q]
        /\ buffer'[r] = <<>> /\ \A q \in Requests : q # r => buffer'[q] = buffer[q]
    BY <1>1, <2>1
  <2>3. lost[r] # {} => Waits(r) /\ appended[r] = 0
    BY <1>1, <1>2, <2>1 DEF Waits
  <2>4. ~Waits(r)' /\ \A q \in Requests : q # r => (Waits(q)' <=> Waits(q))
    BY <1>2, <2>1, <2>2 DEF Waits
  <2>5. PICK D \in SUBSET (ToSet(buffer[r]) \cup lost[r]) : D = ToSet(buffer[r]) \cup lost[r]
    OBVIOUS
  <2> QED  BY <2>1, <2>2, <2>3, <2>4, <2>5, FateGivenUp
<1>5. CASE RemoveFile /\ collector.file = r
  <2>1. /\ UNCHANGED <<at, observed, buffer, lost, socket, received, gaps, appended>>
        /\ file' = [file EXCEPT ![r] = "gone"]
        /\ silent' = IF file[r] = "full" /\ appended[r] = 0 THEN silent \cup lost[r] ELSE silent
    BY <1>5 DEF RemoveFile, shim, link
  <2>2. file'[r] = "gone" /\ \A q \in Requests : q # r => file'[q] = file[q]
    BY <1>1, <2>1
  <2>3. CASE file[r] = "full" /\ appended[r] = 0
    <3>1. Waits(r) /\ ~Waits(r)' /\ buffer'[r] = <<>>
      BY <1>2, <2>1, <2>2, <2>3 DEF Waits
    <3>2. \A q \in Requests : q # r => (Waits(q)' <=> Waits(q))
      BY <2>1, <2>2 DEF Waits
    <3>3. PICK D \in SUBSET (ToSet(buffer[r]) \cup lost[r]) : D = lost[r]
      OBVIOUS
    <3> QED  BY <2>1, <2>3, <3>1, <3>2, <3>3, FateGivenUp
  <2>4. CASE ~(file[r] = "full" /\ appended[r] = 0)
    <3>1. \A q \in Requests : Waits(q)' => Waits(q)
      BY <2>1, <2>2 DEF Waits
    <3> QED  BY <2>1, <2>4, <3>1, FateMoved DEF DeliveryInv
  <2> QED  BY <2>3, <2>4
<1> QED  BY <1>3, <1>4, <1>5

(* What a flush could not write waits to be told of, and is of no fate.    *)
LEMMA GivingUpIsWaiting ==
  ASSUME DeliveryInv, NEW r \in Requests, GiveUp(r)
  PROVE  FateInv' /\ UNCHANGED Channel!channel
<1>1. /\ UNCHANGED <<observed, file, socket, received, gaps, silent, appended>>
      /\ at[r] \in {"connect", "write"}
      /\ at'[r] = "spool" /\ lost'[r] = ToSet(buffer[r]) /\ buffer'[r] = <<>>
      /\ \A q \in Requests : q # r => at'[q] = at[q] /\ lost'[q] = lost[q] /\ buffer'[q] = buffer[q]
  BY DEF GiveUp, link, spool, DeliveryInv, StagedInv, ShimTypes
<1>2. WireInv'
  BY <1>1, WireKept DEF DeliveryInv, FateInv
<1>3. SpoolInv'
  <2>1. \A f \in ToSet(buffer[r]) : f \notin gaps \cup silent
    BY BufferedOnItsWay DEF OnItsWay
  <2>2. \A q \in Requests : q # r => (Waits(q)' <=> Waits(q))
    BY <1>1 DEF Waits
  <2> QED  BY <1>1, <2>1, <2>2 DEF DeliveryInv, FateInv, SpoolInv
<1>4. SilentInv'
  <2>1. ASSUME NEW f \in silent PROVE f \in Frame /\ Settled(f)
    BY DEF DeliveryInv, StagedInv, ShimTypes, FateInv, SilentInv
  <2>2. ASSUME NEW f \in silent PROVE Settled(f)'
    BY <1>1, <2>1, <2>2, SettledWhenEmpty
  <2> QED  BY <1>1, <2>2, SilentKept DEF DeliveryInv, FateInv
<1>5. UNCHANGED Channel!channel
  BY <1>1, SameMade DEF Channel!channel
<1> QED  BY <1>2, <1>3, <1>4, <1>5 DEF FateInv

(* A frame that is about to be observed is nowhere yet.                    *)
LEMMA Unseen ==
  ASSUME DeliveryInv, NEW r \in Requests, NEW f, f = <<r, observed[r] + 1>>
  PROVE  /\ f \notin received \cup gaps \cup silent
         /\ \A q \in Requests : f \notin ToSet(socket[q]) /\ f \notin lost[q]
<1>1. observed[r] \in Nat /\ f[1] = r /\ f[2] = observed[r] + 1
  BY DEF DeliveryInv, StagedInv, ShimTypes
<1>2. ~Observed(f)
  BY <1>1 DEF Observed
<1>3. ~InHand(f) /\ f \notin silent /\ \A q \in Requests : f \notin lost[q]
  BY <1>2 DEF DeliveryInv, OrderInv
<1>4. f \notin gaps
  BY <1>3 DEF DeliveryInv, OrderInv
<1> QED  BY <1>3, <1>4 DEF InHand

LEMMA MadeByObserving ==
  ASSUME NEW r \in Requests, NEW f, f = <<r, observed[r] + 1>>,
         observed \in [Requests -> Nat], observed[r] < MaxObserved,
         observed' = [observed EXCEPT ![r] = @ + 1]
  PROVE  f \in (Requests \X (1..MaxObserved)) \ Made /\ Made' = Made \cup {f}
<1>1. /\ observed'[r] = observed[r] + 1 /\ \A q \in Requests : q # r => observed'[q] = observed[q]
      /\ \A q \in Requests : observed[q] \in Nat
  OBVIOUS
<1>2. f \in (Requests \X (1..MaxObserved)) \ Made
  BY BufferHolds DEF Made
<1>3. ASSUME NEW g \in Requests \X (1..MaxObserved)
      PROVE  g[2] <= observed'[g[1]] <=> (g[2] <= observed[g[1]] \/ g = f)
  <2>1. g[1] \in Requests /\ g[2] \in Nat /\ g = <<g[1], g[2]>>
    BY BufferHolds
  <2>2. CASE g[1] = r
    <3>1. g = f <=> g[2] = observed[r] + 1
      BY <2>1, <2>2
    <3> QED  BY <1>1, <2>1, <2>2, <3>1
  <2>3. CASE g[1] # r
    BY <1>1, <2>1, <2>3
  <2> QED  BY <2>2, <2>3
<1> QED  BY <1>2, <1>3 DEF Made

(* A push settles what it pushes out, be it the new frame itself.          *)
LEMMA FateObserve ==
  ASSUME DeliveryInv, NEW r \in Requests, Observe(r)
  PROVE  FateInv' /\ Channel!Next
<1>1. PICK f0 : f0 = <<r, observed[r] + 1>>
  OBVIOUS
<1>2. PICK D : D = ToSet(buffer[r]) \ ToSet(buffer'[r])
  OBVIOUS
<1>3. /\ buffer[r] \in Seq(Frame) /\ observed[r] \in Nat /\ LastOf(buffer[r], r, observed[r])
      /\ observed[r] < MaxObserved /\ Len(buffer[r]) \in Nat
      /\ UNCHANGED <<at, lost, file, received, socket, gaps, appended>>
      /\ observed' = [observed EXCEPT ![r] = @ + 1]
      /\ silent' = silent \cup ((ToSet(buffer[r]) \cup {f0}) \ ToSet(buffer'[r]))
  BY <1>1 DEF Observe, link, spool, DeliveryInv, StagedInv, ShimTypes, OrderInv
<1>4. /\ buffer'[r] \in Seq(Frame) /\ LastOf(buffer'[r], r, observed[r] + 1)
      /\ Len(buffer'[r]) \in Nat /\ Len(buffer'[r]) <= Len(buffer[r]) + 1
      /\ \A q \in Requests : q # r => buffer'[q] = buffer[q]
  BY <1>3, PushedFrames, PushedLast DEF DeliveryInv, StagedInv, ShimTypes
<1>5. /\ observed'[r] = observed[r] + 1
      /\ \A q \in Requests : q # r => observed'[q] = observed[q]
      /\ \A q \in Requests : observed[q] \in Nat
  BY <1>3 DEF DeliveryInv, StagedInv, ShimTypes
<1>6. silent' \in {silent \cup D, silent \cup D \cup {f0}}
  BY <1>2, <1>3
<1>7. ASSUME NEW f \in silent', f \notin silent
      PROVE  (f \in D \/ f = f0) /\ f \notin ToSet(buffer'[r])
  BY <1>2, <1>3, <1>7
<1>8. ASSUME NEW f \in D
      PROVE  /\ f \in OnItsWay /\ f \in Frame /\ f \notin lost[r]
             /\ f[1] = r /\ f[2] \in 1..observed[r]
             /\ \A q \in Requests : f \notin ToSet(socket[q])
  <2>1. f \in ToSet(buffer[r])
    BY <1>2, <1>8
  <2> QED  BY <1>3, <2>1, BufferedOnItsWay, LastOfFrames
<1>9. /\ f0 \notin received \cup gaps \cup silent
      /\ \A q \in Requests : f0 \notin ToSet(socket[q]) /\ f0 \notin lost[q]
  BY <1>1, Unseen
<1>10. WireInv'
  BY <1>3, <1>7, <1>8, <1>9, WireKept DEF DeliveryInv, FateInv
<1>11. SpoolInv'
  <2>1. ASSUME NEW q \in Requests PROVE lost[q] \cap (D \cup {f0}) = {}
    BY <1>8, <1>9 DEF DeliveryInv, OrderInv
  <2>2. ASSUME NEW q \in Requests PROVE lost[q] \cap silent' \subseteq silent
    BY <1>7, <2>1
  <2>3. \A q \in Requests : Waits(q)' <=> Waits(q)
    BY <1>3 DEF Waits
  <2> QED  BY <1>3, <2>2, <2>3, SpoolKept DEF DeliveryInv, FateInv
<1>12. SilentInv'
  <2>1. ASSUME NEW f \in silent PROVE Settled(f)'
    <3>1. f \in Frame /\ Settled(f)
      BY DEF DeliveryInv, StagedInv, ShimTypes, FateInv, SilentInv
    <3>2. f[1] \in Requests /\ f[2] \in Nat
      BY <3>1 DEF Frame
    <3>3. CASE f[1] = r
      BY <1>3, <1>4, <1>5, <3>1, <3>2, <3>3 DEF Settled
    <3>4. CASE f[1] # r
      BY <1>4, <1>5, <3>1, <3>2, <3>4 DEF Settled
    <3> QED  BY <3>3, <3>4
  <2>2. ASSUME NEW f \in silent', f \notin silent
        PROVE  Settled(f)' /\ f \notin received \cup gaps
    <3>1. f \notin ToSet(buffer'[r]) /\ (f \in D \/ f = f0)
      BY <1>7, <2>2
    <3>2. f[1] = r /\ f[2] \in 1..(observed[r] + 1) /\ f = <<r, f[2]>> /\ f \notin received \cup gaps
      <4>1. CASE f \in D
        <5>1. f \in Requests \X Nat
          BY <1>8, <4>1 DEF Frame
        <5> QED  BY <1>3, <1>8, <4>1, <5>1 DEF OnItsWay
      <4>2. CASE f = f0
        BY <1>1, <1>3, <1>9, <4>2
      <4> QED  BY <3>1, <4>1, <4>2
    <3>3. PICK k \in 1..(observed[r] + 1) : k = f[2]
      BY <3>2
    <3>4. k <= (observed[r] + 1) - Len(buffer'[r])
      <4>1. observed[r] + 1 \in Nat /\ <<r, k>> \notin ToSet(buffer'[r])
        BY <1>3, <3>1, <3>2, <3>3
      <4> QED  BY <1>4, <4>1, LastOfOthers
    <3> QED  BY <1>5, <3>2, <3>3, <3>4 DEF Settled
  <2> QED  BY <1>3, <2>1, <2>2, SilentKept DEF DeliveryInv, FateInv
<1>13. Channel!Next
  <2>1. f0 \in (Requests \X (1..MaxObserved)) \ Made /\ Made' = Made \cup {f0}
    BY <1>1, <1>3, MadeByObserving DEF DeliveryInv, StagedInv, ShimTypes
  <2>2. D \in SUBSET OnItsWay
    BY <1>8
  <2> QED  BY <1>3, <1>6, <2>1, <2>2 DEF OnItsWay, Channel!Next, Channel!Make, Channel!OnItsWay
<1> QED  BY <1>10, <1>11, <1>12, <1>13 DEF FateInv

LEMMA SetOf == \A s \in Seq(Frame) : \A f \in ToSet(s) : \E n \in 1..Len(s) : f = s[n]
  BY DEF ToSet

(* A sequence that says nothing twice still does when it grows or shrinks. *)
LEMMA OnceMore ==
  ASSUME NEW s \in Seq(Frame), NEW f \in Frame \ ToSet(s),
         \A m, n \in 1..Len(s) : s[m] = s[n] => m = n
  PROVE  \A m, n \in 1..Len(Append(s, f)) : Append(s, f)[m] = Append(s, f)[n] => m = n
<1> DEFINE t == Append(s, f)
<1>1. /\ Len(s) \in Nat /\ Len(t) = Len(s) + 1 /\ t[Len(s) + 1] = f
      /\ \A n \in 1..Len(s) : t[n] = s[n]
  OBVIOUS
<1>2. \A n \in 1..Len(s) : s[n] # f
  BY DEF ToSet
<1> HIDE DEF t
<1>3. ASSUME NEW n \in 1..Len(t) PROVE n \in 1..Len(s) \/ n = Len(s) + 1
  BY <1>1
<1> SUFFICES ASSUME NEW m \in 1..Len(t), NEW n \in 1..Len(t), t[m] = t[n] PROVE m = n
  BY DEF t
<1> QED  BY <1>1, <1>2, <1>3

LEMMA OnceLess ==
  ASSUME NEW s \in Seq(Frame), s # <<>>,
         \A m, n \in 1..Len(s) : s[m] = s[n] => m = n
  PROVE  /\ Head(s) \notin ToSet(Tail(s))
         /\ \A m, n \in 1..Len(Tail(s)) : Tail(s)[m] = Tail(s)[n] => m = n
<1> DEFINE t == Tail(s)
<1>1. /\ Len(s) \in Nat \ {0} /\ Len(t) = Len(s) - 1 /\ Head(s) = s[1] /\ t \in Seq(Frame)
  OBVIOUS
<1>2. ASSUME NEW n \in 1..Len(t) PROVE t[n] = s[n + 1] /\ n + 1 \in 1..Len(s) /\ n + 1 # 1
  BY <1>1
<1> HIDE DEF t
<1>3. 1 \in 1..Len(s)
  BY <1>1
<1>4. ASSUME Head(s) \in ToSet(t) PROVE FALSE
  <2>1. PICK n \in 1..Len(t) : Head(s) = t[n]
    BY <1>1, <1>4, SetOf
  <2> QED  BY <1>1, <1>2, <1>3, <2>1
<1>5. ASSUME NEW m \in 1..Len(t), NEW n \in 1..Len(t), t[m] = t[n] PROVE m = n
  <2>1. m + 1 = n + 1 /\ m \in Int /\ n \in Int
    BY <1>2, <1>5
  <2> QED  BY <2>1
<1> QED  BY <1>4, <1>5 DEF t

LEMMA FateWrite ==
  ASSUME DeliveryInv, NEW r \in Requests, Write(r)
  PROVE  FateInv' /\ (Channel!Next \/ UNCHANGED Channel!channel)
<1>1. /\ buffer[r] \in Seq(Frame) /\ buffer[r] # <<>> /\ observed[r] \in Nat
      /\ LastOf(buffer[r], r, observed[r])
      /\ socket \in [Requests -> Seq(Frame)]
      /\ UNCHANGED <<at, observed, lost, file, received, gaps, appended>>
      /\ buffer' = [buffer EXCEPT ![r] = Tail(@)]
      /\ \/ silent' = silent \cup {Head(buffer[r])} /\ UNCHANGED socket
         \/ socket' = [socket EXCEPT ![r] = Append(@, Head(buffer[r]))] /\ UNCHANGED silent
  BY DEF Write, spool, DeliveryInv, StagedInv, ShimTypes, OrderInv
<1>2. PICK h \in ToSet(buffer[r]) : h = Head(buffer[r])
  BY <1>1, OneLess
<1>3. /\ Len(Tail(buffer[r])) = Len(buffer[r]) - 1 /\ Len(buffer[r]) \in Nat
      /\ h[1] = r /\ h[2] = (observed[r] - Len(buffer[r])) + 1
  BY <1>1, <1>2, LastOfTail
<1>4. /\ buffer'[r] = Tail(buffer[r])
      /\ \A q \in Requests : q # r => buffer'[q] = buffer[q]
  BY <1>1 DEF DeliveryInv, StagedInv, ShimTypes
<1>5. /\ h \in OnItsWay /\ h \in Frame /\ h \notin lost[r]
      /\ \A q \in Requests : h \notin ToSet(socket[q])
  BY BufferedOnItsWay
<1>6. Settled(h)'
  <2>1. Len(buffer'[r]) = Len(buffer[r]) - 1 /\ observed[r] \in Nat
    BY <1>1, <1>3, <1>4
  <2>2. h[2] <= observed[r] - Len(buffer'[r])
    BY <1>3, <2>1
  <2> QED  BY <1>1, <1>3, <2>2 DEF Settled
<1>7. ASSUME NEW f \in silent PROVE Settled(f)'
  <2>1. f \in Frame /\ Settled(f)
    BY DEF DeliveryInv, StagedInv, ShimTypes, FateInv, SilentInv
  <2>2. f[1] \in Requests /\ f[2] \in Nat
    BY <2>1 DEF Frame
  <2>3. CASE f[1] = r
    <3>1. f[2] <= observed[r] - Len(buffer[r])
      BY <2>1, <2>3 DEF Settled
    <3>2. f[2] <= observed'[r] - Len(buffer'[r])
      BY <1>1, <1>3, <1>4, <2>2, <3>1
    <3> QED  BY <2>3, <3>2 DEF Settled
  <2>4. CASE f[1] # r
    BY <1>1, <1>4, <2>1, <2>2, <2>4 DEF Settled
  <2> QED  BY <2>3, <2>4
<1>8. \A q \in Requests : (Waits(q)' <=> Waits(q)) /\ h \notin lost[q]
  BY <1>1, <1>3, <1>5 DEF Waits, DeliveryInv, OrderInv
<1>9. CASE silent' = silent \cup {Head(buffer[r])} /\ UNCHANGED socket
  <2>1. silent' = silent \cup {h}
    BY <1>2, <1>9
  <2>2. WireInv'
    BY <1>1, <1>5, <1>9, <2>1, WireKept DEF DeliveryInv, FateInv
  <2>3. SpoolInv'
    BY <1>1, <1>8, <2>1, SpoolKept DEF DeliveryInv, FateInv
  <2>4. SilentInv'
    <3>1. h \notin received \cup gaps
      BY <1>5 DEF OnItsWay
    <3>2. ASSUME NEW f \in silent'
          PROVE  (f \in silent /\ Settled(f)') \/ (Settled(f)' /\ f \notin received \cup gaps)
      <4>1. CASE f \in silent
        BY <1>7, <4>1
      <4>2. CASE f = h
        BY <1>6, <3>1, <4>2
      <4> QED  BY <2>1, <4>1, <4>2
    <3> QED  BY <1>1, <3>2, SilentKept DEF DeliveryInv, FateInv
  <2>5. PICK D \in SUBSET OnItsWay : D = {h}
    BY <1>5
  <2>6. Channel!Next
    BY <1>1, <2>1, <2>5, ChannelLoses
  <2> QED  BY <2>2, <2>3, <2>4, <2>6 DEF FateInv
<1>10. CASE socket' = [socket EXCEPT ![r] = Append(@, Head(buffer[r]))] /\ UNCHANGED silent
  <2>1. /\ socket'[r] = Append(socket[r], h) /\ socket[r] \in Seq(Frame)
        /\ \A q \in Requests : q # r => socket'[q] = socket[q]
    BY <1>1, <1>2, <1>10
  <2>2. ToSet(socket'[r]) = ToSet(socket[r]) \cup {h}
    BY <1>5, <2>1, OneMore
  <2>3. \A m, n \in 1..Len(socket'[r]) : socket'[r][m] = socket'[r][n] => m = n
    <3>1. \A m, n \in 1..Len(socket[r]) : socket[r][m] = socket[r][n] => m = n
      BY DEF DeliveryInv, FateInv, WireInv
    <3>2. h \in Frame \ ToSet(socket[r])
      BY <1>5
    <3>3. \A m, n \in 1..Len(Append(socket[r], h)) :
            Append(socket[r], h)[m] = Append(socket[r], h)[n] => m = n
      BY <2>1, <3>1, <3>2, OnceMore
    <3> QED  BY <2>1, <3>3
  <2>4. h \notin received \cup silent
    BY <1>5 DEF OnItsWay
  <2>5. WireInv'
    BY <1>1, <1>3, <1>10, <2>1, <2>2, <2>3, <2>4 DEF DeliveryInv, FateInv, WireInv
  <2>6. SpoolInv'
    BY <1>1, <1>8, <1>10, SpoolKept DEF DeliveryInv, FateInv
  <2>7. SilentInv'
    BY <1>1, <1>7, <1>10, SilentKept DEF DeliveryInv, FateInv
  <2>8. UNCHANGED Channel!channel
    BY <1>1, <1>10, SameMade DEF Channel!channel
  <2> QED  BY <2>5, <2>6, <2>7, <2>8 DEF FateInv
<1> QED  BY <1>1, <1>9, <1>10

LEMMA FateReceive ==
  ASSUME DeliveryInv, NEW r \in Requests, Receive(r)
  PROVE  FateInv' /\ Channel!Next
<1>1. /\ socket[r] \in Seq(Frame) /\ socket[r] # <<>> /\ socket \in [Requests -> Seq(Frame)]
      /\ UNCHANGED <<at, observed, buffer, lost, file, gaps, silent, appended>>
      /\ received' = received \cup {Head(socket[r])}
      /\ socket' = [socket EXCEPT ![r] = Tail(@)]
  BY DEF Receive, shim, spool, DeliveryInv, StagedInv, ShimTypes
<1>2. /\ socket'[r] = Tail(socket[r])
      /\ \A q \in Requests : q # r => socket'[q] = socket[q]
  BY <1>1
<1>3. ToSet(socket[r]) = {Head(socket[r])} \cup ToSet(Tail(socket[r]))
  BY <1>1, OneLess
<1>4. PICK h \in ToSet(socket[r]) : h = Head(socket[r])
  BY <1>3
<1>5. h \in OnItsWay /\ h[1] = r
  BY SentOnItsWay DEF DeliveryInv, FateInv, WireInv
<1>6. /\ h \notin ToSet(socket'[r]) /\ ToSet(socket'[r]) \subseteq ToSet(socket[r])
      /\ \A m, n \in 1..Len(socket'[r]) : socket'[r][m] = socket'[r][n] => m = n
  <2>1. \A m, n \in 1..Len(socket[r]) : socket[r][m] = socket[r][n] => m = n
    BY DEF DeliveryInv, FateInv, WireInv
  <2>2. /\ Head(socket[r]) \notin ToSet(Tail(socket[r]))
        /\ \A m, n \in 1..Len(Tail(socket[r])) : Tail(socket[r])[m] = Tail(socket[r])[n] => m = n
    BY <1>1, <2>1, OnceLess
  <2> QED  BY <1>2, <1>3, <1>4, <2>2
<1>7. WireInv'
  <2>1. received' = received \cup {h}
    BY <1>1, <1>4
  <2> QED  BY <1>1, <1>2, <1>5, <1>6, <2>1 DEF DeliveryInv, FateInv, WireInv
<1>8. SpoolInv'
  BY <1>1 DEF DeliveryInv, FateInv, SpoolInv, Waits
<1>9. SilentInv'
  <2>1. h \notin silent
    BY <1>5 DEF OnItsWay
  <2> QED  BY <1>1, <1>4, <2>1 DEF DeliveryInv, FateInv, SilentInv, Settled
<1>10. Channel!Next
  BY <1>1, <1>4, <1>5, SameMade DEF OnItsWay, Channel!Next, Channel!Receive, Channel!OnItsWay
<1> QED  BY <1>7, <1>8, <1>9, <1>10 DEF FateInv

(* What a daemon has not read when it dies or hangs up is gone.            *)
LEMMA FateUnread ==
  ASSUME DeliveryInv, Crash \/ \E r \in Requests : Hangup(r)
  PROVE  FateInv' /\ Channel!Next
<1>0. UNCHANGED <<at, observed, buffer, lost, file, received, gaps, appended>>
  BY DEF Crash, Hangup, shim, spool
<1>1. PICK cut \in SUBSET Requests :
        /\ silent' = silent \cup UNION {ToSet(socket[r]) : r \in cut}
        /\ \A r \in Requests : r \in cut => socket'[r] = <<>>
        /\ \A r \in Requests : r \notin cut => socket'[r] = socket[r]
  <2>1. CASE Crash
    BY <2>1 DEF Crash
  <2>2. CASE \E r \in Requests : Hangup(r)
    <3>1. PICK r \in Requests : Hangup(r)
      BY <2>2
    <3>2. /\ silent' = silent \cup UNION {ToSet(socket[q]) : q \in {r}}
          /\ socket'[r] = <<>> /\ \A q \in Requests : q \notin {r} => socket'[q] = socket[q]
      BY <3>1 DEF Hangup, DeliveryInv, StagedInv, ShimTypes
    <3>3. PICK cut \in SUBSET Requests : cut = {r}
      OBVIOUS
    <3> QED  BY <3>2, <3>3
  <2> QED  BY <2>1, <2>2
<1>2. PICK D : D = UNION {ToSet(socket[r]) : r \in cut}
  OBVIOUS
<1>3. ASSUME NEW f \in D
      PROVE  /\ f \in OnItsWay /\ Settled(f) /\ f[1] \in cut
             /\ \A q \in Requests : f \notin lost[q]
  <2>1. PICK r \in cut : f \in ToSet(socket[r])
    BY <1>2
  <2>2. f[1] = r
    BY <2>1 DEF DeliveryInv, FateInv, WireInv
  <2> QED  BY <2>1, <2>2, SentOnItsWay
<1>4. WireInv'
  <2>1. ASSUME NEW r \in cut
        PROVE  /\ \A m, n \in 1..Len(socket'[r]) : socket'[r][m] = socket'[r][n] => m = n
               /\ \A f \in ToSet(socket'[r]) : f[1] = r /\ f \notin (received \cup silent)'
    BY <1>1, NoFrames
  <2>2. ASSUME NEW r \in Requests, r \notin cut
        PROVE  /\ \A m, n \in 1..Len(socket'[r]) : socket'[r][m] = socket'[r][n] => m = n
               /\ \A f \in ToSet(socket'[r]) : f[1] = r /\ f \notin (received \cup silent)'
    <3>1. /\ \A m, n \in 1..Len(socket[r]) : socket[r][m] = socket[r][n] => m = n
          /\ \A f \in ToSet(socket[r]) : f[1] = r /\ f \notin received \cup silent
      BY DEF DeliveryInv, FateInv, WireInv
    <3>2. socket'[r] = socket[r] /\ received' = received /\ silent' = silent \cup D
      BY <1>0, <1>1, <1>2, <2>2
    <3>3. \A f \in D : f[1] # r
      BY <1>3, <2>2
    <3> QED  BY <3>1, <3>2, <3>3
  <2> QED  BY <2>1, <2>2 DEF WireInv
<1>5. SpoolInv'
  BY <1>0, <1>1, <1>2, <1>3 DEF DeliveryInv, FateInv, SpoolInv, Waits
<1>6. SilentInv'
  <2>1. \A f \in D : f \notin received \cup gaps
    BY <1>3 DEF OnItsWay
  <2> QED  BY <1>0, <1>1, <1>2, <1>3, <2>1 DEF DeliveryInv, FateInv, SilentInv, Settled
<1>7. Channel!Next
  BY <1>0, <1>1, <1>2, <1>3, ChannelLoses
<1> QED  BY <1>4, <1>5, <1>6, <1>7 DEF FateInv

(* A gap tells of a full file, whose frames were waiting for that; what    *)
(* an earlier one told of is told again.                                   *)
LEMMA FateTold ==
  ASSUME DeliveryInv, AppendGap
  PROVE  FateInv' /\ Channel!Next
<1>1. /\ collector \in [file : Requests, at : {"log", "audit", "remove"}]
      /\ file[collector.file] = "full"
  BY DEF AppendGap, At, NoScan, DeliveryInv, StagedInv, ShimTypes, StageInv
<1>2. PICK r \in Requests : r = collector.file /\ file[r] = "full"
  BY <1>1
<1>3. /\ UNCHANGED <<at, observed, buffer, lost, file, socket, received, silent>>
      /\ gaps' = gaps \cup lost[r]
      /\ appended' = [appended EXCEPT ![r] = @ + 1]
      /\ appended \in [Requests -> Nat]
  BY <1>2 DEF AppendGap, shim, link, DeliveryInv, StagedInv, ShimTypes
<1>4. Waits(r) /\ appended'[r] > 0 /\ \A q \in Requests : q # r => appended'[q] = appended[q]
  BY <1>2, <1>3 DEF Waits
<1>5. ASSUME NEW f \in lost[r] PROVE f \in Made /\ f \notin received \cup silent /\ f[1] = r
  BY <1>4, WaitingOnItsWay
<1>6. WireInv'
  BY <1>3, WireKept DEF DeliveryInv, FateInv
<1>7. SpoolInv'
  <2>1. ASSUME NEW q \in Requests, appended'[q] = 0 PROVE lost[q] \cap gaps' = {}
    <3>1. q # r /\ appended[q] = 0
      BY <1>4, <2>1
    <3>2. lost[q] \cap gaps = {} /\ \A f \in lost[q] : f[1] = q
      BY <3>1 DEF DeliveryInv, FateInv, SpoolInv, OrderInv
    <3> QED  BY <1>3, <1>5, <3>1, <3>2
  <2>2. \A q \in Requests : Waits(q)' <=> Waits(q)
    BY <1>3 DEF Waits
  <2> QED  BY <1>3, <2>1, <2>2 DEF DeliveryInv, FateInv, SpoolInv
<1>8. SilentInv'
  BY <1>3, <1>5 DEF DeliveryInv, FateInv, SilentInv, Settled
<1>9. PICK D \in SUBSET OnItsWay : D = lost[r] \ gaps
  BY <1>5 DEF OnItsWay
<1>10. gaps' = gaps \cup D
  BY <1>3, <1>9
<1>11. Channel!Next
  BY <1>3, <1>10, SameMade DEF OnItsWay, Channel!Next, Channel!Tell, Channel!OnItsWay
<1> QED  BY <1>6, <1>7, <1>8, <1>11 DEF FateInv

LEMMA FateStep ==
  DeliveryInv /\ [DeliveryNext]_svars => FateInv' /\ [Channel!Next]_(Channel!channel)
<1> SUFFICES ASSUME DeliveryInv, [DeliveryNext]_svars
             PROVE  FateInv' /\ [Channel!Next]_(Channel!channel)
  OBVIOUS
<1>1. ASSUME NEW r \in Requests, Flush(r) \/ Connect(r) \/ Sent(r) \/ CreateFile(r) \/ Scan(r)
      PROVE  FateInv' /\ UNCHANGED Channel!channel
  <2>1. UNCHANGED <<observed, buffer, lost, socket, received, gaps, silent, appended>>
    BY <1>1 DEF Flush, Connect, Sent, CreateFile, Scan, shim, link, spool
  <2>2. CASE Flush(r) \/ Connect(r) \/ Sent(r)
    <3>1. \A q \in Requests : Waits(q)' => Waits(q)
      BY <2>2 DEF Flush, Connect, Sent, Waits, DeliveryInv, StagedInv, ShimTypes
    <3> QED  BY <2>1, <3>1, FateMoved DEF DeliveryInv
  <2>3. CASE CreateFile(r)
    <3>1. \A q \in Requests : Waits(q)' => Waits(q)
      BY <2>3 DEF CreateFile, Waits, DeliveryInv, StagedInv, ShimTypes
    <3> QED  BY <2>1, <3>1, FateMoved DEF DeliveryInv
  <2>4. CASE Scan(r)
    <3>1. \A q \in Requests : Waits(q)' => Waits(q)
      BY <2>4 DEF Scan, shim, Waits
    <3> QED  BY <2>1, <3>1, FateMoved DEF DeliveryInv
  <2> QED  BY <1>1, <2>2, <2>3, <2>4
<1>2. CASE CommitGap \/ LeaveInPlace \/ Boot \/ UNCHANGED svars
  <2>1. UNCHANGED <<at, file, observed, buffer, lost, socket, received, gaps, silent, appended>>
    BY <1>2 DEF CommitGap, LeaveInPlace, Boot, svars, shim, link, spool
  <2>2. \A q \in Requests : Waits(q)' => Waits(q)
    BY <2>1 DEF Waits
  <2> QED  BY <2>1, <2>2, FateMoved DEF DeliveryInv
<1>3. CASE RemoveFile
  <2>1. collector.file \in Requests
    BY <1>3 DEF RemoveFile, At, NoScan, DeliveryInv, StagedInv, ShimTypes
  <2> QED  BY <1>3, <2>1, GivingUpIsLosing
<1> QED
  BY <1>1, <1>2, <1>3, FateObserve, FateWrite, FateReceive, FateUnread, FateTold,
     GivingUpIsLosing, GivingUpIsWaiting
  DEF DeliveryNext, DeliverRequest, Collect

(* Seen from afar, shim, spool and daemon are a channel: every event the   *)
(* shim observed has at most one fate, received, told of by a coverage_gap *)
(* or lost in silence, and keeps it (Buffer.php, Runtime.php, Spool.php,   *)
(* shim_spool.rs:9-15).                                                    *)
THEOREM DeliveryIsAChannel == DeliverySpec => ImplementsChannel
<1>1. DeliveryInit => Channel!Init
  BY DEF DeliveryInit, Made, Channel!Init
<1>2. DeliveryInit => FateInv
  BY FateInitially
<1>3. StagedInv /\ OrderInv /\ FateInv /\ [DeliveryNext]_svars
        => FateInv' /\ [Channel!Next]_(Channel!channel)
  BY FateStep DEF DeliveryInv
<1> QED
  BY <1>1, <1>2, <1>3, OrderInvariant, DeliveryStages, PTL
  DEF DeliverySpec, ImplementsChannel, Channel!Spec
=============================================================================
