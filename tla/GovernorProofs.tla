--------------------------- MODULE GovernorProofs ---------------------------
(***************************************************************************)
(* Proofs about Governor, for all windows, delays and readings: the level  *)
(* covers its inputs, a sustained breach trips the dead-man's switch, and  *)
(* a level that was raised lasts.  They rest on one inductive invariant,   *)
(* which relates the instants the governor keeps to what really happened.  *)
(***************************************************************************)
EXTENDS Governor, TLAPS

(* The governor dates a breach no later than it was reported, and notices  *)
(* the end of one; with an empty window it trips at once.                  *)
BreachInv ==
  /\ budget = L0Normal <=> over = Never
  /\ breach = Never <=> over = Never
  /\ over # Never => over <= breach
  /\ over # Never /\ SustainedBreachWindow = 0 => Tripped

(* The level is at most the delay of an instant older than it is taken to  *)
(* be.                                                                     *)
HeldInv == since <= held + MaxLag

GovInv ==
  GovTypeOK /\ LevelCoversInputs /\ BreachInv /\ SustainedBreachTrips /\ HeldInv

USE DEF L0Normal, L1Reduce, L2Defer, L3Essential, L4SafeMode, Levels

-----------------------------------------------------------------------------
LEMMA LagIsAge == \A lag \in Lags : lag \in Ages /\ lag <= MaxLag
  BY Windows DEF Lags, Ages

LEMMA HostLevelIsLevel == \A c, m, d \in Nat : HostLevel(c, m, d) \in Levels
<1>1. \A o, l : Bucket3(o, l) \in Levels
  BY DEF Bucket3
<1>2. \A a, b \in Levels : Worse(a, b) \in Levels
  BY DEF Worse
<1> QED  BY <1>1, <1>2 DEF HostLevel

LEMMA LatencyBucketIsLevel == \A p \in Nat : LatencyBucket(p) \in Levels
  BY DEF LatencyBucket

LEMMA IntrinsicIsLevel ==
  ASSUME host \in Levels, budget \in Levels
  PROVE  /\ Intrinsic \in Levels
         /\ Intrinsic = L0Normal => budget = L0Normal
  BY DEF Intrinsic, Worse

LEMMA OlderIsAge == \A age \in Ages : Older(age) \in Ages /\ age <= Older(age) /\ Older(age) <= age + 1
  BY Windows, NeverIsNoAge DEF Older, Ages

LEMMA GovInitially == GovInit => GovInv
  BY Windows, NeverIsNoAge
  DEF GovInit, GovInv, GovTypeOK, LevelCoversInputs, BreachInv, SustainedBreachTrips, HeldInv,
      AgesOrNever, Ages, Tripped, Ok, Intrinsic, Worse

-----------------------------------------------------------------------------
(* What every operation does to the breach it keeps an eye on, once the    *)
(* report is stored.                                                       *)
Reported ==
  /\ host' \in Levels /\ budget' \in Levels /\ heartbeat' \in AgesOrNever
  /\ over' = IF budget' = L0Normal THEN Never ELSE IF over = Never THEN 0 ELSE over

(* recompute: the breach is dated, and the switch tripped in time.         *)
LEMMA DeadmanStep ==
  ASSUME GovInv, Reported, NEW lag \in Lags, EvaluateDeadman(lag),
         latest' = IF lag < latest THEN lag ELSE latest
  PROVE  /\ breach' \in AgesOrNever /\ over' \in AgesOrNever /\ latest' \in Ages
         /\ deadman' \in [reason : {"none", "BudgetBreach", "NoShimConfirmation"}, since : Ages]
         /\ BreachInv' /\ SustainedBreachTrips'
<1> USE LagIsAge, NeverIsNoAge, Windows DEF GovInv, GovTypeOK, Reported, AgesOrNever
<1>1. breach' = IF budget' = L0Normal THEN Never ELSE IF breach = Never THEN lag ELSE breach
  BY DEF EvaluateDeadman
<1>2. breach' \in AgesOrNever
  BY <1>1
<1>3. over' \in AgesOrNever
  BY DEF Ages
<1>4. latest' \in Ages
  OBVIOUS
<1>5. deadman' \in [reason : {"none", "BudgetBreach", "NoShimConfirmation"}, since : Ages]
  <2>1. CASE Reached(breach', lag, SustainedBreachWindow)
    BY <2>1, <1>2 DEF EvaluateDeadman, Reached
  <2>2. CASE /\ ~Reached(breach', lag, SustainedBreachWindow)
             /\ Reached(heartbeat', lag, ShimHeartbeatTimeout)
    BY <2>2 DEF EvaluateDeadman, Reached
  <2>3. CASE /\ ~Reached(breach', lag, SustainedBreachWindow)
             /\ ~Reached(heartbeat', lag, ShimHeartbeatTimeout)
    <3>1. deadman' = deadman \/ deadman' = Ok
      BY <2>3 DEF EvaluateDeadman
    <3>2. Ok \in [reason : {"none", "BudgetBreach", "NoShimConfirmation"}, since : Ages]
      BY DEF Ok, Ages
    <3> QED  BY <3>1, <3>2
  <2> QED  BY <2>1, <2>2, <2>3
<1>6. ASSUME over' # Never
      PROVE  /\ breach' # Never /\ breach' \in Ages /\ over' \in Ages /\ over' <= breach'
             /\ budget' # L0Normal /\ Intrinsic' # L0Normal
  <2>1. budget' # L0Normal /\ over' \in Ages
    BY <1>3, <1>6
  <2>2. Intrinsic' # L0Normal
    BY <2>1 DEF Intrinsic, Worse
  <2>3. CASE over = Never
    BY <2>1, <2>2, <2>3, <1>1, <1>6 DEF BreachInv, Ages
  <2>4. CASE over # Never
    BY <2>1, <2>2, <2>4, <1>1, <1>6 DEF BreachInv, Ages
  <2> QED  BY <2>3, <2>4
(* A breach keeps a switch tripped that is. *)
<1>7. ASSUME over' # Never, Tripped PROVE Tripped'
  <2>1. Intrinsic' # L0Normal
    BY <1>6, <1>7
  <2>2. CASE Reached(breach', lag, SustainedBreachWindow)
    BY <2>2 DEF EvaluateDeadman, Tripped
  <2>3. CASE /\ ~Reached(breach', lag, SustainedBreachWindow)
             /\ Reached(heartbeat', lag, ShimHeartbeatTimeout)
    BY <2>3 DEF EvaluateDeadman, Tripped
  <2>4. CASE /\ ~Reached(breach', lag, SustainedBreachWindow)
             /\ ~Reached(heartbeat', lag, ShimHeartbeatTimeout)
    <3>1. deadman' = deadman
      BY <2>1, <2>4, <1>7 DEF EvaluateDeadman
    <3> QED  BY <3>1, <1>7 DEF Tripped
  <2> QED  BY <2>2, <2>3, <2>4
<1>8. ASSUME Reached(breach', lag, SustainedBreachWindow) PROVE Tripped'
  BY <1>8 DEF EvaluateDeadman, Tripped
<1>9. BreachInv'
  <2>1. budget' = L0Normal <=> over' = Never
    BY DEF Ages
  <2>2. breach' = Never <=> over' = Never
    BY <2>1, <1>1, <1>6
  <2>3. over' # Never => over' <= breach'
    BY <1>6
  <2>4. ASSUME over' # Never, SustainedBreachWindow = 0 PROVE Tripped'
    <3>1. Reached(breach', lag, SustainedBreachWindow)
      BY <1>6, <2>4 DEF Reached, Elapsed, Ages
    <3> QED  BY <3>1, <1>8
  <2> QED  BY <2>1, <2>2, <2>3, <2>4 DEF BreachInv
<1>10. SustainedBreachTrips'
  <2> SUFFICES ASSUME over' # Never, over' - latest' >= SustainedBreachWindow PROVE Tripped'
    BY DEF SustainedBreachTrips
  <2>1. CASE latest' = lag
    <3>1. Reached(breach', lag, SustainedBreachWindow)
      BY <1>6, <2>1 DEF Reached, Elapsed, Ages
    <3> QED  BY <3>1, <1>8
  <2>2. CASE latest' = latest /\ over # Never
    <3>1. over' = over
      BY <1>6, <2>2
    <3>2. Tripped
      BY <2>2, <3>1 DEF SustainedBreachTrips
    <3> QED  BY <3>2, <1>7
  <2>3. CASE over = Never
    <3>1. over' = 0
      BY <1>6, <2>3
    <3>2. SustainedBreachWindow = 0
      BY <3>1, <1>4 DEF Ages
    <3> QED  BY <3>2, <1>9 DEF BreachInv
  <2> QED  BY <2>1, <2>2, <2>3
<1> QED  BY <1>2, <1>3, <1>4, <1>5, <1>9, <1>10

(* recompute: the new level, and what a demotion takes.                    *)
LEMMA HysteresisStep ==
  ASSUME GovInv, Reported, NEW lag \in Lags, Hysteresis(lag),
         held' = IF current' # current THEN 0 ELSE held
  PROVE  /\ current' \in Levels /\ since' \in Ages /\ held' \in Ages
         /\ LevelCoversInputs' /\ HeldInv'
         /\ current' < current => held >= GoodNewsWindow - MaxLag
<1> USE LagIsAge, NeverIsNoAge, Windows DEF GovInv, GovTypeOK, Reported
<1>1. Intrinsic' \in Levels
  BY DEF Intrinsic, Worse
<1>2. Target' \in Levels /\ Target' >= Intrinsic' /\ (Tripped' => Target' = L4SafeMode)
  BY <1>1 DEF Target
<1>3. current' \in Levels /\ current' >= Target'
  BY <1>2 DEF Hysteresis
<1>4. since' \in Ages /\ held' \in Ages
  BY DEF Hysteresis, Ages
<1>5. LevelCoversInputs'
  BY <1>1, <1>2, <1>3 DEF LevelCoversInputs
<1>6. HeldInv'
  BY <1>4 DEF HeldInv, Hysteresis, Ages
<1>7. ASSUME current' < current PROVE held >= GoodNewsWindow - MaxLag
  <2>1. Reached(since, lag, GoodNewsWindow)
    BY <1>2, <1>7 DEF Hysteresis
  <2> QED  BY <2>1 DEF Reached, Elapsed, HeldInv, Ages
<1> QED  BY <1>3, <1>4, <1>5, <1>6, <1>7

Lasts == current' < current => held >= GoodNewsWindow - MaxLag

LEMMA RecomputeStep ==
  ASSUME GovInv, Reported, NEW lag \in Lags, Recompute(lag)
  PROVE  GovInv' /\ Lasts
<1>1. EvaluateDeadman(lag) /\ latest' = IF lag < latest THEN lag ELSE latest
  BY DEF Recompute
<1>2. Hysteresis(lag) /\ held' = IF current' # current THEN 0 ELSE held
  BY DEF Recompute
<1>3. /\ breach' \in AgesOrNever /\ over' \in AgesOrNever /\ latest' \in Ages
      /\ deadman' \in [reason : {"none", "BudgetBreach", "NoShimConfirmation"}, since : Ages]
      /\ BreachInv' /\ SustainedBreachTrips'
  BY <1>1, DeadmanStep
<1>4. /\ current' \in Levels /\ since' \in Ages /\ held' \in Ages
      /\ LevelCoversInputs' /\ HeldInv' /\ Lasts
  BY <1>2, HysteresisStep DEF Lasts
<1>5. GovTypeOK'
  BY <1>3, <1>4 DEF GovTypeOK, Reported
<1> QED  BY <1>3, <1>4, <1>5 DEF GovInv

(* The clock: everything grows older together, as far as ages are counted. *)
LEMMA PassStep == ASSUME GovInv, Pass PROVE GovInv' /\ Lasts
<1> USE OlderIsAge, NeverIsNoAge, Windows DEF GovInv, GovTypeOK, Pass
<1>1. /\ breach' \in AgesOrNever /\ heartbeat' \in AgesOrNever /\ over' \in AgesOrNever
      /\ breach' = Never <=> breach = Never
      /\ over' = Never <=> over = Never
  BY DEF AgesOrNever, Older, Ages
<1>2. since' \in Ages /\ held' \in Ages /\ latest' \in Ages
  OBVIOUS
<1>3. deadman' \in [reason : {"none", "BudgetBreach", "NoShimConfirmation"}, since : Ages]
      /\ (Tripped' <=> Tripped)
  BY DEF Tripped
<1>4. GovTypeOK'
  BY <1>1, <1>2, <1>3
<1>5. LevelCoversInputs'
  BY <1>3 DEF LevelCoversInputs, Intrinsic, Worse
<1>6. BreachInv'
  <2>1. over # Never => over' <= breach'
    BY <1>1 DEF BreachInv, AgesOrNever, Older, Ages
  <2> QED  BY <1>1, <1>3, <2>1 DEF BreachInv
<1>7. SustainedBreachTrips'
  <2> SUFFICES ASSUME over' # Never, over' - latest' >= SustainedBreachWindow PROVE Tripped
    BY <1>3 DEF SustainedBreachTrips
  <2>1. over \in Ages /\ over # Never
    BY <1>1 DEF AgesOrNever
  <2>2. CASE latest < Old
    <3>1. over - latest >= SustainedBreachWindow
      BY <2>1, <2>2 DEF Older, Ages
    <3> QED  BY <2>1, <3>1 DEF SustainedBreachTrips
  <2>3. CASE latest = Old
    <3>1. SustainedBreachWindow = 0
      BY <2>1, <2>3 DEF Older, Ages
    <3> QED  BY <2>1, <3>1 DEF BreachInv
  <2> QED  BY <2>2, <2>3 DEF Ages
<1>8. HeldInv'
  BY DEF HeldInv, Older, Ages
<1>9. Lasts
  BY DEF Lasts
<1> QED  BY <1>4, <1>5, <1>6, <1>7, <1>8, <1>9

-----------------------------------------------------------------------------
LEMMA GovStep == GovInv /\ [GovNext]_gvars => GovInv' /\ (Lasts \/ UNCHANGED gvars)
<1> SUFFICES ASSUME GovInv, [GovNext]_gvars PROVE GovInv' /\ (Lasts \/ UNCHANGED gvars)
  OBVIOUS
<1> USE Readings, LagIsAge DEF Reported, GovInv, GovTypeOK, BreachInv
<1>1. CASE \E cpu, memory, disk \in Percentages : ReportHost(HostLevel(cpu, memory, disk))
  <2>1. PICK cpu, memory, disk \in Percentages : ReportHost(HostLevel(cpu, memory, disk))
    BY <1>1
  <2>2. host' \in Levels
    BY <2>1, HostLevelIsLevel DEF ReportHost
  <2>3. PICK lag \in Lags : Recompute(lag)
    BY <2>1 DEF ReportHost
  <2>4. Reported
    BY <2>1, <2>2 DEF ReportHost
  <2> QED  BY <2>3, <2>4, RecomputeStep
<1>2. CASE \E p99 \in Latencies : ReportBudget(LatencyBucket(p99))
  <2>1. PICK p99 \in Latencies : ReportBudget(LatencyBucket(p99))
    BY <1>2
  <2>2. budget' \in Levels
    BY <2>1, LatencyBucketIsLevel DEF ReportBudget
  <2>3. PICK lag \in Lags : Recompute(lag)
    BY <2>1 DEF ReportBudget
  <2>4. Reported
    BY <2>1, <2>2 DEF ReportBudget
  <2> QED  BY <2>3, <2>4, RecomputeStep
<1>3. CASE ShimHeartbeat
  <2>1. PICK lag \in Lags : heartbeat' = lag /\ Recompute(lag)
    BY <1>3 DEF ShimHeartbeat
  <2>2. Reported
    BY <1>3, <2>1 DEF ShimHeartbeat, AgesOrNever
  <2> QED  BY <2>1, <2>2, RecomputeStep
<1>4. CASE Tick
  <2>1. PICK lag \in Lags : Recompute(lag)
    BY <1>4 DEF Tick
  <2>2. Reported
    BY <1>4 DEF Tick
  <2> QED  BY <2>1, <2>2, RecomputeStep
<1>5. CASE Pass
  BY <1>5, PassStep
<1>6. CASE UNCHANGED gvars
  <2>1. GovInv'
    BY <1>6 DEF gvars, LevelCoversInputs, SustainedBreachTrips, HeldInv, Intrinsic, Worse, Tripped
  <2> QED  BY <1>6, <2>1
<1> QED  BY <1>1, <1>2, <1>3, <1>4, <1>5, <1>6 DEF GovNext

(* The inductive invariant of the governor.                                *)
THEOREM GovInvariant == GovSpec => []GovInv
<1>1. GovInit => GovInv
  BY GovInitially
<1>2. GovInv /\ [GovNext]_gvars => GovInv'
  BY GovStep
<1> QED  BY <1>1, <1>2, PTL DEF GovSpec

(* lib.rs:248-252, 314-318: no hysteresis keeps the level below what the   *)
(* inputs ask for, whatever the windows.                                   *)
THEOREM LevelCoversItsInputs == GovSpec => []LevelCoversInputs
<1>1. GovInv => LevelCoversInputs
  BY DEF GovInv
<1> QED  BY <1>1, GovInvariant, PTL

(* INV-14: a breach sustained for the window trips the switch, in whatever *)
(* order instants reach the mutex and however late.                        *)
THEOREM BreachesTripTheSwitch == GovSpec => []SustainedBreachTrips
<1>1. GovInv => SustainedBreachTrips
  BY DEF GovInv
<1> QED  BY <1>1, GovInvariant, PTL

(* lib.rs:319-325: a level is lowered only after it has stood for the      *)
(* good-news window, less the longest delay of an instant.                 *)
THEOREM LevelsLast == GovSpec => RaisedLevelsLast
<1>1. GovInv /\ [GovNext]_gvars => [Lasts]_gvars
  BY GovStep
<1>2. [Lasts]_gvars => [current' < current => held >= GoodNewsWindow - MaxLag]_gvars
  BY DEF Lasts
<1> QED  BY <1>1, <1>2, GovInvariant, PTL DEF GovSpec, RaisedLevelsLast
=============================================================================
