------------------------------ MODULE Governor ------------------------------
(***************************************************************************)
(* The resource governor (athar-governor/src/lib.rs): the pressure level   *)
(* every task reads, its hysteresis and the dead-man's switch.             *)
(*                                                                         *)
(* Each operation takes the state's mutex, stores what it reports and      *)
(* recomputes the level; it brings along an instant it read before it had  *)
(* the mutex, so that instants may arrive out of order, up to MaxLag late. *)
(* The code compares instants only to find out how much time has passed:   *)
(* the model keeps the age of each, up to Old, where none matters more.    *)
(***************************************************************************)
EXTENDS Integers

CONSTANTS
  Percentages,        \* headrooms the host may report
  Latencies,          \* p99 latencies the runtime may report, in us
  GoodNewsWindow,     \* Config, in units of time
  SustainedBreachWindow,
  ShimHeartbeatTimeout,
  MaxLag,             \* how late an instant may reach the mutex
  Old,                \* bound: ages stop here
  Never

ASSUME Readings == Percentages \subseteq Nat /\ Latencies \subseteq Nat
ASSUME Windows ==
  /\ GoodNewsWindow \in Nat /\ SustainedBreachWindow \in Nat
  /\ ShimHeartbeatTimeout \in Nat /\ MaxLag \in Nat /\ Old \in Nat
  /\ \A w \in {GoodNewsWindow, SustainedBreachWindow, ShimHeartbeatTimeout} :
       w + MaxLag <= Old
ASSUME NeverIsNoAge == Never \notin Nat

VARIABLES
  host, budget,       \* the levels the last reports alone would ask for
  breach,             \* age of breach_since
  heartbeat,          \* age of last_heartbeat
  since,              \* age of at_current_since
  current,            \* the level, published within the mutex
  deadman,            \* the dead-man's switch: reason and age of its `since`
  over,               \* history: how long reports say the budget is breached
  held,               \* history: how long the level is what it is
  latest              \* history: age of the latest instant recomputed at

gvars == <<host, budget, breach, heartbeat, since, current, deadman, over, held, latest>>

(* PressureLevel *)
L0Normal == 0
L1Reduce == 1
L2Defer == 2
L3Essential == 3
L4SafeMode == 4
Levels == L0Normal..L4SafeMode

Worse(a, b) == IF a >= b THEN a ELSE b

(* Config::default: below which headrooms, in percent, and from which p99  *)
(* latencies on, in us, the level rises.                                   *)
Config == [cpu_headroom |-> <<20, 10>>, memory_free |-> <<15, 10>>,
           disk_free |-> <<15, 10>>, p99_latency |-> <<1000, 2000, 5000>>]

Bucket3(observed, l) ==
  IF observed < l[2] THEN L2Defer ELSE IF observed < l[1] THEN L1Reduce ELSE L0Normal

HostLevel(cpu, memory, disk) ==
  Worse(Bucket3(cpu, Config.cpu_headroom),
        Worse(Bucket3(memory, Config.memory_free), Bucket3(disk, Config.disk_free)))

LatencyBucket(p99) ==
  LET l == Config.p99_latency
  IN  IF p99 >= l[3] THEN L3Essential
      ELSE IF p99 >= l[2] THEN L2Defer ELSE IF p99 > l[1] THEN L1Reduce ELSE L0Normal

(* Without a report, a source asks for nothing. *)
Intrinsic == Worse(host, budget)

Ok == [reason |-> "none", since |-> 0]
Tripped == deadman.reason # "none"
Ages == 0..Old

GovInit ==
  /\ host = L0Normal /\ budget = L0Normal
  /\ breach = Never /\ heartbeat = Never /\ since = 0
  /\ current = L0Normal /\ deadman = Ok
  /\ over = Never /\ held = 0 /\ latest = 0

-----------------------------------------------------------------------------
(* now.saturating_duration_since(start), `now` being `lag` ago *)
Elapsed(age, lag) == IF age > lag THEN age - lag ELSE 0

Reached(age, lag, window) == age # Never /\ Elapsed(age, lag) >= window

(* Mutant of EvaluateDeadman: a report of another level starts the breach again. *)
EvaluateDeadmanAnew(lag) ==
  /\ breach' = IF budget' = L0Normal THEN Never
               ELSE IF breach = Never \/ budget' # budget THEN lag ELSE breach
  /\ deadman' =
       IF Reached(breach', lag, SustainedBreachWindow)
       THEN [reason |-> "BudgetBreach", since |-> breach']
       ELSE IF Reached(heartbeat', lag, ShimHeartbeatTimeout)
       THEN [reason |-> "NoShimConfirmation", since |-> heartbeat']
       ELSE IF Tripped /\ ~(Intrinsic' = L0Normal
                              /\ Reached(deadman.since, lag, GoodNewsWindow))
       THEN deadman
       ELSE Ok

(* Governor::evaluate_deadman.  A breach starts with the report that finds *)
(* the budget exceeded, at that report's instant, and ends with one that   *)
(* does not.  A tripped switch stays until the level its inputs ask for is *)
(* L0 and its cause began a good-news window ago.                          *)
EvaluateDeadman(lag) ==
  /\ breach' = IF budget' = L0Normal THEN Never
               ELSE IF breach = Never THEN lag ELSE breach
  /\ deadman' =
       IF Reached(breach', lag, SustainedBreachWindow)
       THEN [reason |-> "BudgetBreach", since |-> breach']
       ELSE IF Reached(heartbeat', lag, ShimHeartbeatTimeout)
       THEN [reason |-> "NoShimConfirmation", since |-> heartbeat']
       ELSE IF Tripped /\ ~(Intrinsic' = L0Normal
                              /\ Reached(deadman.since, lag, GoodNewsWindow))
       THEN deadman
       ELSE Ok

Target == IF Tripped THEN L4SafeMode ELSE Intrinsic

(* Mutant of Hysteresis: the window is counted from the last demotion. *)
HysteresisFromDemotion(lag) ==
  /\ current' = IF Target' >= current \/ Reached(since, lag, GoodNewsWindow)
                THEN Target' ELSE current
  /\ since' = IF current' < current THEN lag ELSE since

(* Mutant of Hysteresis: an unchanged level starts its window again. *)
HysteresisRestarting(lag) ==
  /\ current' = IF Target' >= current \/ Reached(since, lag, GoodNewsWindow)
                THEN Target' ELSE current
  /\ since' = lag

(* Governor::apply_hysteresis, and recompute's store of the new level. *)
Hysteresis(lag) ==
  /\ current' = IF Target' >= current \/ Reached(since, lag, GoodNewsWindow)
                THEN Target' ELSE current
  /\ since' = IF current' # current THEN lag ELSE since

Recompute(lag) ==
  /\ EvaluateDeadman(lag)
  /\ Hysteresis(lag)
  /\ held' = IF current' # current THEN 0 ELSE held
  /\ latest' = IF lag < latest THEN lag ELSE latest

Lags == 0..MaxLag

ReportHost(level) ==
  /\ host' = level
  /\ UNCHANGED <<budget, heartbeat, over>>
  /\ \E lag \in Lags : Recompute(lag)

ReportBudget(level) ==
  /\ budget' = level
  /\ over' = IF level = L0Normal THEN Never ELSE IF over = Never THEN 0 ELSE over
  /\ UNCHANGED <<host, heartbeat>>
  /\ \E lag \in Lags : Recompute(lag)

ShimHeartbeat ==
  /\ UNCHANGED <<host, budget, over>>
  /\ \E lag \in Lags : heartbeat' = lag /\ Recompute(lag)

Tick ==
  /\ UNCHANGED <<host, budget, heartbeat, over>>
  /\ \E lag \in Lags : Recompute(lag)

(* Time passes. *)
Older(age) == IF age = Never THEN Never ELSE IF age < Old THEN age + 1 ELSE Old

Pass ==
  /\ breach' = Older(breach) /\ heartbeat' = Older(heartbeat)
  /\ since' = Older(since) /\ over' = Older(over)
  /\ held' = Older(held) /\ latest' = Older(latest)
  /\ deadman' = IF Tripped THEN [deadman EXCEPT !.since = Older(deadman.since)] ELSE deadman
  /\ UNCHANGED <<host, budget, current>>

GovNext ==
  \/ \E cpu, memory, disk \in Percentages : ReportHost(HostLevel(cpu, memory, disk))
  \/ \E p99 \in Latencies : ReportBudget(LatencyBucket(p99))
  \/ ShimHeartbeat \/ Tick \/ Pass

(* host_metrics.rs: the collector reports every few seconds, also what it  *)
(* found the last time.                                                    *)
HostFairness == \A level \in Levels : WF_gvars(host = level /\ ReportHost(level))

GovSpec == GovInit /\ [][GovNext]_gvars /\ WF_gvars(Pass) /\ HostFairness

-----------------------------------------------------------------------------
AgesOrNever == Ages \cup {Never}

(* Levels are levels and ages are ages; the switch is tripped for a reason *)
(* (lib.rs:84-100, 152-162).                                               *)
GovTypeOK ==
  /\ host \in Levels /\ budget \in Levels /\ current \in Levels
  /\ breach \in AgesOrNever /\ heartbeat \in AgesOrNever /\ since \in Ages
  /\ deadman \in [reason : {"none", "BudgetBreach", "NoShimConfirmation"}, since : Ages]
  /\ over \in AgesOrNever /\ held \in Ages /\ latest \in Ages

(* lib.rs:248-252, 314-318: whatever the hysteresis holds back, the level  *)
(* is never below what the live inputs ask for, and it is safe mode for as *)
(* long as the dead-man's switch is tripped.                               *)
LevelCoversInputs == current >= Intrinsic /\ (Tripped => current = L4SafeMode)

(* INV-14, lib.rs:132: once the governor has looked at an instant the      *)
(* sustained-breach window after the budget was found exceeded, the switch *)
(* is tripped and stays so, in whatever order instants arrive, until a     *)
(* report finds the budget kept.                                           *)
SustainedBreachTrips ==
  over # Never /\ over - latest >= SustainedBreachWindow => Tripped

(* lib.rs:129, 319-325: the level is lowered only after it has been what   *)
(* it is for the good-news window, less the delay of an instant.           *)
RaisedLevelsLast ==
  [][current' < current => held >= GoodNewsWindow - MaxLag]_gvars

(* No fault any more: nothing is reported that asks for a level, and the   *)
(* shim, if it has ever been heard of, is heard of in time.                *)
Calm ==
  /\ Intrinsic = L0Normal
  /\ heartbeat # Never => heartbeat < ShimHeartbeatTimeout

(* lib.rs:297-299: without an operator, a governor whose inputs recover    *)
(* for good comes back to L0, from safe mode too.                          *)
CalmRestores == <>[]Calm => <>[](current = L0Normal)
=============================================================================
