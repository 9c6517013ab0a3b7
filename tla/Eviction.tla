------------------------------ MODULE Eviction ------------------------------
(***************************************************************************)
(* The eviction driver of athar-daemon (eviction.rs) beside the traffic on *)
(* the evidence log.  run_once takes the log's mutex anew for every look   *)
(* at the fill ratio and for every eviction, so appends fall between any   *)
(* two of its steps.                                                       *)
(*                                                                         *)
(* Of SegmentLog's operations the daemon uses open, append, evict and      *)
(* close: a rotation only ever happens inside an append (or in close).     *)
(***************************************************************************)
EXTENDS SegmentLog

CONSTANTS
  HighWaterPct,             \* EvictionConfig
  LowWaterPct,
  MaxEvictionsPerTick

ASSUME WaterMarks ==
  /\ HighWaterPct \in Nat /\ LowWaterPct \in Nat /\ LowWaterPct <= HighWaterPct
  /\ HighWaterPct <= 100
ASSUME TickCap == MaxEvictionsPerTick \in Nat \ {0}

VARIABLES
  driver,                   \* where run_once is
  evictions                 \* its `evicted` counter

driverVars == <<driver, evictions>>
evars == <<vars, driverVars>>

(* fill_pct(log) >= pct.  A quota of zero counts as full, which for a mark *)
(* of at most 100 the product says too.                                    *)
FillAtLeast(pct) == 100 * total_bytes >= pct * QuotaLimit

-----------------------------------------------------------------------------
EvictionInit == Init /\ driver = "idle" /\ evictions = 0

(* Mutant of Wake: only sees a full quota. *)
WakeWhenFull ==
  /\ up /\ driver = "idle" /\ FillAtLeast(100)
  /\ driver' = "evict" /\ evictions' = 0
  /\ UNCHANGED vars

(* A tick, and the first look at the fill ratio. *)
Wake ==
  /\ up /\ driver = "idle"
  /\ FillAtLeast(HighWaterPct)
  /\ driver' = "evict" /\ evictions' = 0
  /\ UNCHANGED vars

EvictOne ==
  /\ driver = "evict"
  /\ EvictOldestClosed
  /\ driver' = "check" /\ evictions' = evictions + 1

(* Nothing left to evict, or remove_file failed: the pass is over. *)
GiveUp ==
  /\ up /\ driver = "evict"
  /\ driver' = "idle"
  /\ UNCHANGED <<vars, evictions>>

(* Mutant of Check: goes on until the tick's cap, however empty the log. *)
CheckCapOnly ==
  /\ up /\ driver = "check"
  /\ driver' = IF evictions >= MaxEvictionsPerTick THEN "idle" ELSE "evict"
  /\ UNCHANGED <<vars, evictions>>

(* The look at the fill ratio after an eviction, then the loop's cap. *)
Check ==
  /\ up /\ driver = "check"
  /\ driver' = IF ~FillAtLeast(LowWaterPct) \/ evictions >= MaxEvictionsPerTick
               THEN "idle" ELSE "evict"
  /\ UNCHANGED <<vars, evictions>>

(* The rest of the daemon, through the same mutex. *)
AppendCannotRotate ==
  /\ next_rec < MaxRecords
  /\ \E n \in RecordSizes : Fits(n) /\ MustRotate(n)
  /\ RotateFailsToClose \/ RotateFailsToOpen

Traffic ==
  /\ \/ Open \/ OpenFails
     \/ \E n \in RecordSizes : Append(n) \/ AppendTorn(n)
     \/ AppendCannotRotate
  /\ UNCHANGED driverVars

(* Shutdown aborts the driver between two of its steps; so does a crash. *)
Stop == (Close \/ Crash) /\ driver' = "idle" /\ UNCHANGED evictions

EvictionNext == Wake \/ EvictOne \/ GiveUp \/ Check \/ Traffic \/ Stop

(* The driver's task is polled again whenever it can run.  remove_file may *)
(* fail, but not every time it is tried: SF where a failure is possible.   *)
EvictionFairness ==
  WF_evars(Wake) /\ SF_evars(EvictOne) /\ WF_evars(Check)

EvictionSpec == EvictionInit /\ [][EvictionNext]_evars /\ EvictionFairness

-----------------------------------------------------------------------------
DriverTypeOK ==
  /\ driver \in {"idle", "evict", "check"}
  /\ evictions \in 0..MaxEvictionsPerTick

(* What the driver saw when it decided to evict still holds when it does:  *)
(* others only ever add to the log.                                        *)
Decided == FillAtLeast(IF evictions = 0 THEN HighWaterPct ELSE LowWaterPct)

DriverInv ==
  /\ driver # "idle" => up
  /\ driver = "evict" => Decided /\ evictions < MaxEvictionsPerTick
  /\ driver = "check" => evictions > 0

(* Retention is only given up under pressure: whatever happened since the  *)
(* last look, a pass deletes no segment of a log below the low water mark, *)
(* and its first only of a log at the high one.                            *)
EvictsUnderPressure == [][~(seg \subseteq seg') => Decided]_evars

Relievable == up /\ seg # {} /\ FillAtLeast(HighWaterPct)

(* OPS-12: pressure that eviction can relieve is relieved, against the     *)
(* appends that keep adding to it, the cap of a tick and failed evictions. *)
PressureIsRelieved == Relievable ~> ~Relievable

(* eviction.rs:14-18: when nothing is evictable the driver waits for the   *)
(* next tick, and other work eventually gives it more to evict: a log that *)
(* refuses every record takes records again some day, or is opened anew.   *)
(* Asked where boots and records are left: it is not the bounds that stop  *)
(* the daemon.                                                             *)
CaptureResumes ==
  (up /\ boots < MaxBoots /\ next_rec < MaxRecords /\ \A n \in RecordSizes : ~Fits(n))
    ~> (~up \/ \E n \in RecordSizes : Fits(n))
=============================================================================
