---------------------------- MODULE DropCounters ----------------------------
(***************************************************************************)
(* How athar-daemon counts the frames it drops in safe mode and turns the  *)
(* counters into coverage gaps (ingest.rs): DropCounters::record and take, *)
(* the task that watches the pressure level, and the drain at shutdown.    *)
(*                                                                         *)
(* The three counters are atomics of their own, with no lock around them:  *)
(* every access is a step, and those of the connections, of the watcher    *)
(* and of the shutdown interleave.  The level comes through a              *)
(* tokio::sync::watch channel, which holds the latest value only.  The     *)
(* governor is any sequence of changes between safe mode and not.          *)
(***************************************************************************)
EXTENDS Naturals, FiniteSets

CONSTANTS
  Connections,
  FrameBytes,     \* the size of a frame, the same for all
  MaxDrops,       \* bound: frames dropped
  MaxChanges,     \* bound: changes of the pressure level
  MaxClock        \* bound: the time in ms; 0 is "never"

ASSUME FiniteConnections == IsFiniteSet(Connections)
ASSUME FrameIsNotEmpty == FrameBytes \in Nat \ {0}
ASSUME DropBounds == MaxDrops \in Nat /\ MaxChanges \in Nat /\ MaxClock \in Nat \ {0}

Takers == {"watcher", "shutdown"}

VARIABLES
  l4,                       \* current_level() is L4SafeMode
  version,                  \* of the value in the watch channel
  seen, was_l4,             \* the watcher's receiver and local variable
  frames, bytes, since_ms,  \* the atomics
  recording,                \* where each connection is in record()
  taker,                    \* where each taker is, and what it has taken
  shutdown,                 \* "no", "drain", "exit" or "stopped"
  clock,
  reported,                 \* history: what the coverage gaps emitted add up to
  counted,                  \* history: fetch_adds on frames
  due                       \* history: counted when the signal came

dvars == <<l4, version, seen, was_l4, frames, bytes, since_ms, recording, taker,
           shutdown, clock, reported, counted, due>>

Nothing == [frames |-> 0, bytes |-> 0, since |-> 0]

-----------------------------------------------------------------------------
DropInit ==
  /\ l4 = FALSE /\ version = 0
  /\ seen = 0 /\ was_l4 = FALSE
  /\ frames = 0 /\ bytes = 0 /\ since_ms = 0
  /\ recording = [c \in Connections |-> "no"]
  /\ taker = [t \in Takers |-> [at |-> "idle", sum |-> Nothing]]
  /\ shutdown = "no"
  /\ clock = 1
  /\ reported = [frames |-> 0, bytes |-> 0]
  /\ counted = 0 /\ due = 0

Running == shutdown # "stopped"

(* Governor::recompute publishes another level (send_replace). *)
Pressure ==
  /\ Running /\ version < MaxChanges
  /\ l4' = ~l4 /\ version' = version + 1
  /\ UNCHANGED <<seen, was_l4, frames, bytes, since_ms, recording, taker, reported,
                 shutdown, clock, counted, due>>

(* ingest_one sees safe mode and enters record(). *)
Drop(c) ==
  /\ Running /\ l4 /\ recording[c] = "no"
  /\ recording' = [recording EXCEPT ![c] = "frames"]
  /\ UNCHANGED <<l4, version, seen, was_l4, frames, bytes, since_ms, taker, reported,
                 shutdown, clock, counted, due>>

(* frames.fetch_add(1) *)
CountFrame(c) ==
  /\ Running /\ counted < MaxDrops /\ recording[c] = "frames"
  /\ frames' = frames + 1 /\ counted' = counted + 1
  /\ recording' = [recording EXCEPT ![c] = IF frames = 0 THEN "since" ELSE "bytes"]
  /\ UNCHANGED <<l4, version, seen, was_l4, bytes, since_ms, taker, reported, shutdown, clock, due>>

(* since_ms.store(now_ms), after the first frame of a window only. *)
StampWindow(c) ==
  /\ Running /\ recording[c] = "since"
  /\ since_ms' = clock
  /\ recording' = [recording EXCEPT ![c] = "bytes"]
  /\ UNCHANGED <<l4, version, seen, was_l4, frames, bytes, taker, reported, shutdown, clock,
                 counted, due>>

(* bytes.fetch_add(frame_bytes) *)
CountBytes(c) ==
  /\ Running /\ recording[c] = "bytes"
  /\ bytes' = bytes + FrameBytes
  /\ recording' = [recording EXCEPT ![c] = "no"]
  /\ UNCHANGED <<l4, version, seen, was_l4, frames, since_ms, taker, reported, shutdown, clock,
                 counted, due>>

(* Mutant of Changed: only acts when it finds safe mode, not its end.      *)
ChangedOnEntry ==
  /\ shutdown \in {"no", "drain"} /\ taker["watcher"].at = "idle"
  /\ seen # version
  /\ seen' = version /\ was_l4' = l4
  /\ taker' = IF ~was_l4 /\ l4 THEN [taker EXCEPT !["watcher"].at = "frames"] ELSE taker
  /\ UNCHANGED <<l4, version, frames, bytes, since_ms, recording, reported, shutdown, clock,
                 counted, due>>

(* watch_pressure_and_emit_gaps: rx.changed() returns, and the value then  *)
(* in the channel is the one that counts.                                  *)
Changed ==
  /\ shutdown \in {"no", "drain"} /\ taker["watcher"].at = "idle"
  /\ seen # version
  /\ seen' = version /\ was_l4' = l4
  /\ taker' = IF was_l4 /\ ~l4 THEN [taker EXCEPT !["watcher"].at = "frames"] ELSE taker
  /\ UNCHANGED <<l4, version, frames, bytes, since_ms, recording, reported, shutdown, clock,
                 counted, due>>

(* Mutant of Signal: the watcher is aborted without a drain. *)
SignalWithoutDrain ==
  /\ shutdown = "no"
  /\ shutdown' = "exit"
  /\ due' = counted
  /\ UNCHANGED <<l4, version, seen, was_l4, frames, bytes, since_ms, recording, taker, reported, clock,
                 counted>>

(* run receives the shutdown signal. *)
Signal ==
  /\ shutdown = "no"
  /\ shutdown' = "drain"
  /\ taker' = [taker EXCEPT !["shutdown"].at = "frames"]
  /\ due' = counted
  /\ UNCHANGED <<l4, version, seen, was_l4, frames, bytes, since_ms, recording, reported, clock,
                 counted>>

(* What shutdown goes on to when the drain is over. *)
AfterDrain(t) == IF t = "shutdown" THEN "exit" ELSE shutdown

(* Mutant of TakeFrames: a load instead of a swap. *)
ReadFrames(t) ==
  /\ Running /\ taker[t].at = "frames"
  /\ IF frames = 0
     THEN /\ taker' = [taker EXCEPT ![t].at = "idle"]
          /\ shutdown' = AfterDrain(t)
     ELSE /\ taker' = [taker EXCEPT ![t].at = "bytes", ![t].sum.frames = frames]
          /\ shutdown' = shutdown
  /\ UNCHANGED <<l4, version, seen, was_l4, frames, bytes, since_ms, recording, reported, clock,
                 counted, due>>

(* take: frames.swap(0), with nothing to emit if there was none; ... *)
TakeFrames(t) ==
  /\ Running /\ taker[t].at = "frames"
  /\ frames' = 0
  /\ IF frames = 0
     THEN /\ taker' = [taker EXCEPT ![t].at = "idle"]
          /\ shutdown' = AfterDrain(t)
     ELSE /\ taker' = [taker EXCEPT ![t].at = "bytes", ![t].sum.frames = frames]
          /\ shutdown' = shutdown
  /\ UNCHANGED <<l4, version, seen, was_l4, bytes, since_ms, recording, reported, clock,
                 counted, due>>

(* ... bytes.swap(0); ... *)
TakeBytes(t) ==
  /\ Running /\ taker[t].at = "bytes"
  /\ bytes' = 0
  /\ taker' = [taker EXCEPT ![t].at = "since", ![t].sum.bytes = bytes]
  /\ UNCHANGED <<l4, version, seen, was_l4, frames, since_ms, recording, reported, shutdown, clock,
                 counted, due>>

(* ... since_ms.swap(0). *)
TakeWindow(t) ==
  /\ Running /\ taker[t].at = "since"
  /\ since_ms' = 0
  /\ taker' = [taker EXCEPT ![t].at = "emit", ![t].sum.since = since_ms]
  /\ UNCHANGED <<l4, version, seen, was_l4, frames, bytes, recording, reported, shutdown, clock,
                 counted, due>>

(* emit_coverage_gap_if_any: past the locks of the log and of the audit    *)
(* chain the summary is recorded.                                          *)
Emit(t) ==
  /\ Running /\ taker[t].at = "emit"
  /\ reported' = [frames |-> reported.frames + taker[t].sum.frames,
                  bytes |-> reported.bytes + taker[t].sum.bytes]
  /\ taker' = [taker EXCEPT ![t] = [at |-> "idle", sum |-> Nothing]]
  /\ shutdown' = AfterDrain(t)
  /\ UNCHANGED <<l4, version, seen, was_l4, frames, bytes, since_ms, recording, clock,
                 counted, due>>

(* The watcher is aborted and the process ends.  A task that runs goes on  *)
(* to its next await: take() itself is never cut short.                    *)
Exit ==
  /\ shutdown = "exit" /\ taker["watcher"].at \in {"idle", "emit"}
  /\ shutdown' = "stopped"
  /\ UNCHANGED <<l4, version, seen, was_l4, frames, bytes, since_ms, recording, taker, reported,
                 clock, counted, due>>

Tick ==
  /\ Running /\ clock < MaxClock
  /\ clock' = clock + 1
  /\ UNCHANGED <<l4, version, seen, was_l4, frames, bytes, since_ms, recording, taker, reported,
                 shutdown, counted, due>>

Record(c) == CountFrame(c) \/ StampWindow(c) \/ CountBytes(c)
TakeAndEmit(t) == TakeFrames(t) \/ TakeBytes(t) \/ TakeWindow(t) \/ Emit(t)

DropNext ==
  \/ Pressure \/ Tick
  \/ \E c \in Connections : Drop(c) \/ Record(c)
  \/ Changed
  \/ \E t \in Takers : TakeAndEmit(t)
  \/ Signal \/ Exit

(* The watcher is woken by every new version and runs on to its await.     *)
DropFairness == WF_dvars(Changed) /\ WF_dvars(TakeAndEmit("watcher"))

DropSpec == DropInit /\ [][DropNext]_dvars /\ DropFairness

-----------------------------------------------------------------------------
Summaries == [frames : Nat, bytes : Nat, since : Nat]

(* Types; a taker holds nothing until it has swapped the frames, and no    *)
(* bytes until it has swapped those; nobody drains before the signal.      *)
DropTypeOK ==
  /\ l4 \in BOOLEAN /\ was_l4 \in BOOLEAN
  /\ frames \in Nat /\ bytes \in Nat /\ since_ms \in Nat /\ clock \in Nat
  /\ counted \in Nat /\ due \in Nat
  /\ recording \in [Connections -> {"no", "frames", "since", "bytes"}]
  /\ taker \in [Takers -> [at : {"idle", "frames", "bytes", "since", "emit"}, sum : Summaries]]
  /\ \A t \in Takers :
       /\ taker[t].at \in {"idle", "frames"} => taker[t].sum = Nothing
       /\ taker[t].at = "bytes" => taker[t].sum.bytes = 0
  /\ reported \in [frames : Nat, bytes : Nat]
  /\ shutdown \in {"no", "drain", "exit", "stopped"}
  /\ shutdown = "no" => taker["shutdown"].at = "idle"

(* Connections that have counted their frame and not its bytes yet. *)
Halfway == {c \in Connections : recording[c] \in {"since", "bytes"}}

Taken(t) == taker[t].sum

(* MOD-29: however the accesses interleave, with two takers at work, every *)
(* dropped frame and every byte of it is in the counters, in the hands of  *)
(* one taker, or in exactly one coverage gap.                              *)
DropsConserved ==
  /\ counted = frames + Taken("watcher").frames + Taken("shutdown").frames + reported.frames
  /\ (counted - Cardinality(Halfway)) * FrameBytes
       = bytes + Taken("watcher").bytes + Taken("shutdown").bytes + reported.bytes

(* Once the watcher knows of a safe mode, what was counted by the time it  *)
(* ends is taken, though connections go on counting at the same time.      *)
KnownDropsAreTaken ==
  (was_l4 /\ ~l4 /\ frames > 0 /\ shutdown = "no") ~> (frames = 0 \/ l4 \/ shutdown # "no")

(* ingest.rs:15-16, "emitted on shutdown": whatever was counted when the   *)
(* signal came is in a gap when the daemon stops, or was in the hands of   *)
(* the watcher, which the shutdown aborts at its next await.               *)
ShutdownDrains == shutdown = "stopped" => reported.frames + Taken("watcher").frames >= due
=============================================================================
