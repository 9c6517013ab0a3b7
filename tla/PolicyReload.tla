---------------------------- MODULE PolicyReload ----------------------------
(***************************************************************************)
(* Live reload of the policies (athar-daemon/policy_reload.rs): a task     *)
(* polls policies.json and swaps the engine's config when the file's mtime *)
(* changes, while an operator edits, breaks and deletes the file, and may  *)
(* have the command line tool (athar-cli/main.rs) look at it.              *)
(*                                                                         *)
(* last_applied, which the task compares with what it reads, is the        *)
(* engine's config: nobody else reloads.                                   *)
(***************************************************************************)
EXTENDS Naturals

CONSTANTS
  Configs,        \* the policy configs an operator writes
  Default,        \* PolicyConfig::default()
  Invalid,        \* content that is no config, half-written files included
  Missing,        \* no file
  NoMtime,
  MaxEdits        \* bound: edits of the file

ASSUME Contents == Default \in Configs /\ {Invalid, Missing} \cap Configs = {}

VARIABLES
  file,           \* content of policies.json, Missing if there is none
  mtime,          \* its modification time
  engine,         \* PolicyEngine.config
  lastMtime,      \* last_mtime
  watcher,        \* "tick" or "read": between metadata and read_to_string
  glimpse,        \* history: what the last read returned, Missing if it failed
  edits           \* history

pvars == <<file, mtime, engine, lastMtime, watcher, glimpse, edits>>

(* DetectionConfig::load_or_default *)
LoadOrDefault == IF file \in Configs THEN file ELSE Default

PolicyInit ==
  /\ file \in Configs \cup {Invalid, Missing} /\ mtime = 0
  /\ engine = LoadOrDefault
  /\ lastMtime = NoMtime /\ watcher = "tick" /\ glimpse = Missing
  /\ edits = 0

(* The operator writes or deletes the file.  Its mtime may be any: one     *)
(* that the granularity of the clock repeats, or an older one that a tool  *)
(* restores.                                                               *)
Edit ==
  /\ edits < MaxEdits /\ edits' = edits + 1
  /\ file' \in Configs \cup {Invalid, Missing}
  /\ mtime' \in 0..MaxEdits
  /\ UNCHANGED <<engine, lastMtime, watcher, glimpse>>

(* Mutant of Stat: only a newer file counts as changed. *)
StatNewer ==
  /\ watcher = "tick"
  /\ \/ /\ file = Missing
        /\ lastMtime' = NoMtime /\ UNCHANGED watcher
     \/ /\ file # Missing /\ (IF lastMtime = NoMtime THEN TRUE ELSE mtime > lastMtime)
        /\ lastMtime' = mtime /\ watcher' = "read"
  /\ UNCHANGED <<file, mtime, engine, glimpse, edits>>

(* metadata(): a file that is gone is forgotten; one whose mtime is not    *)
(* the last seen will be read, and its mtime counts as seen from here on.  *)
(* Any other error is logged and changes nothing (107-109), which is a     *)
(* stutter: the fairness below says that such errors do not last.          *)
Stat ==
  /\ watcher = "tick"
  /\ \/ /\ file = Missing
        /\ lastMtime' = NoMtime /\ UNCHANGED watcher
     \/ /\ file # Missing /\ mtime # lastMtime
        /\ lastMtime' = mtime /\ watcher' = "read"
  /\ UNCHANGED <<file, mtime, engine, glimpse, edits>>

(* read_to_string and from_str: the content that is there by now, unless   *)
(* it cannot be read.  The last good config stays when there is no other.  *)
Read ==
  /\ watcher = "read" /\ watcher' = "tick"
  /\ glimpse' \in {file, Missing}
  /\ engine' = IF glimpse' \in Configs THEN glimpse' ELSE engine
  /\ UNCHANGED <<file, mtime, lastMtime, edits>>

PolicyNext == Edit \/ Stat \/ Read

(* The task polls as long as the daemon runs (policy_reload.rs:60-61) and  *)
(* can look at the file.                                                   *)
PolicyFairness == WF_pvars(Stat) /\ WF_pvars(Read)

PolicySpec == PolicyInit /\ [][PolicyNext]_pvars /\ PolicyFairness

(* `athar policy validate`, and `athar policy show` for a file it accepts: *)
(* another one is shown as the defaults too.                               *)
Valid == file \in Configs
Shown == LoadOrDefault

-----------------------------------------------------------------------------
(* The watcher has looked at the file as it is dated and did not see what  *)
(* it says: the read failed (policy_reload.rs:91-97), or the content came  *)
(* after the read with the same mtime.  It will not look again.            *)
Overlooked == lastMtime = mtime /\ watcher = "tick" /\ glimpse # file

(* policy_reload.rs:1-3: once the operator leaves a file alone that        *)
(* `policy validate` accepts, the engine ends up with what `policy show`   *)
(* shows, unless the watcher overlooked it.                                *)
PolicyConverges ==
  <>[](Valid => engine = Shown \/ Overlooked)
=============================================================================
