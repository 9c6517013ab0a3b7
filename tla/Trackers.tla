------------------------------ MODULE Trackers ------------------------------
(***************************************************************************)
(* The trackers of athar-detection (trackers.rs): rolling windows per      *)
(* subject, bounded by evicting the subject heard of the longest ago.      *)
(*                                                                         *)
(* A tracker is a record: `windows`, a function on the tracked subjects,   *)
(* and `lru`, the same subjects as a sequence, the latest active last.     *)
(* The operators compute what observe leaves behind; its answer is the     *)
(* size of the subject's window, reported if it exceeds the threshold.     *)
(***************************************************************************)
EXTENDS Naturals, Sequences, SequencesExt

CONSTANTS
  WindowMs,               \* VelocityConfig, TargetConfig
  MaxSubjects,
  MaxTargetsPerSubject

ASSUME TrackerConfig ==
  WindowMs \in Nat /\ MaxSubjects \in Nat /\ MaxTargetsPerSubject \in Nat

NewTracker == [windows |-> <<>>, lru |-> <<>>]

Tracked(tracker) == DOMAIN tracker.windows

(* A tracker full of others forgets the first of its lru, pop_front.  With *)
(* room for nobody, the first subject is let in all the same: there is     *)
(* nobody to evict.                                                        *)
Evicted(tracker, subject) ==
  IF /\ subject \notin Tracked(tracker)
     /\ Cardinality(Tracked(tracker)) >= MaxSubjects /\ tracker.lru # <<>>
  THEN {Head(tracker.lru)} ELSE {}

Room(tracker, subject) ==
  LET gone == Evicted(tracker, subject)
  IN [windows |-> [s \in Tracked(tracker) \ gone |-> tracker.windows[s]],
      lru |-> IF gone = {} THEN tracker.lru ELSE Tail(tracker.lru)]

(* lru.retain(|s| s != subject): SelectSeq, written without recursion.     *)
Others(seq, subject) == {i \in 1..Len(seq) : seq[i] # subject}

Retain(seq, subject) ==
  [n \in 1..Cardinality(Others(seq, subject)) |->
     seq[CHOOSE i \in Others(seq, subject) :
           Cardinality({j \in Others(seq, subject) : j <= i}) = n]]

(* Mutant of Bumped: the subject keeps its old places in the lru. *)
BumpedTwice(tracker, subject, window) ==
  [windows |-> [s \in Tracked(tracker) \cup {subject} |->
                  IF s = subject THEN window ELSE tracker.windows[s]],
   lru |-> Append(tracker.lru, subject)]

(* The subject's new window, and the subject at the back of the lru. *)
Bumped(tracker, subject, window) ==
  [windows |-> [s \in Tracked(tracker) \cup {subject} |->
                  IF s = subject THEN window ELSE tracker.windows[s]],
   lru |-> Append(Retain(tracker.lru, subject), subject)]

Cutoff(now) == IF now > WindowMs THEN now - WindowMs ELSE 0

(* Mutant of Pruned: a sample as old as the window is too old. *)
PrunedAtCutoff(queue, cutoff) ==
  LET recent == {i \in 1..Len(queue) : queue[i] > cutoff}
  IN IF recent = {} THEN <<>>
     ELSE SubSeq(queue, CHOOSE i \in recent : \A j \in recent : i <= j, Len(queue))

(* VelocityTracker: the window is the queue of the times observed, pruned  *)
(* from its front as long as the front is too old.                         *)
Pruned(queue, cutoff) ==
  LET recent == {i \in 1..Len(queue) : queue[i] >= cutoff}
  IN IF recent = {} THEN <<>>
     ELSE SubSeq(queue, CHOOSE i \in recent : \A j \in recent : i <= j, Len(queue))

VelocityObserve(tracker, subject, now) ==
  LET room == Room(tracker, subject)
      queue == IF subject \in Tracked(room) THEN room.windows[subject] ELSE <<>>
  IN Bumped(room, subject, Append(Pruned(queue, Cutoff(now)), now))

(* TargetTracker: the window is when each target was last seen.  All that  *)
(* are too old go; a full window forgets the one seen the longest ago, the *)
(* first in the order of the BTreeMap among equals.                        *)
Fresh(seen, cutoff) ==
  LET recent == {t \in DOMAIN seen : seen[t] >= cutoff} IN [t \in recent |-> seen[t]]

OldestTarget(seen) ==
  CHOOSE t \in DOMAIN seen : \A u \in DOMAIN seen :
    seen[t] < seen[u] \/ (seen[t] = seen[u] /\ t <= u)

Seen(seen, target, now) ==
  LET full == /\ target \notin DOMAIN seen /\ DOMAIN seen # {}
              /\ Cardinality(DOMAIN seen) >= MaxTargetsPerSubject
      kept == DOMAIN seen \ (IF full THEN {OldestTarget(seen)} ELSE {})
  IN [t \in kept \cup {target} |-> IF t = target THEN now ELSE seen[t]]

TargetObserve(tracker, subject, target, now) ==
  LET room == Room(tracker, subject)
      seen == IF subject \in Tracked(room) THEN room.windows[subject] ELSE <<>>
  IN Bumped(room, subject, Seen(Fresh(seen, Cutoff(now)), target, now))
=============================================================================
