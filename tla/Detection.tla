----------------------------- MODULE Detection ------------------------------
(***************************************************************************)
(* The signal engine at work (athar-detection, signal.rs): connections     *)
(* evaluate their events at the same time and share the known resources    *)
(* (an RwLock) and three trackers (a mutex each).  A connection reads the  *)
(* clock before it has the first mutex, so that times reach the trackers   *)
(* out of order.                                                           *)
(*                                                                         *)
(* What evaluate answers is left out: which of the counts exceeds a        *)
(* threshold, and which policy that matches, are functions of the state    *)
(* kept here that no later step reads.                                     *)
(***************************************************************************)
EXTENDS Trackers

CONSTANTS
  Connections,
  Events,         \* [type, tenant, actor, resource, target, outcome]
  FailedTypes, FailedOutcomes,   \* CredentialStuffingConfig
  None,           \* what an event does not have
  MaxClock,       \* bound
  MaxLag,         \* bound: how long a connection holds on to its time
  MaxWork         \* bound: events evaluated

ASSUME FiniteConnections == IsFiniteSet(Connections)
ASSUME EventFields ==
  \A e \in Events :
    /\ DOMAIN e = {"type", "tenant", "actor", "resource", "target", "outcome"}
    /\ e.tenant # None
    /\ e.target \in Nat \cup {None}     \* names, by their order in a BTreeMap
ASSUME ClockBounds == MaxClock \in Nat /\ MaxLag \in Nat

VARIABLES
  clock,
  known,          \* KnownResources.seen
  velocity, credstuff, targets,   \* the trackers
  conn,           \* where each connection is in evaluate
  told,           \* history: how often velocity was told of each subject it
                  \* tracks, by time
  sightings,      \* history: NewBeneficiary signals per resource
  races,          \* history: connections that found a resource new while
                  \* another was about to report it
  taken           \* history: events evaluated

signalvars == <<known, velocity, credstuff, targets, conn>>
detectvars == <<clock, signalvars, told, sightings, races, taken>>

Idle == [at |-> "idle"]
Working(c, step) == conn[c].at = step

(* Who an event is counted for: its tenant if it names no actor. *)
Subject(e) == IF e.actor # None THEN e.actor ELSE e.tenant
Subjects == {Subject(e) : e \in Events}

(* Resources are known by tenant. *)
Key(e) == <<e.tenant, e.resource>>
Resources == {Key(e) : e \in {d \in Events : d.resource # None}}

(* CredentialStuffingConfig::qualifies *)
Qualifies(e) == e.type \in FailedTypes \/ e.outcome \in FailedOutcomes

DetectInit ==
  /\ clock = 0 /\ known = {}
  /\ velocity = NewTracker /\ credstuff = NewTracker /\ targets = NewTracker
  /\ conn = [c \in Connections |-> Idle]
  /\ told = [s \in Subjects |-> [t \in 0..MaxClock |-> 0]] /\ taken = 0
  /\ sightings = [r \in Resources |-> 0] /\ races = [r \in Resources |-> 0]

(* The lock of each step is released before the next is taken. *)
Go(c, step) == conn' = [conn EXCEPT ![c].at = step]

-----------------------------------------------------------------------------
(* evaluate begins: seen.read(). *)
Begin(c) ==
  /\ Working(c, "idle") /\ taken < MaxWork /\ taken' = taken + 1
  /\ \E e \in Events :
       LET new == e.resource # None /\ Key(e) \notin known
           rivals == {d \in Connections : Working(d, "insert") /\ Key(conn[d].event) = Key(e)}
       IN /\ conn' = [conn EXCEPT ![c] =
               [at |-> IF new THEN "insert" ELSE "now", event |-> e, now |-> 0]]
          /\ races' = IF new /\ rivals # {}
                      THEN [races EXCEPT ![Key(e)] = @ + 1] ELSE races
  /\ UNCHANGED <<clock, known, velocity, credstuff, targets, told, sightings>>

(* Mutant of Insert: the signal is reported, the resource not remembered. *)
InsertNothing(c) ==
  /\ Working(c, "insert")
  /\ sightings' = [sightings EXCEPT ![Key(conn[c].event)] = @ + 1]
  /\ Go(c, "now")
  /\ UNCHANGED <<clock, known, velocity, credstuff, targets, told, races, taken>>

(* seen.write(): what insert returns is not looked at. *)
Insert(c) ==
  /\ Working(c, "insert")
  /\ known' = known \cup {Key(conn[c].event)}
  /\ sightings' = [sightings EXCEPT ![Key(conn[c].event)] = @ + 1]
  /\ Go(c, "now")
  /\ UNCHANGED <<clock, velocity, credstuff, targets, told, races, taken>>

(* wall_millis() *)
ReadClock(c) ==
  /\ Working(c, "now")
  /\ conn' = [conn EXCEPT ![c].at = "velocity", ![c].now = clock]
  /\ UNCHANGED <<clock, known, velocity, credstuff, targets, told, sightings, races, taken>>

ObserveVelocity(c) ==
  LET subject == Subject(conn[c].event)
      now == conn[c].now
      gone == Evicted(velocity, subject)
  IN /\ Working(c, "velocity")
     /\ velocity' = VelocityObserve(velocity, subject, now)
     /\ Go(c, IF Qualifies(conn[c].event) THEN "credstuff" ELSE "targets")
     /\ told' = [s \in Subjects |-> [t \in 0..MaxClock |->
                   (IF s \in gone THEN 0 ELSE told[s][t])
                     + (IF s = subject /\ t = now THEN 1 ELSE 0)]]
     /\ UNCHANGED <<clock, known, credstuff, targets, sightings, races, taken>>

ObserveFailure(c) ==
  LET subject == Subject(conn[c].event)
  IN /\ Working(c, "credstuff")
     /\ credstuff' = VelocityObserve(credstuff, subject, conn[c].now)
     /\ Go(c, "targets")
     /\ UNCHANGED <<clock, known, velocity, targets, told, sightings, races, taken>>

(* The last tracker; the signals go to the policy engine and the answer is *)
(* given.                                                                  *)
ObserveTarget(c) ==
  LET subject == Subject(conn[c].event)
      target == conn[c].event.target
  IN /\ Working(c, "targets")
     /\ targets' = IF target = None THEN targets
                   ELSE TargetObserve(targets, subject, target, conn[c].now)
     /\ conn' = [conn EXCEPT ![c] = Idle]
     /\ UNCHANGED <<clock, known, velocity, credstuff, told, sightings, races, taken>>

Pass ==
  /\ clock < MaxClock
  /\ \A c \in Connections :
       conn[c].at \in {"velocity", "credstuff", "targets"} => clock < conn[c].now + MaxLag
  /\ clock' = clock + 1
  /\ UNCHANGED <<signalvars, told, sightings, races, taken>>

Evaluate(c) ==
  Begin(c) \/ Insert(c) \/ ReadClock(c) \/ ObserveVelocity(c) \/ ObserveFailure(c)
    \/ ObserveTarget(c)

DetectNext == Pass \/ \E c \in Connections : Evaluate(c)

DetectSpec == DetectInit /\ [][DetectNext]_detectvars

-----------------------------------------------------------------------------
Largest(S) == CHOOSE n \in S : \A m \in S : m <= n

(* SEC-18, trackers.rs:3-6: no tracker outgrows its bounds, and its lru    *)
(* lists each of its subjects once, so that what it evicts is tracked.     *)
TrackersBounded ==
  /\ \A t \in {velocity, credstuff, targets} :
       /\ Cardinality(Tracked(t)) <= Largest({1, MaxSubjects})
       /\ ToSet(t.lru) = Tracked(t) /\ Len(t.lru) = Cardinality(Tracked(t))
  /\ \A s \in Tracked(targets) :
       Cardinality(DOMAIN targets.windows[s]) \in 1..Largest({1, MaxTargetsPerSubject})

Queued(s, now) ==
  Cardinality({k \in 1..Len(velocity.windows[s]) : velocity.windows[s][k] = now})

LatestOf(s) == Largest({velocity.windows[s][k] : k \in 1..Len(velocity.windows[s])})

(* trackers.rs:61-104: however times arrive, a subject that is tracked is  *)
(* counted for everything it did in the window before its latest event,    *)
(* once each, and for nothing that is older than the window by more than   *)
(* the delay with which times arrive.                                      *)
WindowsAreExact ==
  \A s \in Tracked(velocity) :
    LET queue == velocity.windows[s]
    IN /\ \A t \in Cutoff(LatestOf(s))..MaxClock : Queued(s, t) = told[s][t]
       /\ \A k \in 1..Len(queue) : queue[k] + MaxLag >= Cutoff(queue[Len(queue)])

(* signal.rs:9, 213-224: a resource is reported as new once, and again     *)
(* only by connections that looked while another was about to report it.   *)
ReportedOnce ==
  \A r \in Resources :
    /\ sightings[r] <= 1 + races[r]
    /\ r \in known <=> sightings[r] > 0
=============================================================================
