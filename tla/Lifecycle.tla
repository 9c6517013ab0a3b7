------------------------------ MODULE Lifecycle ------------------------------
(***************************************************************************)
(* The lifecycle projection of athar-lifecycle: the engine (engine.rs)     *)
(* that applies events, the staleness scanner (scanner.rs) and the SQLite  *)
(* store (sqlite_store.rs) they share.  Beside it the in-memory store      *)
(* (store.rs) is given the same calls.                                     *)
(*                                                                         *)
(* apply() is serialised by the engine's own mutex, the scanner is not     *)
(* under it, and the store locks its connection for one call at a time:    *)
(* get, upsert and record_event of an apply are steps of their own, and so *)
(* is every upsert of a sweep.  correlate() reads columns no sweep changes *)
(* and is one step with the get() that follows it.  A read SQLite fails    *)
(* answers like one that finds nothing.                                    *)
(*                                                                         *)
(* A lifecycle's id is that of the event that created it ("lc_" + id).     *)
(***************************************************************************)
EXTENDS Naturals, Sequences, FiniteSets

CONSTANTS
  Events,            \* event ids
  EventType,         \* what follows "payment.", or "foreign"
  Tenant,            \* tenant_id
  Resource,          \* resource.id
  Operation,         \* operation.operation_id
  BusinessId,        \* customer_correlation_ids["business_id"]
  Parent,            \* parent_event_id, or else causation_id
  None,              \* an absent field
  Staleness,         \* staleness_for, in ticks of the clock
  StoreFaults,       \* may SQLite refuse a write?
  ReadFaults,        \* may SQLite fail a read?
  MaxDeliveries,     \* bound: times each event is sent
  LastArrival,       \* bound: no event arrives after that time
  MaxClock,          \* bound: the last tick
  MaxCrashes         \* bound: crashes of the daemon

ASSUME TimesAreNat ==
  /\ Staleness \in Nat \ {0} /\ LastArrival \in Nat /\ MaxClock \in Nat
  /\ \A e \in Events : MaxDeliveries[e] \in Nat
  /\ MaxCrashes \in Nat
ASSUME NoneIsNoEvent == None \notin Events
ASSUME FaultsAreBool == StoreFaults \in BOOLEAN /\ ReadFaults \in BOOLEAN

VARIABLES
  rows,        \* table lifecycles: rows by id
  bindings,    \* table event_bindings: lifecycle id by event id
  memory,      \* the InMemoryStore given the same writes, until SQLite refuses
               \* one or a lookup misses
  clock,       \* the time, in ms rounded to what staleness can tell
  inbox,       \* events waiting for apply_lock, with their now_ms
  applying,    \* the apply() that holds apply_lock
  sweep,       \* stale copies a sweep has still to write, by id
  delivered,   \* history: times each event arrived
  handled,     \* history: events whose apply returned a lifecycle
  crashes,     \* history
  troubles     \* history: "refusal": SQLite has refused a write; "overlap":
               \* a sweep has been under way at the same time as an apply;
               \* "miss": an apply began a lifecycle where lookups failed that
               \* would have found one

store == <<rows, bindings, memory>>
lvars == <<store, clock, inbox, applying, sweep, delivered, handled, crashes,
           troubles>>

-----------------------------------------------------------------------------
(* transition_for: state and closure by event type, whatever they were.    *)
Transition ==
  [create  |-> <<"Started", "Open">>,
   process |-> <<"Processing", "Open">>,
   pending |-> <<"Pending", "Open">>,
   retry   |-> <<"Processing", "Open">>,
   settle  |-> <<"Success", "Closed">>,
   fail    |-> <<"Failed", "ClosedWithException">>,
   cancel  |-> <<"Cancelled", "Closed">>,
   reverse |-> <<"Reversed", "ClosedWithException">>]

Moves(e) == EventType[e] \in DOMAIN Transition
Terminal == {"Success", "Failed", "Cancelled", "Timeout", "Abandoned", "Reversed"}
IsClosed(row) == row.closure # "Open"

(* The maps of the InMemoryStore. *)
EmptyMemory == [lifecycles |-> <<>>, resource |-> <<>>, key |-> <<>>, event |-> <<>>]

Put(map, k, v) == [x \in DOMAIN map \cup {k} |-> IF x = k THEN v ELSE map[x]]
PutIfAny(map, k, v) == IF k = None THEN map ELSE Put(map, k, v)

(* The lookups: none of them looks at the tenant. *)
ByResource(r) == {i \in DOMAIN rows : r # None /\ rows[i].resource = r}
ByKey(k) == {i \in DOMAIN rows : k # None /\ rows[i].key = k}
ByEvent(e) == IF e \in DOMAIN bindings THEN {bindings[e]} ELSE {}

(* correlate: explicit operation, business id, causation, resource.  The   *)
(* store turns an error of a lookup into None: of the tiers that know the  *)
(* event some may be deaf, and the next one is asked.                      *)
Tiers(e) ==
  <<ByKey(Operation[e]), ByKey(BusinessId[e]), ByEvent(Parent[e]), ByResource(Resource[e])>>

Hits(e) == {n \in 1..4 : Tiers(e)[n] # {}}
Deafness(e) == IF ReadFaults THEN SUBSET Hits(e) ELSE {{}}

Correlated(e, deaf) ==
  LET hits == Hits(e) \ deaf
      tier == CHOOSE n \in hits : \A m \in hits : n <= m
  IN IF hits = {} THEN None ELSE CHOOSE i \in Tiers(e)[tier] : TRUE

Creates(e) ==
  EventType[e] # "foreign" /\ (Resource[e] # None \/ BusinessId[e] # None)

NewLifecycle(e, now) ==
  LET t == IF Moves(e) THEN Transition[EventType[e]] ELSE <<"Started", "Open">>
  IN [tenant |-> Tenant[e], resource |-> Resource[e],
      key |-> IF BusinessId[e] # None THEN BusinessId[e] ELSE Operation[e],
      state |-> t[1], closure |-> t[2], last |-> now,
      events |-> <<e>>, late |-> <<>>]

Updated(row, e, now) ==
  LET t == IF Moves(e) THEN Transition[EventType[e]] ELSE <<row.state, row.closure>>
  IN [row EXCEPT !.events = Append(@, e), !.last = now, !.state = t[1], !.closure = t[2]]

(* classify_late_event *)
Class(row, e) ==
  IF \E n \in 1..Len(row.events) : row.events[n] = e THEN "Duplicate"
  ELSE IF ~Moves(e) THEN "LateInformation"
  ELSE IF Transition[EventType[e]][1] \in Terminal /\ Transition[EventType[e]][1] # row.state
       THEN "Conflict" ELSE "Amendment"

WithLate(row, e) == [row EXCEPT !.late = Append(@, [event |-> e, class |-> Class(row, e)])]

(* INSERT OR REPLACE: a row whose unique columns collide with the new one  *)
(* is deleted; then every event of the lifecycle is bound to it.           *)
Collides(row, other) ==
  /\ row.tenant = other.tenant
  /\ \/ row.resource # None /\ row.resource = other.resource
     \/ row.key # None /\ row.key = other.key

Upsert(id, row) ==
  LET kept == {i \in DOMAIN rows \ {id} : ~Collides(rows[i], row)}
      evs == {row.events[n] : n \in 1..Len(row.events)}
  IN /\ rows' = [i \in kept \cup {id} |-> IF i = id THEN row ELSE rows[i]]
     /\ bindings' = [e \in DOMAIN bindings \cup evs |-> IF e \in evs THEN id ELSE bindings[e]]

(* Mutant of Remember: the business key is not indexed. *)
RememberNoKey(id, row) ==
  LET evs == {row.events[n] : n \in 1..Len(row.events)}
  IN [lifecycles |-> Put(memory.lifecycles, id, row),
      resource |-> PutIfAny(memory.resource, row.resource, id),
      key |-> memory.key,
      event |-> [e \in DOMAIN memory.event \cup evs |->
                   IF e \in evs THEN id ELSE memory.event[e]]]

(* InMemoryStore::upsert: its maps are overwritten one by one. *)
Remember(id, row) ==
  LET evs == {row.events[n] : n \in 1..Len(row.events)}
  IN [lifecycles |-> Put(memory.lifecycles, id, row),
      resource |-> PutIfAny(memory.resource, row.resource, id),
      key |-> PutIfAny(memory.key, row.key, id),
      event |-> [e \in DOMAIN memory.event \cup evs |->
                   IF e \in evs THEN id ELSE memory.event[e]]]

(* A write SQLite refuses is rolled back and only logged.                  *)
Refuse ==
  /\ StoreFaults /\ UNCHANGED <<rows, bindings>>
  /\ memory' = EmptyMemory
  /\ troubles' = troubles \cup {"refusal"}

Follow(remembered) ==
  /\ memory' = IF {"refusal", "miss"} \cap troubles # {} THEN memory ELSE remembered
  /\ UNCHANGED troubles

TryUpsert(id, row) ==
  \/ Upsert(id, row) /\ Follow(Remember(id, row))
  \/ Refuse

-----------------------------------------------------------------------------
LifecycleInit ==
  /\ rows = <<>> /\ bindings = <<>> /\ memory = EmptyMemory
  /\ clock = 0
  /\ inbox = {} /\ applying = {} /\ sweep = <<>>
  /\ delivered = [e \in Events |-> 0] /\ handled = {} /\ crashes = 0
  /\ troubles = {}

(* ingest_one takes the time and calls apply: it queues for the lock. *)
Arrive(e) ==
  /\ clock <= LastArrival /\ delivered[e] < MaxDeliveries[e]
  /\ [event |-> e, now |-> clock] \notin inbox
  /\ inbox' = inbox \cup {[event |-> e, now |-> clock]}
  /\ delivered' = [delivered EXCEPT ![e] = @ + 1]
  /\ UNCHANGED <<store, clock, applying, sweep, handled, crashes, troubles>>

(* apply, up to its upsert: what it writes is decided here, from the row   *)
(* as it is now.                                                           *)
Late(id, e) ==
  {[event |-> e, id |-> id, late |-> TRUE, bind |-> FALSE, row |-> WithLate(rows[id], e)]}

Update(id, e, now) ==
  {[event |-> e, id |-> id, late |-> FALSE, bind |-> FALSE, row |-> Updated(rows[id], e, now)]}

Create(e, now) ==
  {[event |-> e, id |-> e, late |-> FALSE, bind |-> FALSE, row |-> NewLifecycle(e, now)]}

(* The empty set is ApplyOutcome::Unbound.                                 *)
Outcome(e, now, deaf) ==
  LET id == Correlated(e, deaf) IN
  CASE id \in DOMAIN rows -> IF IsClosed(rows[id]) THEN Late(id, e) ELSE Update(id, e, now)
    [] id = None /\ Creates(e) -> Create(e, now)
    [] OTHER -> {}

(* All that know the event were deaf, and it begins a lifecycle.           *)
Missed(e, deaf) == Creates(e) /\ deaf # {} /\ deaf = Hits(e)

(* An apply and a sweep are under way at the same time.                    *)
Meeting(a, s) == IF a # {} /\ DOMAIN s # {} THEN {"overlap"} ELSE {}

(* What the lookups of an apply answer; the get() that follows them may    *)
(* fail as well.                                                           *)
Decide(e, now) ==
  \/ \E deaf \in Deafness(e) :
       LET miss == IF Missed(e, deaf) THEN {"miss"} ELSE {} IN
       /\ applying' = Outcome(e, now, deaf)
       /\ memory' = IF miss # {} THEN EmptyMemory ELSE memory
       /\ troubles' = troubles \cup Meeting(applying', sweep) \cup miss
  \/ /\ ReadFaults /\ Hits(e) # {}
     /\ applying' = {} /\ UNCHANGED <<memory, troubles>>

(* Mutants: apply without its lock; one that does not look at the closure. *)
BeginUnlocked(m) ==
  /\ m \in inbox /\ inbox' = inbox \ {m}
  /\ applying' = applying \cup Outcome(m.event, m.now, {})
  /\ troubles' = troubles \cup Meeting(applying', sweep)
  /\ UNCHANGED <<store, clock, sweep, delivered, handled, crashes>>

BeginReopening(m) ==
  /\ applying = {}
  /\ m \in inbox /\ inbox' = inbox \ {m}
  /\ applying' = LET id == Correlated(m.event, {}) IN
                 IF id \in DOMAIN rows THEN Update(id, m.event, m.now)
                 ELSE Outcome(m.event, m.now, {})
  /\ troubles' = troubles \cup Meeting(applying', sweep)
  /\ UNCHANGED <<store, clock, sweep, delivered, handled, crashes>>

Begin(m) ==
  /\ applying = {}
  /\ m \in inbox /\ inbox' = inbox \ {m}
  /\ Decide(m.event, m.now)
  /\ UNCHANGED <<rows, bindings, clock, sweep, delivered, handled, crashes>>

(* store.upsert, with which a late event is done. *)
Write ==
  \E a \in applying :
    /\ ~a.bind
    /\ TryUpsert(a.id, a.row)
    /\ applying' = (applying \ {a}) \cup IF a.late THEN {} ELSE {[a EXCEPT !.bind = TRUE]}
    /\ handled' = handled \cup IF a.late THEN {a.event} ELSE {}
    /\ UNCHANGED <<clock, inbox, sweep, delivered, crashes>>

(* store.record_event *)
Bind ==
  \E a \in applying :
    /\ a.bind
    /\ \/ /\ bindings' = Put(bindings, a.event, a.id)
          /\ UNCHANGED rows
          /\ Follow([memory EXCEPT !.event = Put(@, a.event, a.id)])
       \/ Refuse
    /\ handled' = handled \cup {a.event}
    /\ applying' = applying \ {a}
    /\ UNCHANGED <<clock, inbox, sweep, delivered, crashes>>

(* timeout_state_for *)
TimeoutState(s) ==
  CASE s = "Started" -> "Abandoned"
    [] s \in {"Processing", "Pending"} -> "Timeout"
    [] OTHER -> s

(* Mutant of TimedOut: sets the state and leaves the closure open. *)
TimedOutOpen(row) == [row EXCEPT !.state = TimeoutState(@)]

TimedOut(row) ==
  [row EXCEPT !.state = TimeoutState(@), !.closure = "ClosedWithUncertainty"]

(* sweep reads the open lifecycles at once, those it can, ... *)
Stale == {i \in DOMAIN rows : ~IsClosed(rows[i]) /\ clock >= rows[i].last + Staleness}

StartSweep ==
  \E seen \in SUBSET Stale :
    /\ DOMAIN sweep = {} /\ seen # {} /\ (ReadFaults \/ seen = Stale)
    /\ sweep' = [i \in seen |-> TimedOut(rows[i])]
    /\ troubles' = troubles \cup Meeting(applying, sweep')
    /\ UNCHANGED <<store, clock, inbox, applying, delivered, handled, crashes>>

(* ... and writes the copies of the stale ones back, one by one. *)
SweepOne ==
  \E i \in DOMAIN sweep :
    /\ TryUpsert(i, sweep[i])
    /\ sweep' = [j \in DOMAIN sweep \ {i} |-> sweep[j]]
    /\ UNCHANGED <<clock, inbox, applying, delivered, handled, crashes>>

Tick ==
  /\ clock < MaxClock
  /\ clock' = clock + 1
  /\ UNCHANGED <<store, inbox, applying, sweep, delivered, handled, crashes, troubles>>

(* The database survives, what was in memory does not. *)
CrashDaemon ==
  /\ crashes < MaxCrashes
  /\ crashes' = crashes + 1
  /\ inbox' = {} /\ applying' = {} /\ sweep' = <<>>
  /\ UNCHANGED <<store, clock, delivered, handled, troubles>>

LifecycleNext ==
  \/ \E e \in Events : Arrive(e)
  \/ \E m \in inbox : Begin(m)
  \/ Write \/ Bind
  \/ StartSweep \/ SweepOne
  \/ Tick \/ CrashDaemon

(* The scanner's timer and the clock go on for ever; an apply that holds   *)
(* the lock runs to its end; SQLite does not refuse every write of every   *)
(* sweep, nor fail to read one and the same stale row for every sweep.     *)
LifecycleFairness ==
  /\ WF_lvars(Write) /\ WF_lvars(Bind)
  /\ \A i \in Events : SF_lvars(StartSweep /\ i \in DOMAIN sweep')
  /\ WF_lvars(SweepOne) /\ SF_lvars(SweepOne /\ rows' # rows)
  /\ WF_lvars(Tick)

LifecycleSpec == LifecycleInit /\ [][LifecycleNext]_lvars /\ LifecycleFairness

-----------------------------------------------------------------------------
States == Terminal \cup {"Started", "Processing", "Pending"}
Closures == {"Open", "Closed", "ClosedWithException", "ClosedWithUncertainty"}
Classes == {"Duplicate", "Conflict", "Amendment", "LateInformation"}

RowOK(row) ==
  /\ row.state \in States /\ row.closure \in Closures
  /\ IsClosed(row) <=> row.state \in Terminal
  /\ row.last \in 0..MaxClock
  /\ row.events # <<>> /\ \A n \in 1..Len(row.events) : row.events[n] \in Events
  /\ \A n \in 1..Len(row.late) : row.late[n] \in [event : Events, class : Classes]

(* Types; and a lifecycle is closed exactly when its state is terminal.    *)
LifecycleTypeOK ==
  /\ DOMAIN rows \subseteq Events /\ \A i \in DOMAIN rows : RowOK(rows[i])
  /\ DOMAIN bindings \subseteq Events /\ \A e \in DOMAIN bindings : bindings[e] \in Events
  /\ inbox \subseteq [event : Events, now : 0..MaxClock]
  /\ \A a \in applying : a.id \in Events /\ RowOK(a.row)
  /\ \A i \in DOMAIN sweep : RowOK(sweep[i]) /\ IsClosed(sweep[i])
  /\ handled \subseteq Events /\ troubles \subseteq {"refusal", "overlap", "miss"}

InRow(e, row) ==
  \/ \E n \in 1..Len(row.events) : row.events[n] = e
  \/ \E n \in 1..Len(row.late) : row.late[n].event = e

(* engine.rs:11-17, store.rs:7-10: an event an apply returned a lifecycle  *)
(* for is in that projection for good; no concurrent writer loses it.      *)
EventsAreKept == \A e \in handled : \E i \in DOMAIN rows : InRow(e, rows[i])

(* So it is, across crashes, sweeps, duplicates, failed reads of rows and  *)
(* applies that queue for the lock, until a sweep overlaps an apply, SQLite *)
(* refuses a write or a lookup misses.                                     *)
KeptUntilTrouble == troubles = {} => EventsAreKept

(* sqlite_store.rs:216-221, engine.rs (causation): until then a binding    *)
(* leads to a row, and to the one that holds the event.                    *)
BoundUntilTrouble ==
  troubles = {} =>
    \A e \in DOMAIN bindings :
      bindings[e] \in DOMAIN rows /\ InRow(e, rows[bindings[e]])

(* store.rs:3-5, "the engine, scanner, and ingest path treat them          *)
(* identically": every lookup, every row and what is open are the same in  *)
(* the two stores, duplicates, sweeps and their overlap with applies       *)
(* notwithstanding, although the tables have unique columns and the maps   *)
(* have none; until SQLite refuses a write or misses a lookup, which the   *)
(* maps never do.                                                          *)
Found(map, k) == IF k \in DOMAIN map THEN {map[k]} ELSE {}

StoresAgree ==
  {"refusal", "miss"} \cap troubles = {} =>
    /\ memory.lifecycles = rows
    /\ \A e \in Events :
         /\ Found(memory.event, e) = ByEvent(e)
         /\ Found(memory.resource, Resource[e]) = ByResource(Resource[e])
         /\ \A k \in {BusinessId[e], Operation[e]} : Found(memory.key, k) = ByKey(k)

(* MOD-27: as long as no sweep overlaps an apply and no lookup misses, a   *)
(* lifecycle once closed is neither reopened nor closed another way,       *)
(* whatever arrives late and whichever writes SQLite refuses.              *)
ClosedIsFinal ==
  [][\A i \in DOMAIN rows : IsClosed(rows[i]) /\ {"overlap", "miss"} \cap troubles = {} =>
       /\ i \in DOMAIN rows'
       /\ rows'[i].state = rows[i].state /\ rows'[i].closure = rows[i].closure]_lvars

(* INSERT OR REPLACE deletes rows that collide in a unique column: that    *)
(* does not happen, because of the lookups that precede it, even when      *)
(* writes fail, a lookup fails and another finds the lifecycle, or a sweep *)
(* writes at the same time.  It may, from the first apply on that all its  *)
(* lookups fail and that takes its event for a new lifecycle.              *)
NoRowVanishes ==
  [][ "miss" \notin troubles => DOMAIN rows \subseteq DOMAIN rows' ]_lvars

(* OPS-7 (SPEC.md:488), "ingest MUST be idempotent on event_id": no event  *)
(* is applied to a lifecycle twice.                                        *)
Times(e, row) == Cardinality({n \in 1..Len(row.events) : row.events[n] = e})
AppliedOnce == \A i \in DOMAIN rows, e \in Events : Times(e, rows[i]) <= 1

(* MOD-25: no lifecycle stays open for ever, though applies may reopen or  *)
(* touch it while a sweep is at work, the daemon may crash in one, and     *)
(* SQLite may refuse its writes and its reads for a while.                 *)
NothingStaysOpen ==
  \A i \in Events :
    (i \in DOMAIN rows /\ ~IsClosed(rows[i])) ~> (i \notin DOMAIN rows \/ IsClosed(rows[i]))
=============================================================================
