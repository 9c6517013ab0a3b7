--------------------------- MODULE LifecycleProofs ---------------------------
(***************************************************************************)
(* Proofs about Lifecycle, for any events, tenants, keys, staleness,       *)
(* number of deliveries and crashes, whichever reads and writes fail.      *)
(* First what keeps two lifecycles apart (BaseInv), on which everything    *)
(* else rests; then, part by part, what sweeps and applies may do to each  *)
(* other (FinalInv), where an event that was handled is (KeptInv), and     *)
(* that the in-memory store follows (AgreeInv).                            *)
(***************************************************************************)
EXTENDS Lifecycle, TLAPS

(* The business key a lifecycle gets from the event that creates it. *)
KeyOf(e) == IF BusinessId[e] # None THEN BusinessId[e] ELSE Operation[e]

LateEvent == [event : Events, class : Classes]

Row ==
  [tenant : {Tenant[e] : e \in Events}, resource : {Resource[e] : e \in Events},
   key : {KeyOf(e) : e \in Events}, state : States, closure : Closures,
   last : Nat, events : Seq(Events), late : Seq(LateEvent)]

Applies == [event : Events, id : Events, late : BOOLEAN, bind : BOOLEAN, row : Row]

TypeInv ==
  /\ DOMAIN rows \subseteq Events /\ rows \in [DOMAIN rows -> Row]
  /\ DOMAIN bindings \subseteq Events /\ bindings \in [DOMAIN bindings -> Events]
  /\ clock \in Nat
  /\ inbox \subseteq [event : Events, now : Nat]
  /\ applying \subseteq Applies
  /\ DOMAIN sweep \subseteq Events /\ sweep \in [DOMAIN sweep -> Row]
  /\ delivered \in [Events -> Nat]

(* A row keeps the columns of the event that created it, whose id it has.  *)
Columns(id, row) == row.resource = Resource[id] /\ row.key = KeyOf(id)

ColumnsInv ==
  /\ \A i \in DOMAIN rows : Columns(i, rows[i])
  /\ \A a \in applying : Columns(a.id, a.row)
  /\ \A i \in DOMAIN sweep : Columns(i, sweep[i])

(* Two events that cannot both have created a lifecycle. *)
Same(i, j) ==
  \/ Resource[i] # None /\ Resource[i] = Resource[j]
  \/ KeyOf(i) # None /\ KeyOf(i) = KeyOf(j)

(* No apply has taken an event that its lookups should have found for a    *)
(* new lifecycle.                                                          *)
Sighted == "miss" \notin troubles

(* Until then no two lifecycles have a column in common, whatever their    *)
(* tenants, and neither have one that is still to be written and those     *)
(* that are there.                                                         *)
ApartInv ==
  /\ \A a, b \in applying : a = b
  /\ Sighted =>
       /\ \A i, j \in DOMAIN rows : i # j => ~Same(i, j)
       /\ \A a \in applying : a.id \notin DOMAIN rows => \A j \in DOMAIN rows : ~Same(a.id, j)
       /\ DOMAIN sweep \subseteq DOMAIN rows

BaseInv == TypeInv /\ ColumnsInv /\ ApartInv

-----------------------------------------------------------------------------
LEMMA TransitionTyped ==
  ASSUME NEW t \in DOMAIN Transition
  PROVE  Transition[t][1] \in States /\ Transition[t][2] \in Closures
  BY DEF Transition, States, Closures, Terminal

LEMMA NewRow ==
  ASSUME NEW e \in Events, NEW now \in Nat
  PROVE  /\ NewLifecycle(e, now) \in Row /\ Columns(e, NewLifecycle(e, now))
         /\ NewLifecycle(e, now).events = <<e>> /\ NewLifecycle(e, now).late = <<>>
<1> DEFINE t == IF Moves(e) THEN Transition[EventType[e]] ELSE <<"Started", "Open">>
<1>1. t[1] \in States /\ t[2] \in Closures
  BY TransitionTyped DEF Moves, States, Closures
<1>2. <<e>> \in Seq(Events) /\ <<>> \in Seq(LateEvent)
  OBVIOUS
<1> HIDE DEF t
<1>3. NewLifecycle(e, now) =
        [tenant |-> Tenant[e], resource |-> Resource[e], key |-> KeyOf(e),
         state |-> t[1], closure |-> t[2], last |-> now, events |-> <<e>>, late |-> <<>>]
  BY DEF NewLifecycle, t, KeyOf
<1> QED  BY <1>1, <1>2, <1>3 DEF Row, Columns

LEMMA UpdatedRow ==
  ASSUME NEW e \in Events, NEW now \in Nat, NEW row \in Row
  PROVE  /\ Updated(row, e, now) \in Row
         /\ Updated(row, e, now).resource = row.resource
         /\ Updated(row, e, now).key = row.key
         /\ Updated(row, e, now).events = Append(row.events, e)
         /\ Updated(row, e, now).late = row.late
<1> DEFINE t == IF Moves(e) THEN Transition[EventType[e]] ELSE <<row.state, row.closure>>
<1>1. t[1] \in States /\ t[2] \in Closures
  BY TransitionTyped DEF Moves, Row
<1>2. Append(row.events, e) \in Seq(Events)
  BY DEF Row
<1> HIDE DEF t
<1>3. Updated(row, e, now) =
        [row EXCEPT !.events = Append(@, e), !.last = now, !.state = t[1], !.closure = t[2]]
  BY DEF Updated, t
<1> QED  BY <1>1, <1>2, <1>3 DEF Row

LEMMA LateRow ==
  ASSUME NEW e \in Events, NEW row \in Row
  PROVE  /\ WithLate(row, e) \in Row
         /\ WithLate(row, e).resource = row.resource /\ WithLate(row, e).key = row.key
         /\ WithLate(row, e).state = row.state /\ WithLate(row, e).closure = row.closure
         /\ WithLate(row, e).events = row.events
         /\ WithLate(row, e).late = Append(row.late, [event |-> e, class |-> Class(row, e)])
<1>1. Class(row, e) \in Classes
  BY DEF Class, Classes
<1>2. Append(row.late, [event |-> e, class |-> Class(row, e)]) \in Seq(LateEvent)
  BY <1>1 DEF Row, LateEvent
<1> QED  BY <1>2 DEF WithLate, Row

LEMMA TimedOutRow ==
  ASSUME NEW row \in Row
  PROVE  /\ TimedOut(row) \in Row
         /\ TimedOut(row).resource = row.resource /\ TimedOut(row).key = row.key
         /\ TimedOut(row).events = row.events /\ TimedOut(row).late = row.late
         /\ IsClosed(TimedOut(row))
<1>1. TimeoutState(row.state) \in States /\ "ClosedWithUncertainty" \in Closures
  BY DEF TimeoutState, Row, States, Terminal, Closures
<1> QED  BY <1>1 DEF TimedOut, Row, IsClosed

LEMMA TiersTyped ==
  ASSUME TypeInv, NEW e \in Events, NEW n \in 1..4
  PROVE  Tiers(e)[n] \subseteq Events
<1> DEFINE T == Tiers(e)
<1>1. /\ T[1] = ByKey(Operation[e]) /\ T[2] = ByKey(BusinessId[e])
      /\ T[3] = ByEvent(Parent[e]) /\ T[4] = ByResource(Resource[e])
  BY DEF Tiers
<1>2. ByKey(Operation[e]) \subseteq Events /\ ByKey(BusinessId[e]) \subseteq Events
  BY DEF ByKey, TypeInv
<1>3. ByEvent(Parent[e]) \subseteq Events /\ ByResource(Resource[e]) \subseteq Events
  BY DEF ByEvent, ByResource, TypeInv
<1> HIDE DEF T
<1>4. T[n] \subseteq Events
  BY <1>1, <1>2, <1>3
<1> QED  BY <1>4 DEF T

(* No tier knows the event, or all that know it are deaf. *)
LEMMA Uncorrelated ==
  ASSUME TypeInv, NEW e \in Events, NEW deaf \in Deafness(e), Correlated(e, deaf) = None
  PROVE  deaf = Hits(e)
<1> DEFINE hits == Hits(e) \ deaf
           tier == CHOOSE n \in hits : \A m \in hits : n <= m
<1>0. deaf \subseteq Hits(e) /\ Hits(e) \subseteq 1..4
  BY DEF Deafness, Hits
<1>1. CASE hits = {}
  BY <1>0, <1>1
<1>2. CASE hits # {}
  <2>1. \E n \in hits : \A m \in hits : n <= m
    <3> HIDE DEF hits
    <3>1. \A n \in hits : n = 1 \/ n = 2 \/ n = 3 \/ n = 4
      BY <1>0 DEF hits
    <3>2. CASE 1 \in hits
      BY <3>1, <3>2
    <3>3. CASE 1 \notin hits /\ 2 \in hits
      BY <3>1, <3>3
    <3>4. CASE 1 \notin hits /\ 2 \notin hits
      BY <1>2, <3>1, <3>4
    <3> QED  BY <3>2, <3>3, <3>4
  <2>2. tier \in hits
    BY <2>1
  <2>3. Tiers(e)[tier] # {} /\ Tiers(e)[tier] \subseteq Events
    BY <2>2, TiersTyped DEF Hits
  <2>4. (CHOOSE i \in Tiers(e)[tier] : TRUE) \in Events
    BY <2>3
  <2>5. Correlated(e, deaf) = CHOOSE i \in Tiers(e)[tier] : TRUE
    BY <1>2 DEF Correlated
  <2> QED  BY <2>4, <2>5, NoneIsNoEvent
<1> QED  BY <1>1, <1>2

(* What an apply may be about to write: a late event or an update of the   *)
(* row that is there, or a new lifecycle.                                  *)
Amends(a, e) ==
  /\ a.id \in DOMAIN rows /\ IsClosed(rows[a.id]) /\ a.late
  /\ a.row = WithLate(rows[a.id], e)

Extends(a, e, now) ==
  /\ a.id \in DOMAIN rows /\ ~IsClosed(rows[a.id]) /\ ~a.late
  /\ a.row = Updated(rows[a.id], e, now)

Starts(a, e, now) == a.id = e /\ ~a.late /\ a.row = NewLifecycle(e, now)

(* One apart from all that are there. *)
Fresh(e) == e \notin DOMAIN rows /\ \A j \in DOMAIN rows : ~Same(e, j)

LEMMA UnknownIsFresh ==
  ASSUME ColumnsInv, NEW e \in Events, Creates(e), Hits(e) = {}
  PROVE  Fresh(e)
<1> DEFINE T == Tiers(e)
<1>1. /\ T[1] = ByKey(Operation[e]) /\ T[2] = ByKey(BusinessId[e])
      /\ T[4] = ByResource(Resource[e])
  BY DEF Tiers
<1>2. T[1] = {} /\ T[2] = {} /\ T[4] = {}
  BY DEF Hits
<1>3. ByKey(Operation[e]) = {} /\ ByKey(BusinessId[e]) = {} /\ ByResource(Resource[e]) = {}
  <2> HIDE DEF T
  <2> QED  BY <1>1, <1>2
<1>4. \A j \in DOMAIN rows : ~Same(e, j)
  BY <1>3 DEF Same, ByKey, ByResource, KeyOf, ColumnsInv, Columns
<1>5. Same(e, e)
  BY DEF Creates, Same, KeyOf
<1> QED  BY <1>4, <1>5 DEF Fresh

LEMMA Outcomes ==
  ASSUME BaseInv, NEW e \in Events, NEW now \in Nat, NEW deaf \in Deafness(e),
         NEW a \in Outcome(e, now, deaf)
  PROVE  /\ a.event = e /\ ~a.bind /\ a \in Applies
         /\ Columns(a.id, a.row)
         /\ \/ Amends(a, e) \/ Extends(a, e, now)
            \/ Starts(a, e, now) /\ (Missed(e, deaf) \/ Fresh(e))
<1> DEFINE id == Correlated(e, deaf)
<1> USE DEF BaseInv
<1>0. id \in DOMAIN rows => id # None
  BY NoneIsNoEvent DEF TypeInv
<1>1. CASE id \in DOMAIN rows /\ IsClosed(rows[id])
  <2>1. a = [event |-> e, id |-> id, late |-> TRUE, bind |-> FALSE, row |-> WithLate(rows[id], e)]
    BY <1>0, <1>1 DEF Outcome, Late
  <2>2. id \in Events /\ rows[id] \in Row /\ Columns(id, rows[id])
    BY <1>1 DEF TypeInv, ColumnsInv
  <2>3. WithLate(rows[id], e) \in Row /\ Columns(id, WithLate(rows[id], e))
    BY <2>2, LateRow DEF Columns
  <2> HIDE DEF id
  <2> QED  BY <1>1, <2>1, <2>2, <2>3 DEF Applies, Amends
<1>2. CASE id \in DOMAIN rows /\ ~IsClosed(rows[id])
  <2>1. a = [event |-> e, id |-> id, late |-> FALSE, bind |-> FALSE, row |-> Updated(rows[id], e, now)]
    BY <1>0, <1>2 DEF Outcome, Update
  <2>2. id \in Events /\ rows[id] \in Row /\ Columns(id, rows[id])
    BY <1>2 DEF TypeInv, ColumnsInv
  <2>3. Updated(rows[id], e, now) \in Row /\ Columns(id, Updated(rows[id], e, now))
    BY <2>2, UpdatedRow DEF Columns
  <2> HIDE DEF id
  <2> QED  BY <1>2, <2>1, <2>2, <2>3 DEF Applies, Extends
<1>3. CASE id \notin DOMAIN rows
  <2>1. id = None /\ Creates(e)
    BY <1>3 DEF Outcome
  <2>2. a = [event |-> e, id |-> e, late |-> FALSE, bind |-> FALSE, row |-> NewLifecycle(e, now)]
    BY <1>3, <2>1 DEF Outcome, Create
  <2>3. deaf = Hits(e)
    BY <2>1, Uncorrelated
  <2>4. Missed(e, deaf) \/ Fresh(e)
    BY <2>1, <2>3, UnknownIsFresh DEF Missed
  <2>5. NewLifecycle(e, now) \in Row /\ Columns(e, NewLifecycle(e, now))
    BY NewRow
  <2> QED  BY <2>2, <2>4, <2>5 DEF Applies, Starts
<1> QED  BY <1>1, <1>2, <1>3

(* The upsert of a row that is apart from the others replaces none of them. *)
Stored(id, row) == rows' = [i \in DOMAIN rows \cup {id} |-> IF i = id THEN row ELSE rows[i]]

Bound(id, row) ==
  bindings' = [e \in DOMAIN bindings \cup {row.events[n] : n \in 1..Len(row.events)} |->
                 IF e \in {row.events[n] : n \in 1..Len(row.events)} THEN id ELSE bindings[e]]

LEMMA UpsertKeeps ==
  ASSUME ColumnsInv, NEW id, NEW row, Columns(id, row),
         \A j \in DOMAIN rows : j # id => ~Same(id, j),
         Upsert(id, row)
  PROVE  Stored(id, row) /\ Bound(id, row)
<1>1. \A j \in DOMAIN rows \ {id} : ~Collides(rows[j], row)
  BY DEF Collides, Same, Columns, ColumnsInv
<1>2. {i \in DOMAIN rows \ {id} : ~Collides(rows[i], row)} \cup {id} = DOMAIN rows \cup {id}
  BY <1>1
<1> QED  BY <1>2 DEF Upsert, Stored, Bound

(* One case per action, with what it does to the store, for all the proofs *)
(* that an invariant is kept.  Every write of the store is one of such a   *)
(* row, or none at all.                                                    *)
Wrote(id, row) ==
  /\ Stored(id, row) /\ Bound(id, row) /\ Follow(Remember(id, row))

LEMMA WriteKeeps ==
  ASSUME BaseInv, Sighted, NEW a \in applying, TryUpsert(a.id, a.row)
  PROVE  Wrote(a.id, a.row) \/ Refuse
<1>1. \A j \in DOMAIN rows : j # a.id => ~Same(a.id, j)
  BY DEF BaseInv, ApartInv
<1> QED  BY <1>1, UpsertKeeps DEF TryUpsert, BaseInv, ColumnsInv, Wrote

LEMMA SweepKeeps ==
  ASSUME BaseInv, Sighted, NEW i \in DOMAIN sweep, TryUpsert(i, sweep[i])
  PROVE  Wrote(i, sweep[i]) \/ Refuse
<1>1. \A j \in DOMAIN rows : j # i => ~Same(i, j)
  BY DEF BaseInv, ApartInv, ColumnsInv
<1> QED  BY <1>1, UpsertKeeps DEF TryUpsert, BaseInv, ColumnsInv, Wrote

-----------------------------------------------------------------------------
(* What an upsert leaves, the rows it may replace included. *)
LEMMA UpsertTyped ==
  ASSUME TypeInv, NEW id \in Events, NEW row \in Row, TryUpsert(id, row)
  PROVE  /\ DOMAIN rows' \subseteq Events /\ rows' \in [DOMAIN rows' -> Row]
         /\ \A i \in DOMAIN rows' :
              (i = id /\ rows'[i] = row) \/ (i \in DOMAIN rows /\ rows'[i] = rows[i])
         /\ DOMAIN bindings' \subseteq Events /\ bindings' \in [DOMAIN bindings' -> Events]
<1>1. CASE Upsert(id, row)
  <2> DEFINE kept == {i \in DOMAIN rows \ {id} : ~Collides(rows[i], row)}
             evs == {row.events[n] : n \in 1..Len(row.events)}
  <2>1. /\ rows' = [i \in kept \cup {id} |-> IF i = id THEN row ELSE rows[i]]
        /\ bindings' = [e \in DOMAIN bindings \cup evs |-> IF e \in evs THEN id ELSE bindings[e]]
    BY <1>1 DEF Upsert
  <2>2. kept \subseteq DOMAIN rows /\ evs \subseteq Events
    BY DEF Row
  <2> HIDE DEF kept, evs
  <2> QED  BY <2>1, <2>2 DEF TypeInv
<1>2. CASE Refuse
  BY <1>2 DEF Refuse, TypeInv
<1> QED  BY <1>1, <1>2 DEF TryUpsert

LEMMA StoreTyped ==
  ASSUME TypeInv, NEW id \in Events, NEW row \in Row, Wrote(id, row)
  PROVE  /\ DOMAIN rows' = DOMAIN rows \cup {id}
         /\ rows'[id] = row /\ \A i \in DOMAIN rows : i # id => rows'[i] = rows[i]
  BY DEF TypeInv, Wrote, Stored

(* Troubles are never forgotten. *)
LEMMA TroublesGrow == [LifecycleNext]_lvars => troubles \subseteq troubles'
  BY DEF LifecycleNext, lvars, Arrive, Begin, Decide, Write, Bind, TryUpsert, Follow, Refuse,
         StartSweep, SweepOne, Tick, CrashDaemon

LEMMA BaseInitially == LifecycleInit => BaseInv
  BY DEF LifecycleInit, BaseInv, TypeInv, ColumnsInv, ApartInv

(* Writing the row of a lifecycle that is there, or one apart from all.    *)
LEMMA BaseWritten ==
  ASSUME BaseInv, Sighted, NEW id \in Events, NEW row \in Row, Wrote(id, row),
         \A j \in DOMAIN rows : j # id => ~Same(id, j)
  PROVE  \A i, j \in DOMAIN rows' : i # j => ~Same(i, j)
<1>1. DOMAIN rows' = DOMAIN rows \cup {id}
  BY StoreTyped DEF BaseInv
<1> QED  BY <1>1 DEF BaseInv, ApartInv, Same

LEMMA BaseWrite == BaseInv /\ Write => BaseInv'
<1> SUFFICES ASSUME BaseInv, Write PROVE BaseInv'
  OBVIOUS
<1>1. PICK a \in applying :
        /\ ~a.bind /\ TryUpsert(a.id, a.row)
        /\ applying' = (applying \ {a}) \cup IF a.late THEN {} ELSE {[a EXCEPT !.bind = TRUE]}
        /\ UNCHANGED <<clock, inbox, sweep, delivered, crashes>>
  BY DEF Write
<1>2. applying = {a} /\ a \in Applies /\ Columns(a.id, a.row)
  BY DEF BaseInv, ApartInv, TypeInv, ColumnsInv
<1>3. a.id \in Events /\ a.row \in Row
  BY <1>2 DEF Applies
<1>4. applying' \subseteq {[a EXCEPT !.bind = TRUE]}
  BY <1>1, <1>2
<1>5. /\ [a EXCEPT !.bind = TRUE] \in Applies
      /\ [a EXCEPT !.bind = TRUE].id = a.id /\ [a EXCEPT !.bind = TRUE].row = a.row
  BY <1>2 DEF Applies
<1>6. TypeInv'
  BY <1>1, <1>3, <1>4, <1>5, UpsertTyped DEF BaseInv, TypeInv
<1>7. ColumnsInv'
  <2>1. \A i \in DOMAIN rows' : Columns(i, rows'[i])
    BY <1>1, <1>2, <1>3, UpsertTyped DEF BaseInv, ColumnsInv
  <2> QED  BY <1>1, <1>2, <1>4, <1>5, <2>1 DEF BaseInv, ColumnsInv, Columns
<1>8. ApartInv'
  <2>1. SUFFICES ASSUME Sighted'
                 PROVE  /\ \A i, j \in DOMAIN rows' : i # j => ~Same(i, j)
                        /\ \A b \in applying' : b.id \notin DOMAIN rows' =>
                             \A j \in DOMAIN rows' : ~Same(b.id, j)
                        /\ DOMAIN sweep' \subseteq DOMAIN rows'
    BY <1>4 DEF ApartInv, Same, Sighted
  <2>2. Sighted
    BY <1>1, <2>1 DEF TryUpsert, Follow, Refuse, Sighted
  <2>3. /\ \A j \in DOMAIN rows : j # a.id => ~Same(a.id, j)
        /\ Wrote(a.id, a.row) \/ Refuse
    BY <1>1, <2>2, WriteKeeps DEF BaseInv, ApartInv
  <2>4. CASE Wrote(a.id, a.row)
    <3>1. DOMAIN rows' = DOMAIN rows \cup {a.id}
      BY <1>3, <2>4, StoreTyped DEF BaseInv
    <3>2. \A i, j \in DOMAIN rows' : i # j => ~Same(i, j)
      BY <1>3, <2>2, <2>3, <2>4, BaseWritten
    <3> QED  BY <1>1, <1>4, <1>5, <2>2, <3>1, <3>2 DEF BaseInv, ApartInv
  <2>5. CASE Refuse
    BY <1>1, <1>2, <1>4, <1>5, <2>2, <2>5 DEF BaseInv, ApartInv, Refuse
  <2> QED  BY <2>3, <2>4, <2>5
<1> QED  BY <1>6, <1>7, <1>8 DEF BaseInv

LEMMA BaseSweepOne == BaseInv /\ SweepOne => BaseInv'
<1> SUFFICES ASSUME BaseInv, SweepOne PROVE BaseInv'
  OBVIOUS
<1>1. PICK i \in DOMAIN sweep :
        /\ TryUpsert(i, sweep[i])
        /\ sweep' = [j \in DOMAIN sweep \ {i} |-> sweep[j]]
        /\ UNCHANGED <<clock, inbox, applying, delivered, handled, crashes>>
  BY DEF SweepOne
<1>2. i \in Events /\ sweep[i] \in Row /\ Columns(i, sweep[i])
  BY DEF BaseInv, TypeInv, ColumnsInv
<1>3. TypeInv'
  BY <1>1, <1>2, UpsertTyped DEF BaseInv, TypeInv
<1>4. ColumnsInv'
  <2>1. \A j \in DOMAIN rows' : Columns(j, rows'[j])
    BY <1>1, <1>2, UpsertTyped DEF BaseInv, ColumnsInv
  <2> QED  BY <1>1, <2>1 DEF BaseInv, ColumnsInv, Columns
<1>5. ApartInv'
  <2>1. SUFFICES ASSUME Sighted'
                 PROVE  /\ \A k, j \in DOMAIN rows' : k # j => ~Same(k, j)
                        /\ \A b \in applying' : b.id \notin DOMAIN rows' =>
                             \A j \in DOMAIN rows' : ~Same(b.id, j)
                        /\ DOMAIN sweep' \subseteq DOMAIN rows'
    BY <1>1 DEF BaseInv, ApartInv, Same, Sighted
  <2>2. Sighted
    BY <1>1, <2>1 DEF TryUpsert, Follow, Refuse, Sighted
  <2>3. /\ i \in DOMAIN rows /\ \A j \in DOMAIN rows : j # i => ~Same(i, j)
        /\ Wrote(i, sweep[i]) \/ Refuse
    BY <1>1, <2>2, SweepKeeps DEF BaseInv, ApartInv
  <2>4. DOMAIN rows' = DOMAIN rows
    BY <1>2, <2>3, StoreTyped DEF BaseInv, Refuse
  <2> QED  BY <1>1, <2>2, <2>4 DEF BaseInv, ApartInv
<1> QED  BY <1>3, <1>4, <1>5 DEF BaseInv

LEMMA OneOutcome ==
  ASSUME TypeInv, NEW e \in Events, NEW now, NEW deaf,
         NEW a \in Outcome(e, now, deaf), NEW b \in Outcome(e, now, deaf)
  PROVE  a = b
<1> DEFINE id == Correlated(e, deaf)
<1>1. id \in DOMAIN rows => id # None
  BY NoneIsNoEvent DEF TypeInv
<1>2. CASE id \in DOMAIN rows /\ IsClosed(rows[id])
  <2>1. Outcome(e, now, deaf) = Late(id, e)
    BY <1>1, <1>2 DEF Outcome
  <2> QED  BY <2>1 DEF Late
<1>3. CASE id \in DOMAIN rows /\ ~IsClosed(rows[id])
  <2>1. Outcome(e, now, deaf) = Update(id, e, now)
    BY <1>1, <1>3 DEF Outcome
  <2> QED  BY <2>1 DEF Update
<1>4. CASE id \notin DOMAIN rows /\ id = None /\ Creates(e)
  <2>1. Outcome(e, now, deaf) = Create(e, now)
    BY <1>4 DEF Outcome
  <2> QED  BY <2>1 DEF Create
<1>5. CASE id \notin DOMAIN rows /\ ~(id = None /\ Creates(e))
  BY <1>5 DEF Outcome
<1> QED  BY <1>2, <1>3, <1>4, <1>5

(* What Begin leaves to be written, and what it remembers as trouble.      *)
Begun(a, m) ==
  /\ a.event = m.event /\ ~a.bind /\ a \in Applies
  /\ Columns(a.id, a.row)
  /\ \/ Amends(a, m.event) \/ Extends(a, m.event, m.now)
     \/ Starts(a, m.event, m.now) /\ (Sighted' => Fresh(m.event))

LEMMA BeginFacts ==
  ASSUME BaseInv, NEW m \in inbox, Begin(m)
  PROVE  /\ m.event \in Events /\ m.now \in Nat
         /\ applying = {} /\ inbox' = inbox \ {m}
         /\ \A a, b \in applying' : a = b
         /\ \A a \in applying' : Begun(a, m)
         /\ applying' # {} /\ DOMAIN sweep # {} => "overlap" \in troubles'
         /\ memory' = memory \/ "miss" \in troubles'
         /\ UNCHANGED <<rows, bindings, clock, sweep, delivered, handled, crashes>>
<1>1. m.event \in Events /\ m.now \in Nat
  BY DEF BaseInv, TypeInv
<1>2. /\ applying = {} /\ inbox' = inbox \ {m} /\ Decide(m.event, m.now)
      /\ UNCHANGED <<rows, bindings, clock, sweep, delivered, handled, crashes>>
  BY DEF Begin
<1>3. CASE applying' = {} /\ UNCHANGED <<memory, troubles>>
  BY <1>1, <1>2, <1>3
<1>4. CASE \E deaf \in Deafness(m.event) :
             LET miss == IF Missed(m.event, deaf) THEN {"miss"} ELSE {} IN
             /\ applying' = Outcome(m.event, m.now, deaf)
             /\ memory' = IF miss # {} THEN EmptyMemory ELSE memory
             /\ troubles' = troubles \cup Meeting(applying', sweep) \cup miss
  <2>1. PICK deaf \in Deafness(m.event) :
          LET miss == IF Missed(m.event, deaf) THEN {"miss"} ELSE {} IN
          /\ applying' = Outcome(m.event, m.now, deaf)
          /\ memory' = IF miss # {} THEN EmptyMemory ELSE memory
          /\ troubles' = troubles \cup Meeting(applying', sweep) \cup miss
    BY <1>4
  <2>2. \A a, b \in applying' : a = b
    BY <1>1, <2>1, OneOutcome DEF BaseInv
  <2>3. Missed(m.event, deaf) => "miss" \in troubles'
    BY <2>1
  <2>4. \A a \in applying' : Begun(a, m)
    BY <1>1, <2>1, <2>3, Outcomes DEF Begun, Sighted
  <2>5. applying' # {} /\ DOMAIN sweep # {} => "overlap" \in troubles'
    BY <2>1 DEF Meeting
  <2>6. memory' = memory \/ "miss" \in troubles'
    BY <2>1, <2>3
  <2> QED  BY <1>1, <1>2, <2>2, <2>4, <2>5, <2>6
<1> QED  BY <1>2, <1>3, <1>4 DEF Decide

LEMMA BaseBegin ==
  ASSUME BaseInv, NEW m \in inbox, Begin(m)
  PROVE  BaseInv'
<1>1. TypeInv'
  BY BeginFacts DEF BaseInv, TypeInv, Begun
<1>2. ColumnsInv'
  BY BeginFacts DEF BaseInv, ColumnsInv, Columns, Begun
<1>3. Sighted' => Sighted
  BY TroublesGrow DEF LifecycleNext, Sighted
<1>4. ApartInv'
  BY <1>3, BeginFacts DEF BaseInv, ApartInv, Same, Begun, Amends, Extends, Starts, Fresh, Sighted
<1> QED  BY <1>1, <1>2, <1>4 DEF BaseInv

LEMMA StartSweepFacts ==
  ASSUME BaseInv, StartSweep
  PROVE  /\ DOMAIN sweep = {} /\ DOMAIN sweep' \subseteq DOMAIN rows
         /\ \A i \in DOMAIN sweep' : ~IsClosed(rows[i]) /\ sweep'[i] = TimedOut(rows[i])
         /\ sweep' \in [DOMAIN sweep' -> Row]
         /\ applying # {} /\ DOMAIN sweep' # {} => "overlap" \in troubles'
         /\ UNCHANGED <<store, clock, inbox, applying, delivered, handled, crashes>>
<1>1. PICK seen \in SUBSET Stale :
        /\ DOMAIN sweep = {} /\ sweep' = [i \in seen |-> TimedOut(rows[i])]
        /\ troubles' = troubles \cup Meeting(applying, sweep')
        /\ UNCHANGED <<store, clock, inbox, applying, delivered, handled, crashes>>
  BY DEF StartSweep
<1>2. seen \subseteq DOMAIN rows /\ \A i \in seen : ~IsClosed(rows[i])
  BY DEF Stale
<1>3. \A i \in DOMAIN rows : TimedOut(rows[i]) \in Row
  BY TimedOutRow DEF BaseInv, TypeInv
<1>4. applying # {} /\ DOMAIN sweep' # {} => "overlap" \in troubles'
  BY <1>1 DEF Meeting
<1> QED  BY <1>1, <1>2, <1>3, <1>4

LEMMA BaseStep == BaseInv /\ [LifecycleNext]_lvars => BaseInv'
<1> SUFFICES ASSUME BaseInv, [LifecycleNext]_lvars PROVE BaseInv'
  OBVIOUS
<1> USE DEF BaseInv
<1>1. CASE \E e \in Events : Arrive(e)
  <2>1. PICK e \in Events : Arrive(e)
    BY <1>1
  <2>2. TypeInv'
    BY <2>1 DEF Arrive, TypeInv, store
  <2>3. ColumnsInv' /\ ApartInv'
    BY <2>1 DEF Arrive, ColumnsInv, ApartInv, store, Columns, Same, Sighted
  <2> QED  BY <2>2, <2>3
<1>2. CASE \E m \in inbox : Begin(m)
  BY <1>2, BaseBegin
<1>3. CASE Write
  BY <1>3, BaseWrite
<1>4. CASE Bind
  <2>1. PICK a \in applying :
          /\ bindings' = Put(bindings, a.event, a.id) \/ UNCHANGED bindings
          /\ UNCHANGED rows
          /\ applying' = applying \ {a}
          /\ UNCHANGED <<clock, inbox, sweep, delivered, crashes>>
    BY <1>4 DEF Bind, Refuse
  <2>2. a.event \in Events /\ a.id \in Events
    BY DEF TypeInv, Applies
  <2>3. TypeInv'
    BY <2>1, <2>2 DEF TypeInv, Put
  <2>4. Sighted' => Sighted
    BY <1>4, TroublesGrow DEF LifecycleNext, Sighted
  <2>5. ColumnsInv' /\ ApartInv'
    BY <2>1, <2>4 DEF ColumnsInv, ApartInv, Columns, Same
  <2> QED  BY <2>3, <2>5
<1>5. CASE StartSweep
  <2>1. TypeInv'
    BY <1>5, StartSweepFacts DEF TypeInv, store
  <2>2. ColumnsInv'
    <3>1. \A i \in DOMAIN sweep' : Columns(i, sweep'[i])
      <4> SUFFICES ASSUME NEW i \in DOMAIN sweep' PROVE Columns(i, sweep'[i])
        OBVIOUS
      <4>1. i \in DOMAIN rows /\ sweep'[i] = TimedOut(rows[i])
        BY <1>5, StartSweepFacts
      <4>2. rows[i] \in Row /\ Columns(i, rows[i])
        BY <4>1 DEF TypeInv, ColumnsInv
      <4> QED  BY <4>1, <4>2, TimedOutRow DEF Columns
    <3> QED  BY <1>5, <3>1, StartSweepFacts DEF ColumnsInv, store, Columns
  <2>3. ApartInv'
    <3>0. Sighted' => Sighted
      BY TroublesGrow DEF Sighted
    <3>1. UNCHANGED <<rows, applying>> /\ DOMAIN sweep' \subseteq DOMAIN rows
      BY <1>5, StartSweepFacts DEF store
    <3>2. \A a, b \in applying' : a = b
      BY <3>1 DEF ApartInv
    <3>3. ASSUME Sighted'
          PROVE  /\ \A i, j \in DOMAIN rows : i # j => ~Same(i, j)
                 /\ \A a \in applying :
                      a.id \notin DOMAIN rows => \A j \in DOMAIN rows : ~Same(a.id, j)
      BY <3>0, <3>3 DEF ApartInv
    <3> QED  BY <3>1, <3>2, <3>3 DEF ApartInv, Same
  <2> QED  BY <2>1, <2>2, <2>3
<1>6. CASE SweepOne
  BY <1>6, BaseSweepOne
<1>7. CASE Tick
  BY <1>7 DEF Tick, TypeInv, ColumnsInv, ApartInv, store, Columns, Same, Sighted
<1>8. CASE CrashDaemon
  BY <1>8 DEF CrashDaemon, TypeInv, ColumnsInv, ApartInv, store, Columns, Same, Sighted
<1>9. CASE UNCHANGED lvars
  BY <1>9 DEF lvars, TypeInv, ColumnsInv, ApartInv, store, Columns, Same, Sighted
<1> QED  BY <1>1, <1>2, <1>3, <1>4, <1>5, <1>6, <1>7, <1>8, <1>9 DEF LifecycleNext

LEMMA BaseInvariant == LifecycleSpec => []BaseInv
  BY BaseInitially, BaseStep, PTL DEF LifecycleSpec

(* Two rows with a unique column in common (sqlite_store.rs:36-60), but    *)
(* for the tenant.                                                         *)
Share(row, other) ==
  \/ row.resource # None /\ row.resource = other.resource
  \/ row.key # None /\ row.key = other.key

(* Until an apply whose lookups failed begins a lifecycle anew, no two     *)
(* rows share a column, and neither do a row and what an apply or a sweep  *)
(* is about to write for another.                                          *)
LifecyclesApart ==
  "miss" \notin troubles =>
    \A j \in DOMAIN rows :
      /\ \A i \in DOMAIN rows : i # j => ~Share(rows[i], rows[j])
      /\ \A a \in applying : a.id # j => ~Share(a.row, rows[j])
      /\ \A i \in DOMAIN sweep : i # j => ~Share(sweep[i], rows[j])

(* Lifecycles stay apart, whatever writes fail, whatever reads fail        *)
(* without an apply taking its event for a new lifecycle, and whatever a   *)
(* sweep does meanwhile (engine.rs correlate, sqlite_store.rs:24-62).      *)
THEOREM LifecyclesStayApart == LifecycleSpec => []LifecyclesApart
<1>1. BaseInv => LifecyclesApart
  <2> SUFFICES ASSUME BaseInv, Sighted, NEW j \in DOMAIN rows
               PROVE  /\ \A i \in DOMAIN rows : i # j => ~Share(rows[i], rows[j])
                      /\ \A a \in applying : a.id # j => ~Share(a.row, rows[j])
                      /\ \A i \in DOMAIN sweep : i # j => ~Share(sweep[i], rows[j])
    BY DEF LifecyclesApart, Sighted
  <2> USE DEF BaseInv
  <2>1. \A i : \A row : Columns(i, row) /\ ~Same(i, j) => ~Share(row, rows[j])
    BY DEF Share, Same, Columns, ColumnsInv
  <2>2. \A i \in DOMAIN rows : i # j => ~Same(i, j)
    BY DEF ApartInv
  <2>3. \A a \in applying : a.id # j => ~Same(a.id, j)
    BY <2>2 DEF ApartInv
  <2>4. \A i \in DOMAIN sweep : i # j => ~Same(i, j)
    BY <2>2 DEF ApartInv
  <2> QED  BY <2>1, <2>2, <2>3, <2>4 DEF ColumnsInv
<1> QED  BY <1>1, BaseInvariant, PTL

(* Hence until then the replacing upsert (sqlite_store.rs:177) deletes no  *)
(* lifecycle, not even between a lookup and a write of another task.       *)
THEOREM RowsStay == LifecycleSpec => NoRowVanishes
<1>1. BaseInv /\ [LifecycleNext]_lvars => [Sighted => DOMAIN rows \subseteq DOMAIN rows']_lvars
  <2> SUFFICES ASSUME BaseInv, Sighted, LifecycleNext PROVE DOMAIN rows \subseteq DOMAIN rows'
    BY DEF lvars, store
  <2>1. CASE Write
    <3>1. PICK a \in applying : TryUpsert(a.id, a.row)
      BY <2>1 DEF Write
    <3> QED  BY <3>1, WriteKeeps DEF Wrote, Stored, Refuse
  <2>2. CASE SweepOne
    <3>1. PICK i \in DOMAIN sweep : TryUpsert(i, sweep[i])
      BY <2>2 DEF SweepOne
    <3> QED  BY <3>1, SweepKeeps DEF Wrote, Stored, Refuse
  <2>3. CASE ~(Write \/ SweepOne)
    BY <2>3 DEF LifecycleNext, Arrive, Begin, Bind, Refuse, StartSweep, Tick, CrashDaemon, store
  <2> QED  BY <2>1, <2>2, <2>3
<1> QED  BY <1>1, BaseInvariant, PTL DEF LifecycleSpec, NoRowVanishes, Sighted

-----------------------------------------------------------------------------
(* What Write and SweepOne do, for the invariants on top of BaseInv.       *)
RowPut(id, row) ==
  /\ DOMAIN rows' = DOMAIN rows \cup {id}
  /\ rows'[id] = row /\ \A i \in DOMAIN rows : i # id => rows'[i] = rows[i]

WriteDone(a) ==
  /\ a \in applying /\ applying = {a} /\ a \in Applies /\ ~a.bind
  /\ applying' \in {{}, {[a EXCEPT !.bind = TRUE]}}
  /\ a.late <=> applying' = {}
  /\ \A b \in applying' :
       b.bind /\ b.late = a.late /\ b.event = a.event /\ b.id = a.id /\ b.row = a.row
  /\ handled' = handled \cup IF a.late THEN {a.event} ELSE {}
  /\ (Wrote(a.id, a.row) /\ RowPut(a.id, a.row)) \/ Refuse
  /\ UNCHANGED <<clock, inbox, sweep, delivered, crashes>>

LEMMA WriteFacts ==
  ASSUME BaseInv, Sighted, Write
  PROVE  \E a \in applying : WriteDone(a)
<1>1. PICK a \in applying :
        /\ ~a.bind /\ TryUpsert(a.id, a.row)
        /\ applying' = (applying \ {a}) \cup IF a.late THEN {} ELSE {[a EXCEPT !.bind = TRUE]}
        /\ handled' = handled \cup IF a.late THEN {a.event} ELSE {}
        /\ UNCHANGED <<clock, inbox, sweep, delivered, crashes>>
  BY DEF Write
<1>2. applying = {a} /\ a \in Applies
  BY DEF BaseInv, ApartInv, TypeInv
<1>3. applying' = IF a.late THEN {} ELSE {[a EXCEPT !.bind = TRUE]}
  BY <1>1, <1>2
<1>4. \A b \in {[a EXCEPT !.bind = TRUE]} :
        b.bind /\ b.late = a.late /\ b.event = a.event /\ b.id = a.id /\ b.row = a.row
  BY <1>2 DEF Applies
<1>5. (Wrote(a.id, a.row) /\ RowPut(a.id, a.row)) \/ Refuse
  <2>1. a.id \in Events /\ a.row \in Row
    BY <1>2 DEF Applies
  <2> QED  BY <1>1, <2>1, WriteKeeps, StoreTyped DEF Wrote, RowPut, BaseInv
<1> QED  BY <1>1, <1>2, <1>3, <1>4, <1>5 DEF WriteDone

SweepDone(i) ==
  /\ i \in DOMAIN sweep /\ i \in DOMAIN rows /\ i \in Events
  /\ sweep[i] \in Row /\ rows[i] \in Row
  /\ DOMAIN sweep' = DOMAIN sweep \ {i} /\ \A j \in DOMAIN sweep' : sweep'[j] = sweep[j]
  /\ (Wrote(i, sweep[i]) /\ RowPut(i, sweep[i])) \/ Refuse
  /\ UNCHANGED <<clock, inbox, applying, delivered, handled, crashes>>

LEMMA SweepFacts ==
  ASSUME BaseInv, Sighted, SweepOne
  PROVE  \E i \in DOMAIN sweep : SweepDone(i)
<1>1. PICK i \in DOMAIN sweep :
        /\ TryUpsert(i, sweep[i])
        /\ sweep' = [j \in DOMAIN sweep \ {i} |-> sweep[j]]
        /\ UNCHANGED <<clock, inbox, applying, delivered, handled, crashes>>
  BY DEF SweepOne
<1>2. i \in Events /\ i \in DOMAIN rows /\ sweep[i] \in Row /\ rows[i] \in Row
  BY DEF BaseInv, TypeInv, ApartInv
<1>3. (Wrote(i, sweep[i]) /\ RowPut(i, sweep[i])) \/ Refuse
  BY <1>1, <1>2, SweepKeeps, StoreTyped DEF Wrote, RowPut, BaseInv
<1> QED  BY <1>1, <1>2, <1>3 DEF SweepDone

(* Until they overlap or a lookup misses, a sweep and an apply see the     *)
(* rows they write as they are: what they found open is open, what was     *)
(* closed stays so.                                                        *)
Calm == {"overlap", "miss"} \cap troubles = {}

FinalInv ==
  Calm =>
    /\ applying = {} \/ DOMAIN sweep = {}
    /\ \A a \in applying : ~a.bind /\ a.id \in DOMAIN rows =>
         IF a.late
         THEN a.row.state = rows[a.id].state /\ a.row.closure = rows[a.id].closure
         ELSE ~IsClosed(rows[a.id])
    /\ \A i \in DOMAIN sweep : ~IsClosed(rows[i])

LEMMA FinalInitially == LifecycleInit => FinalInv
  BY DEF LifecycleInit, FinalInv

LEMMA FinalStep == BaseInv /\ FinalInv /\ [LifecycleNext]_lvars => FinalInv'
<1> SUFFICES ASSUME BaseInv, FinalInv, [LifecycleNext]_lvars, Calm' PROVE FinalInv'
  BY DEF FinalInv
<1>0. Calm /\ Sighted /\ Sighted'
  BY TroublesGrow DEF Calm, Sighted
<1>1. CASE \E e \in Events : Arrive(e)
  BY <1>0, <1>1 DEF Arrive, FinalInv, store, IsClosed
<1>2. CASE \E m \in inbox : Begin(m)
  <2>1. PICK m \in inbox : Begin(m)
    BY <1>2
  <2>2. applying' = {} \/ DOMAIN sweep = {}
    BY <2>1, BeginFacts DEF Calm
  <2>3. \A a \in applying' : a.id \in DOMAIN rows =>
          IF a.late
          THEN a.row.state = rows[a.id].state /\ a.row.closure = rows[a.id].closure
          ELSE ~IsClosed(rows[a.id])
    <3> SUFFICES ASSUME NEW a \in applying', a.id \in DOMAIN rows
                 PROVE  IF a.late
                        THEN a.row.state = rows[a.id].state /\ a.row.closure = rows[a.id].closure
                        ELSE ~IsClosed(rows[a.id])
      OBVIOUS
    <3>1. m.event \in Events /\ rows[a.id] \in Row
      BY <2>1, BeginFacts DEF BaseInv, TypeInv
    <3>2. \/ Amends(a, m.event) \/ Extends(a, m.event, m.now)
          \/ Starts(a, m.event, m.now) /\ Fresh(m.event)
      BY <1>0, <2>1, BeginFacts DEF Begun
    <3>3. CASE Amends(a, m.event)
      <4>1. a.late /\ a.row = WithLate(rows[a.id], m.event)
        BY <3>3 DEF Amends
      <4>2. a.row.state = rows[a.id].state /\ a.row.closure = rows[a.id].closure
        <5>1. /\ WithLate(rows[a.id], m.event).state = rows[a.id].state
              /\ WithLate(rows[a.id], m.event).closure = rows[a.id].closure
          BY <3>1, LateRow
        <5> QED  BY <4>1, <5>1
      <4> QED  BY <4>1, <4>2
    <3>4. CASE Extends(a, m.event, m.now)
      BY <3>4 DEF Extends
    <3>5. CASE Starts(a, m.event, m.now) /\ Fresh(m.event)
      BY <3>5 DEF Starts, Fresh
    <3> QED  BY <3>2, <3>3, <3>4, <3>5
  <2> QED  BY <1>0, <2>1, <2>2, <2>3, BeginFacts DEF FinalInv, IsClosed
<1>3. CASE Write
  <2>1. PICK a \in applying : WriteDone(a)
    BY <1>0, <1>3, WriteFacts
  <2>3. DOMAIN sweep' = {} /\ \A b \in applying' : b.bind
    BY <1>0, <2>1 DEF WriteDone, FinalInv
  <2> QED  BY <2>3 DEF FinalInv
<1>4. CASE Bind
  <2>1. UNCHANGED <<rows, sweep>> /\ applying' \subseteq applying
    BY <1>4 DEF Bind, Refuse
  <2> QED  BY <1>0, <2>1 DEF FinalInv, IsClosed
<1>5. CASE StartSweep
  <2>1. applying = {} \/ DOMAIN sweep' = {}
    BY <1>5, StartSweepFacts DEF Calm
  <2> QED  BY <1>0, <1>5, <2>1, StartSweepFacts DEF FinalInv, store, IsClosed
<1>6. CASE SweepOne
  <2>1. PICK i \in DOMAIN sweep : SweepDone(i)
    BY <1>0, <1>6, SweepFacts
  <2>3. applying' = {}
    BY <1>0, <2>1 DEF SweepDone, FinalInv
  <2>4. \A j \in DOMAIN sweep' : ~IsClosed(rows'[j])
    BY <1>0, <2>1 DEF SweepDone, FinalInv, RowPut, Refuse, IsClosed, BaseInv, ApartInv
  <2> QED  BY <2>3, <2>4 DEF FinalInv
<1>7. CASE Tick
  BY <1>0, <1>7 DEF Tick, FinalInv, store, IsClosed
<1>8. CASE CrashDaemon
  BY <1>8 DEF CrashDaemon, FinalInv
<1>9. CASE UNCHANGED lvars
  BY <1>0, <1>9 DEF lvars, FinalInv, store, IsClosed
<1> QED  BY <1>1, <1>2, <1>3, <1>4, <1>5, <1>6, <1>7, <1>8, <1>9 DEF LifecycleNext

LEMMA FinalInvariant == LifecycleSpec => []FinalInv
  BY FinalInitially, FinalStep, BaseInvariant, PTL DEF LifecycleSpec

(* As long as no sweep overlaps an apply and no lookup misses, a closed    *)
(* lifecycle stays as it was closed, whatever arrives and whatever else    *)
(* SQLite refuses or fails to read (engine.rs:55, scanner.rs:19).          *)
THEOREM ClosedLifecyclesAreFinal == LifecycleSpec => ClosedIsFinal
<1> DEFINE Final ==
      \A i \in DOMAIN rows : IsClosed(rows[i]) /\ {"overlap", "miss"} \cap troubles = {} =>
        /\ i \in DOMAIN rows'
        /\ rows'[i].state = rows[i].state /\ rows'[i].closure = rows[i].closure
<1>1. BaseInv /\ FinalInv /\ [LifecycleNext]_lvars => [Final]_lvars
  <2> SUFFICES ASSUME BaseInv, FinalInv, LifecycleNext, Calm PROVE Final
    BY DEF lvars, store, Calm
  <2>0. Sighted
    BY DEF Calm, Sighted
  <2>1. CASE Write
    <3>1. PICK a \in applying : WriteDone(a)
      BY <2>0, <2>1, WriteFacts
    <3> QED  BY <3>1 DEF WriteDone, RowPut, Refuse, FinalInv
  <2>2. CASE SweepOne
    <3>1. PICK i \in DOMAIN sweep : SweepDone(i)
      BY <2>0, <2>2, SweepFacts
    <3> QED  BY <3>1 DEF SweepDone, RowPut, Refuse, FinalInv
  <2>3. CASE ~(Write \/ SweepOne)
    <3>1. UNCHANGED rows
      BY <2>3 DEF LifecycleNext, Arrive, Begin, Bind, Refuse, StartSweep, Tick, CrashDaemon, store
    <3> QED  BY <3>1
  <2> QED  BY <2>1, <2>2, <2>3
<1> QED  BY <1>1, BaseInvariant, FinalInvariant, PTL DEF LifecycleSpec, ClosedIsFinal

-----------------------------------------------------------------------------
(* No event of the old row is missing in the new one. *)
Grows(old, new) == \A e : InRow(e, old) => InRow(e, new)

LEMMA RowsGrow ==
  ASSUME NEW e \in Events, NEW now \in Nat, NEW row \in Row
  PROVE  /\ Grows(row, Updated(row, e, now)) /\ InRow(e, Updated(row, e, now))
         /\ Grows(row, WithLate(row, e)) /\ InRow(e, WithLate(row, e))
         /\ Grows(row, TimedOut(row))
<1>0. row.events \in Seq(Events) /\ row.late \in Seq(LateEvent)
  BY DEF Row
<1>1. Grows(row, Updated(row, e, now)) /\ InRow(e, Updated(row, e, now))
  <2> DEFINE u == Updated(row, e, now)
  <2>1. u.events = Append(row.events, e) /\ u.late = row.late
    BY UpdatedRow
  <2> HIDE DEF u
  <2>2. /\ Len(row.events) \in Nat /\ Len(u.events) = Len(row.events) + 1
        /\ \A n \in 1..Len(row.events) : u.events[n] = row.events[n]
        /\ u.events[Len(row.events) + 1] = e
    BY <1>0, <2>1
  <2>3. InRow(e, u)
    <3>1. Len(u.events) \in 1..Len(u.events) /\ u.events[Len(u.events)] = e
      BY <2>2
    <3> QED  BY <3>1 DEF InRow
  <2>4. ASSUME NEW f, InRow(f, row) PROVE InRow(f, u)
    <3>1. \A n \in 1..Len(row.events) : n \in 1..Len(u.events)
      BY <2>2
    <3> QED  BY <2>1, <2>2, <2>4, <3>1 DEF InRow
  <2> QED  BY <2>3, <2>4 DEF Grows, u
<1>2. Grows(row, WithLate(row, e)) /\ InRow(e, WithLate(row, e))
  <2> DEFINE u == WithLate(row, e)
             x == [event |-> e, class |-> Class(row, e)]
  <2>1. u.late = Append(row.late, x) /\ u.events = row.events
    BY LateRow
  <2>2. x \in LateEvent
    BY DEF LateEvent, Class, Classes
  <2>3. /\ Len(row.late) \in Nat /\ Len(u.late) = Len(row.late) + 1
        /\ \A n \in 1..Len(row.late) : u.late[n] = row.late[n]
        /\ u.late[Len(row.late) + 1].event = e
    BY <1>0, <2>1, <2>2
  <2> HIDE DEF u, x
  <2>4. InRow(e, u)
    <3>1. Len(u.late) \in 1..Len(u.late) /\ u.late[Len(u.late)].event = e
      BY <2>3
    <3> QED  BY <3>1 DEF InRow
  <2>5. ASSUME NEW f, InRow(f, row) PROVE InRow(f, u)
    <3>1. \A n \in 1..Len(row.late) : n \in 1..Len(u.late)
      BY <2>3
    <3> QED  BY <2>1, <2>3, <2>5, <3>1 DEF InRow
  <2> QED  BY <2>4, <2>5 DEF Grows, u
<1>3. Grows(row, TimedOut(row))
  BY TimedOutRow DEF Grows, InRow
<1> QED  BY <1>1, <1>2, <1>3

(* Without trouble, whoever is about to write a row writes one that holds  *)
(* all its events, and what was handled or bound is in its row.            *)
KeptInv ==
  troubles = {} =>
    /\ EventsAreKept
    /\ \A e \in DOMAIN bindings : bindings[e] \in DOMAIN rows /\ InRow(e, rows[bindings[e]])
    /\ \A a \in applying :
         /\ InRow(a.event, a.row)
         /\ a.bind => a.id \in DOMAIN rows /\ InRow(a.event, rows[a.id])
         /\ ~a.bind /\ a.id \in DOMAIN rows => Grows(rows[a.id], a.row)
    /\ \A i \in DOMAIN sweep : Grows(rows[i], sweep[i])

LEMMA KeptInitially == LifecycleInit => KeptInv
  BY DEF LifecycleInit, KeptInv, EventsAreKept

(* A row grows in the table: what was in some row still is, and so it is   *)
(* with the bindings.                                                      *)
LEMMA KeptWritten ==
  ASSUME TypeInv, NEW id \in Events, NEW row \in Row, Wrote(id, row), RowPut(id, row),
         id \in DOMAIN rows => Grows(rows[id], row)
  PROVE  /\ \A i \in DOMAIN rows : Grows(rows[i], rows'[i])
         /\ EventsAreKept => \A e \in handled : \E i \in DOMAIN rows' : InRow(e, rows'[i])
         /\ (\A e \in DOMAIN bindings :
               bindings[e] \in DOMAIN rows /\ InRow(e, rows[bindings[e]]))
            => \A e \in DOMAIN bindings' :
                 bindings'[e] \in DOMAIN rows' /\ InRow(e, rows'[bindings'[e]])
<1>1. \A i \in DOMAIN rows : i \in DOMAIN rows' /\ Grows(rows[i], rows'[i])
  BY DEF RowPut, Grows
<1>2. EventsAreKept => \A e \in handled : \E i \in DOMAIN rows' : InRow(e, rows'[i])
  BY <1>1 DEF EventsAreKept, Grows
<1>3. ASSUME \A e \in DOMAIN bindings :
               bindings[e] \in DOMAIN rows /\ InRow(e, rows[bindings[e]]),
             NEW e \in DOMAIN bindings'
      PROVE  bindings'[e] \in DOMAIN rows' /\ InRow(e, rows'[bindings'[e]])
  <2> DEFINE evs == {row.events[n] : n \in 1..Len(row.events)}
  <2>1. /\ DOMAIN bindings' = DOMAIN bindings \cup evs
        /\ bindings'[e] = IF e \in evs THEN id ELSE bindings[e]
    BY <1>3 DEF Wrote, Bound
  <2>2. CASE e \in evs
    <3>1. InRow(e, row)
      BY <2>2 DEF InRow
    <3> QED  BY <2>1, <2>2, <3>1 DEF RowPut
  <2>3. CASE e \notin evs
    <3> HIDE DEF evs
    <3> QED  BY <1>1, <1>3, <2>1, <2>3 DEF Grows
  <2> QED  BY <2>2, <2>3
<1> QED  BY <1>1, <1>2, <1>3

LEMMA KeptStep == BaseInv /\ FinalInv /\ KeptInv /\ [LifecycleNext]_lvars => KeptInv'
<1> SUFFICES ASSUME BaseInv, FinalInv, KeptInv, [LifecycleNext]_lvars, troubles' = {}
             PROVE  KeptInv'
  BY DEF KeptInv
<1> USE DEF BaseInv
<1>0. troubles = {} /\ Sighted /\ Sighted'
  BY TroublesGrow DEF Sighted
<1>1. /\ EventsAreKept
      /\ \A e \in DOMAIN bindings : bindings[e] \in DOMAIN rows /\ InRow(e, rows[bindings[e]])
      /\ \A a \in applying :
           /\ InRow(a.event, a.row)
           /\ a.bind => a.id \in DOMAIN rows /\ InRow(a.event, rows[a.id])
           /\ ~a.bind /\ a.id \in DOMAIN rows => Grows(rows[a.id], a.row)
      /\ \A i \in DOMAIN sweep : Grows(rows[i], sweep[i])
      /\ applying = {} \/ DOMAIN sweep = {}
  BY <1>0 DEF KeptInv, FinalInv, Calm
<1>2. CASE \E e \in Events : Arrive(e)
  BY <1>1, <1>2 DEF Arrive, KeptInv, store, EventsAreKept
<1>3. CASE \E m \in inbox : Begin(m)
  <2>1. PICK m \in inbox : Begin(m)
    BY <1>3
  <2>2. UNCHANGED <<rows, bindings, sweep, handled>>
    BY <2>1, BeginFacts
  <2>3. ASSUME NEW a \in applying'
        PROVE  ~a.bind /\ InRow(a.event, a.row) /\ (a.id \in DOMAIN rows => Grows(rows[a.id], a.row))
    <3>1. m.event \in Events /\ m.now \in Nat /\ a.event = m.event /\ ~a.bind
      BY <2>1, <2>3, BeginFacts DEF Begun
    <3>2. a.id \in DOMAIN rows => rows[a.id] \in Row
      BY DEF TypeInv
    <3>3. CASE Amends(a, m.event)
      BY <3>1, <3>2, <3>3, RowsGrow DEF Amends
    <3>4. CASE Extends(a, m.event, m.now)
      BY <3>1, <3>2, <3>4, RowsGrow DEF Extends
    <3>5. CASE Starts(a, m.event, m.now) /\ Fresh(m.event)
      <4>1. InRow(m.event, NewLifecycle(m.event, m.now))
        BY <3>1, NewRow, SMTT(20) DEF InRow
      <4> QED  BY <3>1, <3>5, <4>1 DEF Starts, Fresh
    <3> QED  BY <1>0, <2>1, <2>3, <3>3, <3>4, <3>5, BeginFacts DEF Begun
  <2> QED  BY <1>1, <2>2, <2>3 DEF KeptInv, EventsAreKept
<1>4. CASE Write
  <2>1. PICK a \in applying : WriteDone(a)
    BY <1>0, <1>4, WriteFacts
  <2>2. /\ Wrote(a.id, a.row) /\ RowPut(a.id, a.row)
        /\ a.id \in Events /\ a.row \in Row /\ ~a.bind /\ DOMAIN sweep' = {}
        /\ \A b \in applying' : b.bind /\ b.event = a.event /\ b.id = a.id /\ b.row = a.row
        /\ handled' \subseteq handled \cup {a.event}
    BY <1>1, <2>1 DEF WriteDone, Refuse, Applies
  <2>3. /\ InRow(a.event, a.row) /\ a.id \in DOMAIN rows => Grows(rows[a.id], a.row)
        /\ a.id \in DOMAIN rows' /\ rows'[a.id] = a.row
    BY <1>1, <2>2 DEF RowPut
  <2>4. /\ \A e \in handled : \E i \in DOMAIN rows' : InRow(e, rows'[i])
        /\ \A e \in DOMAIN bindings' :
             bindings'[e] \in DOMAIN rows' /\ InRow(e, rows'[bindings'[e]])
    BY <1>1, <2>2, KeptWritten
  <2>5. InRow(a.event, rows'[a.id])
    BY <1>1, <2>3
  <2>6. EventsAreKept'
    BY <2>2, <2>3, <2>4, <2>5 DEF EventsAreKept
  <2> QED  BY <2>2, <2>3, <2>4, <2>5, <2>6 DEF KeptInv
<1>5. CASE Bind
  <2>1. PICK a \in applying :
          /\ a.bind /\ UNCHANGED <<rows, sweep>> /\ applying' = applying \ {a}
          /\ bindings' = Put(bindings, a.event, a.id) /\ handled' = handled \cup {a.event}
    BY <1>5 DEF Bind, Refuse
  <2>2. a.id \in DOMAIN rows /\ InRow(a.event, rows[a.id])
    BY <1>1, <2>1
  <2> QED  BY <1>1, <2>1, <2>2 DEF KeptInv, EventsAreKept, Put
<1>6. CASE StartSweep
  <2>1. /\ UNCHANGED <<rows, bindings, applying, handled>>
        /\ \A i \in DOMAIN sweep' : i \in DOMAIN rows /\ sweep'[i] = TimedOut(rows[i])
    BY <1>6, StartSweepFacts DEF store
  <2>2. \A i \in DOMAIN sweep' : Grows(rows[i], sweep'[i])
    BY <2>1, RowsGrow DEF TypeInv
  <2> QED  BY <1>1, <2>1, <2>2 DEF KeptInv, EventsAreKept
<1>7. CASE SweepOne
  <2>1. PICK i \in DOMAIN sweep : SweepDone(i)
    BY <1>0, <1>7, SweepFacts
  <2>2. /\ Wrote(i, sweep[i]) /\ RowPut(i, sweep[i]) /\ i \in Events /\ sweep[i] \in Row
        /\ applying' = {} /\ UNCHANGED handled
        /\ \A j \in DOMAIN sweep' : j \in DOMAIN sweep /\ j # i /\ sweep'[j] = sweep[j]
    BY <1>1, <2>1 DEF SweepDone, Refuse
  <2>3. /\ \A e \in handled : \E j \in DOMAIN rows' : InRow(e, rows'[j])
        /\ \A e \in DOMAIN bindings' :
             bindings'[e] \in DOMAIN rows' /\ InRow(e, rows'[bindings'[e]])
    BY <1>1, <2>2, KeptWritten
  <2>4. \A j \in DOMAIN sweep' : Grows(rows'[j], sweep'[j])
    BY <1>0, <1>1, <2>2 DEF RowPut, ApartInv
  <2> QED  BY <2>2, <2>3, <2>4 DEF KeptInv, EventsAreKept
<1>8. CASE Tick
  BY <1>1, <1>8 DEF Tick, KeptInv, store, EventsAreKept
<1>9. CASE CrashDaemon
  BY <1>1, <1>9 DEF CrashDaemon, KeptInv, store, EventsAreKept
<1>10. CASE UNCHANGED lvars
  BY <1>1, <1>10 DEF lvars, KeptInv, store, EventsAreKept
<1> QED
  BY <1>2, <1>3, <1>4, <1>5, <1>6, <1>7, <1>8, <1>9, <1>10 DEF LifecycleNext

LEMMA KeptInvariant == LifecycleSpec => []KeptInv
  BY KeptInitially, KeptStep, BaseInvariant, FinalInvariant, PTL DEF LifecycleSpec

(* Until a sweep overlaps an apply, SQLite refuses a write or a lookup     *)
(* misses, an event an apply returned a lifecycle for is in a row          *)
(* (engine.rs:11-17).                                                      *)
THEOREM HandledEventsAreKept == LifecycleSpec => []KeptUntilTrouble
<1>1. KeptInv => KeptUntilTrouble
  BY DEF KeptInv, KeptUntilTrouble
<1> QED  BY <1>1, KeptInvariant, PTL

(* Until then a binding leads to the row that holds the event              *)
(* (engine.rs:72, 97, sqlite_store.rs:216-221).                            *)
THEOREM BindingsLeadToTheirRow == LifecycleSpec => []BoundUntilTrouble
<1>1. KeptInv => BoundUntilTrouble
  BY DEF KeptInv, BoundUntilTrouble
<1> QED  BY <1>1, KeptInvariant, PTL

-----------------------------------------------------------------------------
(* The maps of the in-memory store find what the tables find.              *)
Indexed ==
  \A k : Found(memory.resource, k) = ByResource(k) /\ Found(memory.key, k) = ByKey(k)

Following == {"refusal", "miss"} \cap troubles = {}

AgreeInv ==
  Following =>
    /\ memory = [lifecycles |-> rows, resource |-> memory.resource, key |-> memory.key,
                 event |-> bindings]
    /\ Indexed

LEMMA AgreeInitially == LifecycleInit => AgreeInv
  BY DEF LifecycleInit, AgreeInv, Indexed, EmptyMemory, Found, ByResource, ByKey

(* A row that is written takes its columns over from no other: it had them *)
(* before, or nothing did.                                                 *)
LEMMA AgreeWritten ==
  ASSUME ColumnsInv, Following, AgreeInv, NEW id, NEW row,
         Columns(id, row), \A j \in DOMAIN rows : j # id => ~Same(id, j),
         Wrote(id, row), RowPut(id, row)
  PROVE  AgreeInv'
<1>1. memory' = Remember(id, row)
  BY DEF Wrote, Follow, Following
<1>2. /\ memory'.lifecycles = rows' /\ memory'.event = bindings'
      /\ memory'.resource = PutIfAny(memory.resource, Resource[id], id)
      /\ memory'.key = PutIfAny(memory.key, KeyOf(id), id)
      /\ memory' = [lifecycles |-> memory'.lifecycles, resource |-> memory'.resource,
                    key |-> memory'.key, event |-> memory'.event]
  BY <1>1 DEF Remember, Wrote, Stored, Bound, Put, AgreeInv, Columns
<1>3. \A j \in DOMAIN rows : rows[j].resource = Resource[j] /\ rows[j].key = KeyOf(j)
  BY DEF ColumnsInv, Columns
<1>4. /\ DOMAIN rows' = DOMAIN rows \cup {id}
      /\ \A j \in DOMAIN rows' : rows'[j].resource = Resource[j] /\ rows'[j].key = KeyOf(j)
  BY <1>3 DEF RowPut, Columns
<1>5. \A j \in DOMAIN rows \ {id} :
        /\ Resource[id] # None => Resource[j] # Resource[id]
        /\ KeyOf(id) # None => KeyOf(j) # KeyOf(id)
  BY DEF Same
<1>6. ASSUME NEW k PROVE Found(memory'.resource, k) = ByResource(k)'
  <2>1. Found(memory.resource, k) = {j \in DOMAIN rows : k # None /\ Resource[j] = k}
    BY <1>3 DEF AgreeInv, Indexed, ByResource
  <2>2. ByResource(k)' = {j \in DOMAIN rows' : k # None /\ Resource[j] = k}
    BY <1>4 DEF ByResource
  <2>3. CASE Resource[id] # None /\ k = Resource[id]
    <3>1. Found(memory'.resource, k) = {id}
      BY <1>2, <2>3 DEF Found, PutIfAny, Put
    <3> QED  BY <1>4, <1>5, <2>2, <2>3, <3>1
  <2>4. CASE ~(Resource[id] # None /\ k = Resource[id])
    <3>1. Found(memory'.resource, k) = Found(memory.resource, k)
      BY <1>2, <2>4 DEF Found, PutIfAny, Put
    <3> QED  BY <1>4, <2>1, <2>2, <2>4, <3>1
  <2> QED  BY <2>3, <2>4
<1>7. ASSUME NEW k PROVE Found(memory'.key, k) = ByKey(k)'
  <2>1. Found(memory.key, k) = {j \in DOMAIN rows : k # None /\ KeyOf(j) = k}
    BY <1>3 DEF AgreeInv, Indexed, ByKey
  <2>2. ByKey(k)' = {j \in DOMAIN rows' : k # None /\ KeyOf(j) = k}
    BY <1>4 DEF ByKey
  <2>3. CASE KeyOf(id) # None /\ k = KeyOf(id)
    <3>1. Found(memory'.key, k) = {id}
      BY <1>2, <2>3 DEF Found, PutIfAny, Put
    <3> QED  BY <1>4, <1>5, <2>2, <2>3, <3>1
  <2>4. CASE ~(KeyOf(id) # None /\ k = KeyOf(id))
    <3>1. Found(memory'.key, k) = Found(memory.key, k)
      BY <1>2, <2>4 DEF Found, PutIfAny, Put
    <3> QED  BY <1>4, <2>1, <2>2, <2>4, <3>1
  <2> QED  BY <2>3, <2>4
<1> QED  BY <1>2, <1>6, <1>7 DEF AgreeInv, Indexed

LEMMA AgreeSame ==
  ASSUME AgreeInv, UNCHANGED store, Following' => Following
  PROVE  AgreeInv'
<1>1. UNCHANGED <<rows, bindings, memory>>
  BY DEF store
<1>2. \A k : ByResource(k)' = ByResource(k) /\ ByKey(k)' = ByKey(k)
  BY <1>1 DEF ByResource, ByKey
<1> QED  BY <1>1, <1>2 DEF AgreeInv, Indexed

LEMMA AgreeStep == BaseInv /\ AgreeInv /\ [LifecycleNext]_lvars => AgreeInv'
<1> SUFFICES ASSUME BaseInv, AgreeInv, [LifecycleNext]_lvars, Following' PROVE AgreeInv'
  BY DEF AgreeInv
<1>0. Following /\ Sighted
  BY TroublesGrow DEF Following, Sighted
<1>1. CASE Write
  <2>1. PICK a \in applying : WriteDone(a)
    BY <1>0, <1>1, WriteFacts
  <2>2. Columns(a.id, a.row) /\ \A j \in DOMAIN rows : j # a.id => ~Same(a.id, j)
    BY <1>0 DEF BaseInv, ColumnsInv, ApartInv
  <2>3. Wrote(a.id, a.row) /\ RowPut(a.id, a.row)
    BY <2>1 DEF WriteDone, Refuse, Following
  <2> QED  BY <1>0, <2>2, <2>3, AgreeWritten DEF BaseInv
<1>2. CASE SweepOne
  <2>1. PICK i \in DOMAIN sweep : SweepDone(i)
    BY <1>0, <1>2, SweepFacts
  <2>2. Columns(i, sweep[i]) /\ \A j \in DOMAIN rows : j # i => ~Same(i, j)
    BY <1>0, <2>1 DEF BaseInv, ColumnsInv, ApartInv, SweepDone
  <2>3. Wrote(i, sweep[i]) /\ RowPut(i, sweep[i])
    BY <2>1 DEF SweepDone, Refuse, Following
  <2> QED  BY <1>0, <2>2, <2>3, AgreeWritten DEF BaseInv
<1>3. CASE Bind
  <2>1. PICK a \in applying :
          /\ bindings' = Put(bindings, a.event, a.id) /\ UNCHANGED rows
          /\ Follow([memory EXCEPT !.event = Put(@, a.event, a.id)])
    BY <1>3 DEF Bind, Refuse, Following
  <2>2. memory = [lifecycles |-> rows, resource |-> memory.resource, key |-> memory.key,
                  event |-> bindings]
    BY <1>0 DEF AgreeInv
  <2>3. memory' = [memory EXCEPT !.event = Put(@, a.event, a.id)]
    BY <1>0, <2>1 DEF Follow, Following
  <2>4. memory' = [lifecycles |-> rows', resource |-> memory.resource, key |-> memory.key,
                   event |-> bindings']
    BY <2>1, <2>2, <2>3
  <2>5. \A k : ByResource(k)' = ByResource(k) /\ ByKey(k)' = ByKey(k)
    BY <2>1 DEF ByResource, ByKey
  <2> QED  BY <1>0, <2>4, <2>5 DEF AgreeInv, Indexed
<1>4. CASE \E m \in inbox : Begin(m)
  <2>1. PICK m \in inbox : Begin(m)
    BY <1>4
  <2>2. UNCHANGED store
    BY <2>1, BeginFacts DEF store, Following
  <2> QED  BY <1>0, <2>2, AgreeSame
<1>5. CASE ~(Write \/ SweepOne \/ Bind \/ \E m \in inbox : Begin(m))
  <2>1. UNCHANGED store
    BY <1>5 DEF LifecycleNext, Arrive, StartSweep, Tick, CrashDaemon, lvars
  <2> QED  BY <1>0, <2>1, AgreeSame
<1> QED  BY <1>1, <1>2, <1>3, <1>4, <1>5

(* The in-memory store and the SQLite store, given the same calls, answer  *)
(* alike for ever, or until SQLite refuses a write or a lookup misses      *)
(* (store.rs:3-5).                                                         *)
THEOREM TheStoresAgree == LifecycleSpec => []StoresAgree
<1>1. AgreeInv => StoresAgree
  <2> SUFFICES ASSUME AgreeInv, Following
               PROVE  /\ memory.lifecycles = rows
                      /\ \A e \in Events :
                           /\ Found(memory.event, e) = ByEvent(e)
                           /\ Found(memory.resource, Resource[e]) = ByResource(Resource[e])
                           /\ \A k \in {BusinessId[e], Operation[e]} :
                                Found(memory.key, k) = ByKey(k)
    BY DEF StoresAgree, Following
  <2>1. memory.lifecycles = rows /\ memory.event = bindings /\ Indexed
    BY DEF AgreeInv
  <2> QED  BY <2>1 DEF Indexed, Found, ByEvent
<1> QED  BY <1>1, AgreeInitially, AgreeStep, BaseInvariant, PTL DEF LifecycleSpec
=============================================================================
