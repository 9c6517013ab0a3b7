-------------------------- MODULE DetectionProofs ---------------------------
(***************************************************************************)
(* Proofs about Detection, for any number of connections, any events and   *)
(* any bounds of the trackers.                                             *)
(*                                                                         *)
(* First the known resources: one is reported as new once, and once more   *)
(* for each connection that looked while another was about to report it.   *)
(* evaluate asks under the read lock of `seen` whether a resource is known *)
(* and inserts it under the write lock, without looking at what insert     *)
(* returns (signal.rs:213-224).  The argument counts the connections       *)
(* between the two locks: each is a report to come, and the first of them  *)
(* is the one that raced nobody.                                           *)
(*                                                                         *)
(* Then the trackers: their lru is the set of their subjects in some       *)
(* order, so that there is always one to evict.  Last their windows: the   *)
(* instants in a queue need not be in order, since two connections may     *)
(* read the clock in one order and take the lock in the other; each is     *)
(* older than one in front of it by no more than that delay, and only      *)
(* what has left the window of the latest is missing.                      *)
(***************************************************************************)
EXTENDS Detection, FiniteSetTheorems, SequenceTheorems, WellFoundedInduction, TLAPS

Steps == {"insert", "now", "velocity", "credstuff", "targets"}

Evaluations == [at : Steps, event : Events, now : Nat]

(* What is between its locks, and what has been counted. *)
EvaluateInv ==
  /\ clock \in Nat
  /\ conn \in [Connections -> {Idle} \cup Evaluations]
  /\ \A c \in Connections : Working(c, "insert") => conn[c].event.resource # None
  /\ known \in SUBSET Resources
  /\ sightings \in [Resources -> Nat] /\ races \in [Resources -> Nat]

(* The connections about to report r. *)
Reporting(r) ==
  {c \in Connections : Working(c, "insert") /\ Key(conn[c].event) = r}

RaceInv ==
  \A r \in Resources :
    /\ sightings[r] + Cardinality(Reporting(r)) <= 1 + races[r]
    /\ r \in known <=> sightings[r] > 0

SightInv == EvaluateInv /\ RaceInv

-----------------------------------------------------------------------------
LEMMA ReportingIsFinite ==
  ASSUME NEW r
  PROVE  IsFiniteSet(Reporting(r)) /\ Cardinality(Reporting(r)) \in Nat
<1>1. Reporting(r) \in SUBSET Connections
  BY DEF Reporting
<1>2. IsFiniteSet(Reporting(r))
  BY <1>1, FiniteConnections, FS_Subset
<1> QED  BY <1>2, FS_CardinalityType

LEMMA WorkingIsEvaluating ==
  ASSUME EvaluateInv, NEW c \in Connections, conn[c].at # "idle"
  PROVE  conn[c] \in Evaluations
BY DEF EvaluateInv, Idle

(* A connection that goes on from any step but "insert" to another one     *)
(* leaves the counts as they are.                                          *)
LEMMA GoingOnKeeps ==
  ASSUME SightInv, NEW c \in Connections,
         conn' \in [Connections -> {Idle} \cup Evaluations],
         \A d \in Connections \ {c} : conn'[d] = conn[d],
         conn[c].at # "insert", conn'[c].at # "insert",
         clock' \in Nat, UNCHANGED <<known, sightings, races>>
  PROVE  SightInv'
<1>1. \A d \in Connections : Working(d, "insert")' =>
        d # c /\ conn'[d] = conn[d] /\ Working(d, "insert")
  BY DEF Working
<1>2. EvaluateInv'
  BY <1>1 DEF SightInv, EvaluateInv
<1>3. \A r : Reporting(r)' = Reporting(r)
  BY DEF Reporting, Working
<1>4. RaceInv'
  BY <1>3 DEF SightInv, RaceInv
<1> QED  BY <1>2, <1>4 DEF SightInv

-----------------------------------------------------------------------------
(* Begin: the resource is unknown, so it has never been reported; unless   *)
(* another connection is about to, this one's report is the first.         *)
LEMMA BeginKeeps ==
  ASSUME SightInv, NEW c \in Connections, Begin(c)
  PROVE  SightInv'
<1>1. PICK e \in Events :
        LET new == e.resource # None /\ Key(e) \notin known
            rivals == {d \in Connections : Working(d, "insert") /\ Key(conn[d].event) = Key(e)}
        IN /\ conn' = [conn EXCEPT ![c] =
                [at |-> IF new THEN "insert" ELSE "now", event |-> e, now |-> 0]]
           /\ races' = IF new /\ rivals # {}
                       THEN [races EXCEPT ![Key(e)] = @ + 1] ELSE races
  BY DEF Begin
<1>2. conn[c].at = "idle" /\ UNCHANGED <<clock, known, sightings>>
  BY DEF Begin, Working
<1> DEFINE new == e.resource # None /\ Key(e) \notin known
           k == Key(e)
<1>3. conn' = [conn EXCEPT ![c] =
        [at |-> IF new THEN "insert" ELSE "now", event |-> e, now |-> 0]]
  BY <1>1
<1>4. races' = IF new /\ Reporting(k) # {} THEN [races EXCEPT ![k] = @ + 1] ELSE races
  BY <1>1 DEF Reporting
<1>5. [at |-> IF new THEN "insert" ELSE "now", event |-> e, now |-> 0] \in Evaluations
  <2>1. (IF new THEN "insert" ELSE "now") \in Steps
    BY DEF Steps
  <2> HIDE DEF new
  <2> QED  BY <2>1 DEF Evaluations
<1>6. /\ conn' \in [Connections -> {Idle} \cup Evaluations]
      /\ conn'[c].at = (IF new THEN "insert" ELSE "now") /\ conn'[c].event = e
      /\ \A d \in Connections \ {c} : conn'[d] = conn[d]
  <2> HIDE DEF new
  <2>1. conn \in [Connections -> {Idle} \cup Evaluations]
    BY DEF SightInv, EvaluateInv
  <2> QED  BY <1>3, <1>5, <2>1
<1>7. CASE ~new
  <2>1. races' = races /\ conn'[c].at # "insert"
    BY <1>4, <1>6, <1>7
  <2>2. clock' \in Nat
    BY <1>2 DEF SightInv, EvaluateInv
  <2> HIDE DEF new
  <2> QED  BY <1>2, <1>6, <2>1, <2>2, GoingOnKeeps
<1>8. CASE new
  <2>1. k \in Resources /\ k \notin known /\ sightings[k] = 0 /\ sightings[k] \in Nat
    <3>1. k \in Resources
      BY <1>8 DEF Resources
    <3>2. sightings[k] \in Nat /\ ~(sightings[k] > 0)
      BY <1>8, <3>1 DEF SightInv, EvaluateInv, RaceInv
    <3> QED  BY <1>8, <3>1, <3>2
  <2>2. conn'[c].at = "insert" /\ conn'[c].event = e /\ e.resource # None
    BY <1>6, <1>8
  <2> HIDE DEF new, k
  <2>3. \A r : Reporting(r)' = IF r = k THEN Reporting(r) \cup {c} ELSE Reporting(r)
    BY <1>6, <2>2, <1>2 DEF Reporting, Working, k
  <2>4. /\ races' \in [Resources -> Nat]
        /\ \A r \in Resources : r # k => races'[r] = races[r]
        /\ races'[k] = IF Reporting(k) # {} THEN races[k] + 1 ELSE races[k]
    BY <1>4, <1>8, <2>1 DEF SightInv, EvaluateInv
  <2>5. EvaluateInv'
    <3>1. \A d \in Connections : Working(d, "insert")' => conn'[d].event.resource # None
      BY <1>6, <2>2 DEF SightInv, EvaluateInv, Working
    <3> QED  BY <3>1, <1>2, <1>6, <2>4 DEF SightInv, EvaluateInv
  <2>6. ASSUME NEW r \in Resources
        PROVE  /\ sightings'[r] + Cardinality(Reporting(r)') <= 1 + races'[r]
               /\ r \in known' <=> sightings'[r] > 0
    <3>1. /\ sightings[r] + Cardinality(Reporting(r)) <= 1 + races[r]
          /\ r \in known' <=> sightings'[r] > 0
      BY <1>2 DEF SightInv, RaceInv
    <3>2. CASE r # k
      BY <1>2, <2>3, <2>4, <3>1, <3>2
    <3>3. CASE r = k
      <4>1. c \notin Reporting(k)
        BY <1>2 DEF Reporting, Working
      <4>2. Cardinality(Reporting(k) \cup {c}) = Cardinality(Reporting(k)) + 1
        BY <4>1, ReportingIsFinite, FS_AddElement
      <4>3. Reporting(k) = {} => Cardinality(Reporting(k)) = 0
        BY FS_EmptySet
      <4>4. Cardinality(Reporting(k)) \in Nat /\ races[k] \in Nat
        BY <2>1, ReportingIsFinite DEF SightInv, EvaluateInv
      <4>5. Reporting(r)' = Reporting(k) \cup {c} /\ sightings'[r] = 0
        BY <1>2, <2>1, <2>3, <3>3
      <4>6. Cardinality(Reporting(r)') = Cardinality(Reporting(k)) + 1
        BY <4>2, <4>5
      <4>7. Cardinality(Reporting(k)) <= 1 + races[k]
        <5>1. sightings[k] + Cardinality(Reporting(k)) <= 1 + races[k]
          BY <3>1, <3>3
        <5> QED  BY <2>1, <4>4, <5>1
      <4>8. races'[r] = IF Reporting(k) # {} THEN races[k] + 1 ELSE races[k]
        BY <2>4, <3>3
      <4>9. Cardinality(Reporting(k)) + 1 <= 1 + races'[r]
        BY <4>3, <4>4, <4>7, <4>8
      <4> QED  BY <3>1, <4>4, <4>5, <4>6, <4>9
    <3> QED  BY <3>2, <3>3
  <2>7. RaceInv'
    BY <2>6 DEF RaceInv
  <2> QED  BY <2>5, <2>7 DEF SightInv
<1> QED  BY <1>7, <1>8

(* Insert: the report that was to come has come. *)
LEMMA InsertKeeps ==
  ASSUME SightInv, NEW c \in Connections, Insert(c)
  PROVE  SightInv'
<1> DEFINE k == Key(conn[c].event)
<1>1. /\ conn[c].at = "insert" /\ known' = known \cup {k}
      /\ sightings' = [sightings EXCEPT ![k] = @ + 1]
      /\ conn' = [conn EXCEPT ![c].at = "now"]
      /\ UNCHANGED <<clock, races>>
  BY DEF Insert, Working, Go
<1>2. conn[c] \in Evaluations /\ conn[c].event.resource # None
  BY <1>1, WorkingIsEvaluating DEF SightInv, EvaluateInv, Working
<1>3. k \in Resources
  BY <1>2 DEF Resources, Evaluations
<1>4. /\ conn' \in [Connections -> {Idle} \cup Evaluations] /\ conn'[c].at = "now"
      /\ \A d \in Connections \ {c} : conn'[d] = conn[d]
  BY <1>1, <1>2 DEF SightInv, EvaluateInv, Evaluations, Steps
<1>5. c \in Reporting(k)
  BY <1>1 DEF Reporting, Working
<1>6. \A r : Reporting(r)' = IF r = k THEN Reporting(r) \ {c} ELSE Reporting(r)
  BY <1>4, <1>1 DEF Reporting, Working
<1> HIDE DEF k
<1>7. /\ sightings' \in [Resources -> Nat] /\ sightings'[k] = sightings[k] + 1
      /\ \A r \in Resources : r # k => sightings'[r] = sightings[r]
  BY <1>1, <1>3 DEF SightInv, EvaluateInv
<1>8. EvaluateInv'
  <2>1. \A d \in Connections : Working(d, "insert")' => conn'[d].event.resource # None
    BY <1>4 DEF SightInv, EvaluateInv, Working
  <2> QED  BY <2>1, <1>1, <1>3, <1>4, <1>7 DEF SightInv, EvaluateInv
<1>9. ASSUME NEW r \in Resources
      PROVE  /\ sightings'[r] + Cardinality(Reporting(r)') <= 1 + races'[r]
             /\ r \in known' <=> sightings'[r] > 0
  <2>1. /\ sightings[r] + Cardinality(Reporting(r)) <= 1 + races[r]
        /\ r \in known <=> sightings[r] > 0
    BY DEF SightInv, RaceInv
  <2>2. CASE r # k
    BY <1>1, <1>6, <1>7, <2>1, <2>2
  <2>3. CASE r = k
    <3>1. Cardinality(Reporting(k) \ {c}) = Cardinality(Reporting(k)) - 1
      BY <1>5, ReportingIsFinite, FS_RemoveElement
    <3>2. Cardinality(Reporting(k)) \in Nat /\ sightings[k] \in Nat /\ races[k] \in Nat
      BY <1>3, ReportingIsFinite DEF SightInv, EvaluateInv
    <3>3. Reporting(r)' = Reporting(k) \ {c} /\ races'[r] = races[k]
      BY <1>1, <1>6, <2>3
    <3> QED  BY <1>1, <1>7, <2>1, <2>3, <3>1, <3>2, <3>3
  <2> QED  BY <2>2, <2>3
<1>10. RaceInv'
  BY <1>9 DEF RaceInv
<1> QED  BY <1>8, <1>10 DEF SightInv

(* A step that only moves a connection on. *)
LEMMA GoKeeps ==
  ASSUME SightInv, NEW c \in Connections, conn[c].at \in Steps \ {"insert"},
         NEW step \in Steps \ {"insert"}, Go(c, step),
         UNCHANGED <<clock, known, sightings, races>>
  PROVE  SightInv'
<1>1. conn[c] \in Evaluations
  BY WorkingIsEvaluating DEF SightInv, Steps
<1>2. conn' = [conn EXCEPT ![c].at = step]
  BY DEF Go
<1>3. /\ conn' \in [Connections -> {Idle} \cup Evaluations] /\ conn'[c].at = step
      /\ \A d \in Connections \ {c} : conn'[d] = conn[d]
  BY <1>1, <1>2 DEF SightInv, EvaluateInv, Evaluations
<1>4. clock' \in Nat
  BY DEF SightInv, EvaluateInv
<1> QED  BY <1>3, <1>4, GoingOnKeeps

LEMMA EvaluateKeeps ==
  ASSUME SightInv, NEW c \in Connections, Evaluate(c)
  PROVE  SightInv'
<1>1. CASE Begin(c)
  BY <1>1, BeginKeeps
<1>2. CASE Insert(c)
  BY <1>2, InsertKeeps
<1>3. CASE ReadClock(c)
  <2>1. /\ conn[c].at = "now" /\ UNCHANGED <<clock, known, sightings, races>>
        /\ conn' = [conn EXCEPT ![c].at = "velocity", ![c].now = clock]
    BY <1>3 DEF ReadClock, Working
  <2>2. conn[c] \in Evaluations
    BY <2>1, WorkingIsEvaluating DEF SightInv
  <2>3. /\ conn' \in [Connections -> {Idle} \cup Evaluations] /\ conn'[c].at = "velocity"
        /\ \A d \in Connections \ {c} : conn'[d] = conn[d]
    BY <2>1, <2>2 DEF SightInv, EvaluateInv, Evaluations, Steps
  <2>4. clock' \in Nat
    BY <2>1 DEF SightInv, EvaluateInv
  <2> QED  BY <2>1, <2>3, <2>4, GoingOnKeeps
<1>4. CASE ObserveVelocity(c)
  <2>1. PICK step \in {"credstuff", "targets"} : Go(c, step)
    BY <1>4 DEF ObserveVelocity
  <2>2. conn[c].at = "velocity" /\ UNCHANGED <<clock, known, sightings, races>>
    BY <1>4 DEF ObserveVelocity, Working
  <2> QED  BY <2>1, <2>2, GoKeeps DEF Steps
<1>5. CASE ObserveFailure(c)
  <2>1. conn[c].at = "credstuff" /\ UNCHANGED <<clock, known, sightings, races>>
        /\ Go(c, "targets")
    BY <1>5 DEF ObserveFailure, Working
  <2> QED  BY <2>1, GoKeeps DEF Steps
<1>6. CASE ObserveTarget(c)
  <2>1. /\ conn[c].at = "targets" /\ UNCHANGED <<clock, known, sightings, races>>
        /\ conn' = [conn EXCEPT ![c] = Idle]
    BY <1>6 DEF ObserveTarget, Working
  <2>2. /\ conn' \in [Connections -> {Idle} \cup Evaluations] /\ conn'[c].at = "idle"
        /\ \A d \in Connections \ {c} : conn'[d] = conn[d]
    BY <2>1 DEF SightInv, EvaluateInv, Idle
  <2>3. clock' \in Nat
    BY <2>1 DEF SightInv, EvaluateInv
  <2> QED  BY <2>1, <2>2, <2>3, GoingOnKeeps
<1> QED  BY <1>1, <1>2, <1>3, <1>4, <1>5, <1>6 DEF Evaluate

-----------------------------------------------------------------------------
(* The inductive invariant: what evaluate holds between its locks, and the *)
(* reports to come counted with those made (signal.rs:206-302).            *)
THEOREM SightInvariant == DetectSpec => []SightInv
<1>1. DetectInit => SightInv
  <2> SUFFICES ASSUME DetectInit PROVE SightInv
    OBVIOUS
  <2>1. \A c \in Connections : conn[c] = Idle
    BY DEF DetectInit
  <2>2. EvaluateInv
    BY DEF DetectInit, EvaluateInv, Working, Idle
  <2>3. \A r : Reporting(r) = {}
    BY <2>1 DEF Reporting, Working, Idle
  <2>4. Cardinality({}) = 0
    BY FS_EmptySet
  <2>5. \A r \in Resources : sightings[r] = 0 /\ races[r] = 0
    BY DEF DetectInit
  <2>6. known = {}
    BY DEF DetectInit
  <2> QED  BY <2>2, <2>3, <2>4, <2>5, <2>6 DEF SightInv, RaceInv
<1>2. SightInv /\ [DetectNext]_detectvars => SightInv'
  <2> SUFFICES ASSUME SightInv, [DetectNext]_detectvars PROVE SightInv'
    OBVIOUS
  <2>1. CASE \E c \in Connections : Evaluate(c)
    BY <2>1, EvaluateKeeps
  <2>2. ASSUME UNCHANGED <<conn, known, sightings, races>>, clock' \in Nat
        PROVE  SightInv'
    <3>1. \A r : Reporting(r)' = Reporting(r)
      BY <2>2 DEF Reporting, Working
    <3>2. EvaluateInv'
      BY <2>2 DEF SightInv, EvaluateInv, Working
    <3>3. RaceInv'
      BY <2>2, <3>1 DEF SightInv, RaceInv
    <3> QED  BY <3>2, <3>3 DEF SightInv
  <2>3. CASE Pass
    BY <2>2, <2>3 DEF Pass, signalvars, SightInv, EvaluateInv
  <2>4. CASE UNCHANGED detectvars
    BY <2>2, <2>4 DEF detectvars, signalvars, SightInv, EvaluateInv
  <2> QED  BY <2>1, <2>3, <2>4 DEF DetectNext
<1> QED  BY <1>1, <1>2, PTL DEF DetectSpec

(* signal.rs:9, 213-224: for any number of connections and any events, a   *)
(* resource is reported as new once, and again only by connections that    *)
(* looked while another was about to report it; and it is known exactly    *)
(* when it has been reported.                                              *)
THEOREM NewResourcesAreReportedOnce == DetectSpec => []ReportedOnce
<1>1. SightInv => ReportedOnce
  <2> SUFFICES ASSUME SightInv, NEW r \in Resources
               PROVE  sightings[r] <= 1 + races[r] /\ (r \in known <=> sightings[r] > 0)
    BY DEF ReportedOnce
  <2>1. Cardinality(Reporting(r)) \in Nat
    BY ReportingIsFinite
  <2>2. /\ sightings[r] + Cardinality(Reporting(r)) <= 1 + races[r]
        /\ r \in known <=> sightings[r] > 0
    BY DEF SightInv, RaceInv
  <2>3. sightings[r] \in Nat /\ races[r] \in Nat
    BY DEF SightInv, EvaluateInv
  <2> QED  BY <2>1, <2>2, <2>3
<1> QED  BY <1>1, SightInvariant, PTL

-----------------------------------------------------------------------------
(* The trackers.  Without repetitions, what Retain keeps of a sequence is  *)
(* the sequence without place k, one place less from there on.             *)
NoneTwice(seq) == \A i, j \in 1..Len(seq) : seq[i] = seq[j] => i = j

LEMMA NoneIsEmpty == DOMAIN <<>> = {} /\ Len(<<>>) = 0
OBVIOUS

LEMMA CountTo ==
  ASSUME NEW n \in Nat
  PROVE  Cardinality(1..n) = n /\ IsFiniteSet(1..n)
<1>1. IsFiniteSet(1..n) /\ Cardinality(1..n) = IF 1 > n THEN 0 ELSE n - 1 + 1
  BY FS_Interval
<1> QED  BY <1>1

LEMMA RetainSkips ==
  ASSUME NEW S, NEW seq \in Seq(S), NEW x, NEW k \in 1..(Len(seq) + 1),
         \A i \in 1..Len(seq) : seq[i] = x <=> i = k
  PROVE  LET n == IF k <= Len(seq) THEN Len(seq) - 1 ELSE Len(seq)
         IN Retain(seq, x) = [i \in 1..n |-> seq[IF i < k THEN i ELSE i + 1]]
<1> DEFINE L == Len(seq)
           n == IF k <= L THEN L - 1 ELSE L
           O == (1..L) \ {k}
           rank(i) == Cardinality({j \in O : j <= i})
           at(m) == IF m < k THEN m ELSE m + 1
<1>1. L \in Nat /\ n \in Nat /\ k \in Nat
  OBVIOUS
<1>2. Others(seq, x) = O
  BY DEF Others
<1> HIDE DEF L
<1>3. Cardinality(1..L) = L /\ IsFiniteSet(1..L)
  BY <1>1, CountTo
<1>4. Cardinality(O) = n
  <2>1. Cardinality(O) = IF k \in 1..L THEN Cardinality(1..L) - 1 ELSE Cardinality(1..L)
    BY <1>3, FS_RemoveElement
  <2> QED  BY <2>1, <1>1, <1>3 DEF L
<1>5. ASSUME NEW i \in O
      PROVE  rank(i) = IF i < k THEN i ELSE i - 1
  <2>0. i \in 1..L /\ i \in Nat
    BY <1>1
  <2>1. Cardinality(1..i) = i /\ IsFiniteSet(1..i)
    BY <2>0, CountTo
  <2>2. Cardinality((1..i) \ {k}) = IF k \in 1..i THEN i - 1 ELSE i
    BY <2>1, FS_RemoveElement
  <2>3. {j \in O : j <= i} = (1..i) \ {k}
    BY <1>1, <2>0
  <2>4. rank(i) = IF k \in 1..i THEN i - 1 ELSE i
    BY <2>2, <2>3
  <2>5. i # k
    OBVIOUS
  <2> HIDE DEF rank
  <2> QED  BY <1>1, <2>0, <2>4, <2>5
<1>6. ASSUME NEW m \in 1..n
      PROVE  (CHOOSE i \in O : rank(i) = m) = at(m)
  <2>1. at(m) \in O
    BY <1>1 DEF L
  <2>2. rank(at(m)) = m
    <3>1. rank(at(m)) = IF at(m) < k THEN at(m) ELSE at(m) - 1
      BY <2>1, <1>5
    <3> HIDE DEF rank
    <3> QED  BY <1>1, <3>1
  <2>3. \A i \in O : rank(i) = m => i = at(m)
    <3> SUFFICES ASSUME NEW i \in O, rank(i) = m PROVE i = at(m)
      OBVIOUS
    <3>1. m = IF i < k THEN i ELSE i - 1
      BY <1>5
    <3> HIDE DEF rank
    <3> QED  BY <1>1, <3>1
  <2> HIDE DEF rank, at, O
  <2> QED  BY <2>1, <2>2, <2>3
<1>7. Retain(seq, x) = [m \in 1..n |-> seq[CHOOSE i \in O : rank(i) = m]]
  BY <1>2, <1>4 DEF Retain
<1> HIDE DEF rank, O
<1>8. Retain(seq, x) = [m \in 1..n |-> seq[at(m)]]
  <2>1. \A m \in 1..n : seq[CHOOSE i \in O : rank(i) = m] = seq[at(m)]
    BY <1>6
  <2> QED  BY <1>7, <2>1, Zenon
<1> QED  BY <1>8 DEF L

Listed(seq, s) == \E i \in 1..Len(seq) : seq[i] = s

LEMMA RetainListsOthers ==
  ASSUME NEW S, NEW seq \in Seq(S), NoneTwice(seq), NEW x
  PROVE  LET rest == Retain(seq, x)
         IN /\ rest \in Seq(S) /\ NoneTwice(rest)
            /\ \A s : Listed(rest, s) <=> s # x /\ Listed(seq, s)
            /\ Len(rest) = IF Listed(seq, x) THEN Len(seq) - 1 ELSE Len(seq)
<1>1. PICK k \in 1..(Len(seq) + 1) :
        /\ \A i \in 1..Len(seq) : seq[i] = x <=> i = k
        /\ Listed(seq, x) <=> k <= Len(seq)
  BY DEF NoneTwice, Listed
<1> DEFINE n == IF k <= Len(seq) THEN Len(seq) - 1 ELSE Len(seq)
           at(i) == IF i < k THEN i ELSE i + 1
           rest == [i \in 1..n |-> seq[at(i)]]
<1>2. Retain(seq, x) = rest
  BY <1>1, RetainSkips
<1>3. n \in Nat /\ k \in Nat /\ Len(seq) \in Nat
  OBVIOUS
<1>4. \A i \in 1..n : at(i) \in 1..Len(seq) /\ at(i) # k /\ seq[at(i)] \in S
  OBVIOUS
<1>5. rest \in Seq(S) /\ Len(rest) = n /\ \A i \in 1..n : rest[i] = seq[at(i)]
  <2> HIDE DEF n, at
  <2> QED  BY <1>3, <1>4
<1>6. NoneTwice(rest)
  <2> SUFFICES ASSUME NEW i \in 1..n, NEW j \in 1..n, rest[i] = rest[j] PROVE i = j
    BY <1>5 DEF NoneTwice
  <2>1. at(i) = at(j)
    <3> HIDE DEF at, rest
    <3> QED  BY <1>4, <1>5 DEF NoneTwice
  <2> QED  BY <1>3, <2>1
<1>7. ASSUME NEW s
      PROVE  Listed(rest, s) <=> s # x /\ Listed(seq, s)
  <2>1. ASSUME NEW i \in 1..n, rest[i] = s
        PROVE  s # x /\ Listed(seq, s)
    <3> HIDE DEF rest, at, n
    <3> QED  BY <1>1, <1>4, <1>5, <2>1 DEF Listed
  <2>2. ASSUME NEW j \in 1..Len(seq), seq[j] = s, s # x
        PROVE  \E i \in 1..n : rest[i] = s
    <3>1. j # k
      BY <1>1, <2>2
    <3>2. \E i \in 1..n : at(i) = j
      <4>1. CASE j < k
        BY <1>3, <3>1, <4>1
      <4>2. CASE ~(j < k)
        <5>1. j - 1 \in 1..n /\ at(j - 1) = j
          BY <1>3, <3>1, <4>2
        <5> QED  BY <5>1
      <4> QED  BY <4>1, <4>2
    <3> HIDE DEF rest, at, n
    <3> QED  BY <1>5, <2>2, <3>2
  <2> HIDE DEF rest, n
  <2> QED  BY <1>5, <2>1, <2>2 DEF Listed
<1> HIDE DEF rest
<1> QED  BY <1>1, <1>2, <1>5, <1>6, <1>7

-----------------------------------------------------------------------------
(* The bounds of SEC-18: room for one, however small they are.             *)
LEMMA LargestOfTwo ==
  ASSUME NEW n \in Nat
  PROVE  Largest({1, n}) = IF n > 1 THEN n ELSE 1
<1>1. CASE n > 1
  <2>1. \A m \in {1, n} : (\A k \in {1, n} : k <= m) <=> m = n
    BY <1>1
  <2> QED  BY <1>1, <2>1 DEF Largest
<1>2. CASE ~(n > 1)
  <2>1. \A m \in {1, n} : (\A k \in {1, n} : k <= m) <=> m = 1
    BY <1>2
  <2> QED  BY <1>2, <2>1 DEF Largest
<1> QED  BY <1>1, <1>2

(* The lru lists each tracked subject once, and no more than may be.       *)
LruInv(tracker) ==
  /\ tracker.lru \in Seq(Subjects) /\ NoneTwice(tracker.lru)
  /\ \A s : s \in Tracked(tracker) <=> Listed(tracker.lru, s)
  /\ Len(tracker.lru) <= Largest({1, MaxSubjects})

LEMMA LruListsTracked ==
  ASSUME NEW tracker, LruInv(tracker)
  PROVE  /\ ToSet(tracker.lru) = Tracked(tracker)
         /\ Len(tracker.lru) = Cardinality(Tracked(tracker))
<1> DEFINE lru == tracker.lru
<1>1. /\ Len(lru) \in Nat /\ lru \in [1..Len(lru) -> Tracked(tracker)]
      /\ \A s \in Tracked(tracker) : \E i \in 1..Len(lru) : lru[i] = s
      /\ \A i, j \in 1..Len(lru) : lru[i] = lru[j] => i = j
  BY DEF LruInv, NoneTwice, Listed
<1>2. ToSet(lru) = Tracked(tracker)
  BY <1>1 DEF ToSet
<1> HIDE DEF lru
<1>3. lru \in Bijection(1..Len(lru), Tracked(tracker))
  <2>1. lru \in Injection(1..Len(lru), Tracked(tracker))
    BY <1>1, Zenon DEF Injection, IsInjective
  <2>2. lru \in Surjection(1..Len(lru), Tracked(tracker))
    BY <1>1, Zenon DEF Surjection
  <2> QED  BY <2>1, <2>2 DEF Bijection
<1>4. Cardinality(Tracked(tracker)) = Len(lru)
  <2>1. ExistsBijection(1..Len(lru), Tracked(tracker))
    BY <1>3 DEF ExistsBijection
  <2> QED  BY <1>1, <2>1, FS_CountingElements
<1> QED  BY <1>2, <1>4 DEF lru

(* Room for a subject: what goes is the first of the lru, and the others   *)
(* keep their windows.                                                     *)
LEMMA RoomKeeps ==
  ASSUME NEW tracker, LruInv(tracker), NEW subject \in Subjects
  PROVE  LET room == Room(tracker, subject)
         IN /\ LruInv(room)
            /\ Tracked(room) = Tracked(tracker) \ Evicted(tracker, subject)
            /\ \A s \in Tracked(room) : room.windows[s] = tracker.windows[s]
            /\ subject \in Tracked(room) \/ Len(room.lru) < Largest({1, MaxSubjects})
            /\ subject \in Tracked(room) <=> subject \in Tracked(tracker)
<1> DEFINE room == Room(tracker, subject)
           gone == Evicted(tracker, subject)
           lru == tracker.lru
<1>1. /\ Tracked(room) = Tracked(tracker) \ gone
      /\ \A s \in Tracked(room) : room.windows[s] = tracker.windows[s]
      /\ room.lru = IF gone = {} THEN lru ELSE Tail(lru)
  BY DEF Room, Tracked
<1>2. /\ lru \in Seq(Subjects) /\ NoneTwice(lru) /\ Len(lru) \in Nat
      /\ \A s : s \in Tracked(tracker) <=> Listed(lru, s)
      /\ Len(lru) <= Largest({1, MaxSubjects})
      /\ Len(lru) = Cardinality(Tracked(tracker))
  <2>1. Len(lru) = Cardinality(Tracked(tracker))
    BY LruListsTracked
  <2> QED  BY <2>1 DEF LruInv
<1>3. /\ Largest({1, MaxSubjects}) = IF MaxSubjects > 1 THEN MaxSubjects ELSE 1
      /\ MaxSubjects \in Nat
  BY LargestOfTwo, TrackerConfig
<1>4. CASE gone = {}
  <2>1. LruInv(room)
    BY <1>1, <1>2, <1>4 DEF LruInv
  <2>2. subject \in Tracked(tracker) \/ Len(lru) < MaxSubjects \/ Len(lru) = 0
    <3>1. subject \in Tracked(tracker) \/ ~(Cardinality(Tracked(tracker)) >= MaxSubjects) \/ lru = <<>>
      BY <1>4, Zenon DEF Evicted
    <3>2. ~(Len(lru) >= MaxSubjects) => Len(lru) < MaxSubjects
      BY <1>2, <1>3
    <3>3. lru = <<>> => Len(lru) = 0
      BY NoneIsEmpty, Zenon
    <3> QED  BY <1>2, <3>1, <3>2, <3>3, Zenon
  <2>3. subject \in Tracked(room) \/ Len(room.lru) < Largest({1, MaxSubjects})
    BY <1>1, <1>2, <1>3, <1>4, <2>2
  <2> QED  BY <1>1, <1>4, <2>1, <2>3
<1>5. CASE gone # {}
  <2>1. gone = {Head(lru)} /\ lru # <<>> /\ subject \notin Tracked(tracker)
    BY <1>5 DEF Evicted
  <2> HIDE DEF gone
  <2>2. /\ room.lru \in Seq(Subjects) /\ Len(room.lru) = Len(lru) - 1 /\ Len(lru) > 0
        /\ \A i \in 1..Len(room.lru) : room.lru[i] = lru[i + 1]
        /\ Head(lru) = lru[1]
    <3>1. room.lru = Tail(lru)
      BY <1>1, <1>5
    <3>2. lru \in Seq(Subjects) /\ lru # <<>>
      BY <1>2, <2>1
    <3>3. Len(lru) > 0 /\ Head(lru) = lru[1]
      BY <3>2
    <3>4. /\ Tail(lru) \in Seq(Subjects) /\ Len(Tail(lru)) = Len(lru) - 1
          /\ \A i \in 1..Len(Tail(lru)) : Tail(lru)[i] = lru[i + 1]
      BY <3>2, HeadTailProperties
    <3> HIDE DEF room, lru
    <3> QED  BY <3>1, <3>3, <3>4
  <2> HIDE DEF room, lru
  <2>3. NoneTwice(room.lru)
    <3> SUFFICES ASSUME NEW i \in 1..Len(room.lru), NEW j \in 1..Len(room.lru),
                        room.lru[i] = room.lru[j]
                 PROVE  i = j
      BY DEF NoneTwice
    <3>1. i + 1 \in 1..Len(lru) /\ j + 1 \in 1..Len(lru) /\ lru[i + 1] = lru[j + 1]
      BY <1>2, <2>2
    <3>2. i + 1 = j + 1
      BY <1>2, <3>1 DEF NoneTwice
    <3> QED  BY <1>2, <2>2, <3>2
  <2>4. ASSUME NEW s
        PROVE  s \in Tracked(room) <=> Listed(room.lru, s)
    <3>1. s \in Tracked(room) <=> Listed(lru, s) /\ s # lru[1]
      BY <1>1, <1>2, <2>1, <2>2
    <3>2. ASSUME NEW i \in 1..Len(room.lru), room.lru[i] = s
          PROVE  Listed(lru, s) /\ s # lru[1]
      <4>1. i + 1 \in 1..Len(lru) /\ 1 \in 1..Len(lru) /\ i + 1 # 1 /\ lru[i + 1] = s
        BY <1>2, <2>2, <3>2
      <4>2. lru[i + 1] # lru[1]
        BY <1>2, <4>1 DEF NoneTwice
      <4> QED  BY <4>1, <4>2 DEF Listed
    <3>3. ASSUME NEW i \in 1..Len(lru), lru[i] = s, s # lru[1]
          PROVE  Listed(room.lru, s)
      <4>1. i - 1 \in 1..Len(room.lru) /\ (i - 1) + 1 = i
        BY <1>2, <2>2, <3>3
      <4>2. room.lru[i - 1] = s
        BY <2>2, <3>3, <4>1
      <4> QED  BY <4>1, <4>2 DEF Listed
    <3> QED  BY <3>1, <3>2, <3>3 DEF Listed
  <2>5. Len(room.lru) < Largest({1, MaxSubjects})
    BY <1>2, <1>3, <2>2
  <2>6. LruInv(room)
    <3>1. Len(room.lru) <= Largest({1, MaxSubjects})
      BY <1>2, <1>3, <2>2
    <3> QED  BY <2>2, <2>3, <2>4, <3>1 DEF LruInv
  <2>7. subject \notin Tracked(room)
    BY <1>1, <2>1
  <2> QED  BY <1>1, <2>1, <2>5, <2>6, <2>7 DEF room, gone
<1> QED  BY <1>4, <1>5

LEMMA BumpedKeeps ==
  ASSUME NEW room, LruInv(room), NEW subject \in Subjects, NEW window,
         subject \in Tracked(room) \/ Len(room.lru) < Largest({1, MaxSubjects})
  PROVE  LET tracker == Bumped(room, subject, window)
         IN /\ LruInv(tracker)
            /\ Tracked(tracker) = Tracked(room) \cup {subject}
<1> DEFINE tracker == Bumped(room, subject, window)
           rest == Retain(room.lru, subject)
<1>1. /\ Tracked(tracker) = Tracked(room) \cup {subject}
      /\ tracker.lru = Append(rest, subject)
  BY DEF Bumped, Tracked
<1>2. /\ rest \in Seq(Subjects) /\ NoneTwice(rest)
      /\ \A s : Listed(rest, s) <=> s # subject /\ Listed(room.lru, s)
      /\ Len(rest) = IF Listed(room.lru, subject) THEN Len(room.lru) - 1 ELSE Len(room.lru)
  BY RetainListsOthers DEF LruInv
<1> HIDE DEF rest, tracker
<1>3. /\ tracker.lru \in Seq(Subjects) /\ Len(tracker.lru) = Len(rest) + 1 /\ Len(rest) \in Nat
      /\ \A i \in 1..Len(rest) : tracker.lru[i] = rest[i]
      /\ tracker.lru[Len(rest) + 1] = subject
  BY <1>1, <1>2
<1>4. \A i \in 1..Len(rest) : rest[i] # subject
  BY <1>2 DEF Listed
<1>5. NoneTwice(tracker.lru)
  <2> SUFFICES ASSUME NEW i \in 1..Len(tracker.lru), NEW j \in 1..Len(tracker.lru),
                      tracker.lru[i] = tracker.lru[j]
               PROVE  i = j
    BY DEF NoneTwice
  <2>1. /\ i \in 1..Len(rest) \/ i = Len(rest) + 1
        /\ j \in 1..Len(rest) \/ j = Len(rest) + 1
    BY <1>3
  <2>2. CASE i \in 1..Len(rest) /\ j \in 1..Len(rest)
    BY <1>2, <1>3, <2>2 DEF NoneTwice
  <2>3. CASE i = Len(rest) + 1 \/ j = Len(rest) + 1
    BY <1>3, <1>4, <2>1, <2>3
  <2> QED  BY <2>1, <2>2, <2>3
<1>6. ASSUME NEW s
      PROVE  s \in Tracked(tracker) <=> Listed(tracker.lru, s)
  <2>1. Listed(tracker.lru, s) <=> s = subject \/ Listed(rest, s)
    BY <1>3 DEF Listed
  <2> QED  BY <1>1, <1>2, <2>1 DEF LruInv
<1>7. Len(tracker.lru) <= Largest({1, MaxSubjects})
  <2>1. Largest({1, MaxSubjects}) \in Nat /\ Len(room.lru) \in Nat
    BY LargestOfTwo, TrackerConfig DEF LruInv
  <2>2. Len(room.lru) <= Largest({1, MaxSubjects})
    BY DEF LruInv
  <2>3. subject \in Tracked(room) <=> Listed(room.lru, subject)
    BY DEF LruInv
  <2> QED  BY <1>2, <1>3, <2>1, <2>2, <2>3
<1>8. LruInv(tracker)
  BY <1>3, <1>5, <1>6, <1>7 DEF LruInv
<1> QED  BY <1>1, <1>8 DEF tracker

(* What an observation leaves: the subject with its window, the others     *)
(* that were tracked with theirs, without the one that made room.          *)
LEMMA ObserveKeeps ==
  ASSUME NEW tracker, LruInv(tracker), NEW subject \in Subjects, NEW window
  PROVE  LET after == Bumped(Room(tracker, subject), subject, window)
         IN /\ LruInv(after)
            /\ Tracked(after) = (Tracked(tracker) \ Evicted(tracker, subject)) \cup {subject}
            /\ after.windows[subject] = window
            /\ \A s \in Tracked(after) \ {subject} : after.windows[s] = tracker.windows[s]
<1>0. PICK room : room = Room(tracker, subject)
  OBVIOUS
<1>1. /\ LruInv(room)
      /\ Tracked(room) = Tracked(tracker) \ Evicted(tracker, subject)
      /\ \A s \in Tracked(room) : room.windows[s] = tracker.windows[s]
      /\ subject \in Tracked(room) \/ Len(room.lru) < Largest({1, MaxSubjects})
  BY <1>0, RoomKeeps
<1>2. PICK after : after = Bumped(room, subject, window)
  OBVIOUS
<1>3. /\ LruInv(after)
      /\ Tracked(after) = Tracked(room) \cup {subject}
      /\ after.windows[subject] = window
      /\ \A s \in Tracked(room) \ {subject} : after.windows[s] = room.windows[s]
  <2>1. LruInv(room)
    BY <1>1
  <2>2. subject \in Tracked(room) \/ Len(room.lru) < Largest({1, MaxSubjects})
    BY <1>1
  <2>3. LruInv(after) /\ Tracked(after) = Tracked(room) \cup {subject}
    BY <2>1, <2>2, <1>2, BumpedKeeps
  <2>4. after.windows[subject] = window
    BY <1>2 DEF Bumped
  <2>5. \A s \in Tracked(room) \ {subject} : after.windows[s] = room.windows[s]
    BY <1>2 DEF Bumped
  <2> QED  BY <2>3, <2>4, <2>5
<1> QED  BY <1>0, <1>1, <1>2, <1>3

(* VelocityTracker::observe and TargetTracker::observe as a whole.         *)
LEMMA VelocityLeaves ==
  ASSUME NEW tracker, LruInv(tracker), NEW subject \in Subjects, NEW now,
         NEW after, after = VelocityObserve(tracker, subject, now)
  PROVE  /\ LruInv(after)
         /\ Tracked(after) = (Tracked(tracker) \ Evicted(tracker, subject)) \cup {subject}
         /\ after.windows[subject] =
              Append(Pruned(IF subject \in Tracked(tracker) THEN tracker.windows[subject]
                            ELSE <<>>, Cutoff(now)), now)
         /\ \A s \in Tracked(after) \ {subject} : after.windows[s] = tracker.windows[s]
<1>1. PICK queue : queue = IF subject \in Tracked(tracker) THEN tracker.windows[subject]
                           ELSE <<>>
  OBVIOUS
<1>2. PICK window : window = Append(Pruned(queue, Cutoff(now)), now)
  OBVIOUS
<1>3. after = Bumped(Room(tracker, subject), subject, window)
  <2>1. queue = IF subject \in Tracked(Room(tracker, subject))
                THEN Room(tracker, subject).windows[subject] ELSE <<>>
    BY <1>1, RoomKeeps
  <2> QED  BY <1>2, <2>1 DEF VelocityObserve
<1>4. /\ LruInv(after)
      /\ Tracked(after) = (Tracked(tracker) \ Evicted(tracker, subject)) \cup {subject}
      /\ after.windows[subject] = window
      /\ \A s \in Tracked(after) \ {subject} : after.windows[s] = tracker.windows[s]
  BY <1>3, ObserveKeeps
<1> QED  BY <1>1, <1>2, <1>4

LEMMA TargetLeaves ==
  ASSUME NEW tracker, LruInv(tracker), NEW subject \in Subjects, NEW target, NEW now,
         NEW after, after = TargetObserve(tracker, subject, target, now)
  PROVE  /\ LruInv(after)
         /\ Tracked(after) = (Tracked(tracker) \ Evicted(tracker, subject)) \cup {subject}
         /\ after.windows[subject] =
              Seen(Fresh(IF subject \in Tracked(tracker) THEN tracker.windows[subject]
                         ELSE <<>>, Cutoff(now)), target, now)
         /\ \A s \in Tracked(after) \ {subject} : after.windows[s] = tracker.windows[s]
<1>1. PICK seen : seen = IF subject \in Tracked(tracker) THEN tracker.windows[subject]
                         ELSE <<>>
  OBVIOUS
<1>2. PICK window : window = Seen(Fresh(seen, Cutoff(now)), target, now)
  OBVIOUS
<1>3. after = Bumped(Room(tracker, subject), subject, window)
  <2>1. seen = IF subject \in Tracked(Room(tracker, subject))
               THEN Room(tracker, subject).windows[subject] ELSE <<>>
    BY <1>1, RoomKeeps
  <2> QED  BY <1>2, <2>1 DEF TargetObserve
<1>4. /\ LruInv(after)
      /\ Tracked(after) = (Tracked(tracker) \ Evicted(tracker, subject)) \cup {subject}
      /\ after.windows[subject] = window
      /\ \A s \in Tracked(after) \ {subject} : after.windows[s] = tracker.windows[s]
  BY <1>3, ObserveKeeps
<1> QED  BY <1>1, <1>2, <1>4

-----------------------------------------------------------------------------
(* A subject's targets: within their bound, the oldest of them exists.     *)
SeenInv(seen) ==
  /\ DOMAIN seen \in SUBSET Nat /\ IsFiniteSet(DOMAIN seen)
  /\ \A t \in DOMAIN seen : seen[t] \in Nat
  /\ Cardinality(DOMAIN seen) <= Largest({1, MaxTargetsPerSubject})

LEMMA SmallestExists ==
  ASSUME NEW S \in SUBSET Nat, S # {}
  PROVE  \E s \in S : \A t \in S : s <= t
<1>1. \E s \in S : \A t \in S : ~(<<t, s>> \in OpToRel(<, Nat))
  BY NatLessThanWellFounded, WFMin, Zenon
<1>2. PICK s \in S : \A t \in S : ~(<<t, s>> \in OpToRel(<, Nat))
  BY <1>1
<1>3. \A t \in S : s <= t
  <2> TAKE t \in S
  <2>1. <<t, s>> \in Nat \X Nat => ~(t < s)
    BY <1>2, Zenon DEF OpToRel
  <2> QED  BY <2>1
<1> QED  BY <1>3

LEMMA OldestTargetExists ==
  ASSUME NEW seen, DOMAIN seen \in SUBSET Nat, DOMAIN seen # {},
         \A t \in DOMAIN seen : seen[t] \in Nat
  PROVE  OldestTarget(seen) \in DOMAIN seen
<1>1. PICK v \in {seen[t] : t \in DOMAIN seen} : \A w \in {seen[t] : t \in DOMAIN seen} : v <= w
  <2>1. PICK S : S = {seen[t] : t \in DOMAIN seen}
    OBVIOUS
  <2>2. S \in SUBSET Nat /\ S # {}
    BY <2>1
  <2> QED  BY <2>1, <2>2, SmallestExists
<1> DEFINE T == {t \in DOMAIN seen : seen[t] = v}
<1>2. T \in SUBSET Nat /\ T # {}
  BY <1>1
<1> HIDE DEF T
<1>3. PICK t \in T : \A u \in T : t <= u
  BY <1>2, SmallestExists
<1>4. t \in DOMAIN seen /\ \A u \in DOMAIN seen :
        seen[t] < seen[u] \/ (seen[t] = seen[u] /\ t <= u)
  BY <1>1, <1>3 DEF T
<1> QED  BY <1>4 DEF OldestTarget

LEMMA FreshKeeps ==
  ASSUME NEW seen, SeenInv(seen), NEW cutoff
  PROVE  SeenInv(Fresh(seen, cutoff))
<1> DEFINE recent == {t \in DOMAIN seen : seen[t] >= cutoff}
<1>1. IsFiniteSet(recent) /\ Cardinality(recent) <= Cardinality(DOMAIN seen)
  BY FS_Subset DEF SeenInv
<1>2. DOMAIN Fresh(seen, cutoff) = recent /\ \A t \in recent : Fresh(seen, cutoff)[t] = seen[t]
  BY DEF Fresh
<1>3. Cardinality(recent) <= Largest({1, MaxTargetsPerSubject})
  <2>1. /\ Cardinality(DOMAIN seen) \in Nat /\ Cardinality(recent) \in Nat
        /\ Largest({1, MaxTargetsPerSubject}) \in Nat
    BY <1>1, FS_CardinalityType, LargestOfTwo, TrackerConfig DEF SeenInv
  <2> QED  BY <1>1, <2>1 DEF SeenInv
<1> QED  BY <1>1, <1>2, <1>3 DEF SeenInv

LEMMA SeenKeeps ==
  ASSUME NEW seen, SeenInv(seen), NEW target \in Nat, NEW now \in Nat
  PROVE  SeenInv(Seen(seen, target, now)) /\ target \in DOMAIN Seen(seen, target, now)
<1> DEFINE D == DOMAIN seen
           bound == Largest({1, MaxTargetsPerSubject})
           full == target \notin D /\ D # {} /\ Cardinality(D) >= MaxTargetsPerSubject
           kept == D \ (IF full THEN {OldestTarget(seen)} ELSE {})
<1>1. /\ DOMAIN Seen(seen, target, now) = kept \cup {target}
      /\ \A t \in kept \cup {target} :
           Seen(seen, target, now)[t] = IF t = target THEN now ELSE seen[t]
  BY DEF Seen
<1>2. /\ IsFiniteSet(D) /\ Cardinality(D) \in Nat /\ bound \in Nat /\ Cardinality(D) <= bound
      /\ MaxTargetsPerSubject \in Nat
      /\ bound = IF MaxTargetsPerSubject > 1 THEN MaxTargetsPerSubject ELSE 1
  <2>1. MaxTargetsPerSubject \in Nat
    BY TrackerConfig
  <2>2. bound = IF MaxTargetsPerSubject > 1 THEN MaxTargetsPerSubject ELSE 1
    BY <2>1, LargestOfTwo
  <2>3. IsFiniteSet(D) /\ Cardinality(D) \in Nat /\ Cardinality(D) <= bound
    BY FS_CardinalityType DEF SeenInv
  <2> HIDE DEF bound
  <2> QED  BY <2>1, <2>2, <2>3
<1>3. IsFiniteSet(kept \cup {target}) /\ Cardinality(kept \cup {target}) <= bound
  <2>1. CASE full
    <3>1. OldestTarget(seen) \in D
      BY <2>1, OldestTargetExists DEF SeenInv
    <3>2. IsFiniteSet(kept) /\ Cardinality(kept) = Cardinality(D) - 1
      BY <1>2, <2>1, <3>1, FS_RemoveElement
    <3>3. target \notin kept
      BY <2>1
    <3> HIDE DEF kept, bound
    <3>4. IsFiniteSet(kept \cup {target}) /\ Cardinality(kept \cup {target}) = Cardinality(kept) + 1
      BY <3>2, <3>3, FS_AddElement
    <3> QED  BY <1>2, <3>2, <3>4
  <2>2. CASE ~full
    <3>1. kept = D
      BY <2>2
    <3>2. /\ IsFiniteSet(D \cup {target})
          /\ Cardinality(D \cup {target}) = IF target \in D THEN Cardinality(D) ELSE Cardinality(D) + 1
      BY <1>2, FS_AddElement
    <3>3. target \in D \/ D = {} \/ Cardinality(D) < MaxTargetsPerSubject
      <4> HIDE DEF D
      <4> QED  BY <1>2, <2>2
    <3>4. D = {} => Cardinality(D) = 0
      BY FS_EmptySet
    <3> HIDE DEF kept, bound, D, full
    <3> QED  BY <1>2, <3>1, <3>2, <3>3, <3>4
  <2> QED  BY <2>1, <2>2
<1>4. kept \cup {target} \in SUBSET Nat
      /\ \A t \in kept \cup {target} : (IF t = target THEN now ELSE seen[t]) \in Nat
  BY DEF SeenInv
<1> HIDE DEF kept
<1> QED  BY <1>1, <1>3, <1>4 DEF SeenInv

-----------------------------------------------------------------------------
(* The inductive invariant of the three trackers.                          *)
TrackersInv ==
  /\ LruInv(velocity) /\ LruInv(credstuff) /\ LruInv(targets)
  /\ \A s \in Tracked(targets) : SeenInv(targets.windows[s]) /\ DOMAIN targets.windows[s] # {}

LEMMA NewTrackerIsSound == LruInv(NewTracker) /\ Tracked(NewTracker) = {}
<1>1. Tracked(NewTracker) = {}
  BY NoneIsEmpty DEF Tracked, NewTracker
<1>2. NewTracker.lru = <<>> /\ <<>> \in Seq(Subjects)
  BY DEF NewTracker
<1>3. NoneTwice(<<>>) /\ \A s : ~Listed(<<>>, s)
  BY NoneIsEmpty DEF NoneTwice, Listed
<1>4. 0 <= Largest({1, MaxSubjects})
  BY LargestOfTwo, TrackerConfig
<1> QED  BY <1>1, <1>2, <1>3, <1>4, NoneIsEmpty DEF LruInv

LEMMA SubjectsOfConnections ==
  ASSUME EvaluateInv, NEW c \in Connections, conn[c].at # "idle"
  PROVE  /\ conn[c].event \in Events /\ Subject(conn[c].event) \in Subjects
         /\ conn[c].now \in Nat
<1>1. conn[c] \in Evaluations
  BY WorkingIsEvaluating
<1> QED  BY <1>1 DEF Evaluations, Subjects

LEMMA TargetKeeps ==
  ASSUME SightInv, TrackersInv, NEW c \in Connections, ObserveTarget(c)
  PROVE  TrackersInv'
<1> DEFINE subject == Subject(conn[c].event)
           target == conn[c].event.target
           now == conn[c].now
<1>1. UNCHANGED <<velocity, credstuff>> /\ conn[c].at = "targets"
  BY DEF ObserveTarget, Working
<1>2. conn[c].event \in Events /\ subject \in Subjects /\ now \in Nat
  BY <1>1, SubjectsOfConnections DEF SightInv
<1>3. CASE target = None
  BY <1>1, <1>3 DEF ObserveTarget, TrackersInv
<1>4. CASE target # None
  <2>1. targets' = TargetObserve(targets, subject, target, now)
    BY <1>4 DEF ObserveTarget
  <2>2. target \in Nat
    BY <1>2, <1>4, EventFields
  <2> HIDE DEF subject, target, now
  <2>3. PICK seen : seen = IF subject \in Tracked(targets) THEN targets.windows[subject]
                           ELSE <<>>
    OBVIOUS
  <2>4. /\ LruInv(targets')
        /\ Tracked(targets') = (Tracked(targets) \ Evicted(targets, subject)) \cup {subject}
        /\ targets'.windows[subject] = Seen(Fresh(seen, Cutoff(now)), target, now)
        /\ \A s \in Tracked(targets') \ {subject} : targets'.windows[s] = targets.windows[s]
    BY <1>2, <2>1, <2>3, TargetLeaves DEF TrackersInv
  <2>5. SeenInv(seen)
    <3>1. SeenInv(<<>>)
      <4>1. IsFiniteSet({}) /\ Cardinality({}) = 0
        BY FS_EmptySet
      <4>2. 0 <= Largest({1, MaxTargetsPerSubject})
        BY LargestOfTwo, TrackerConfig
      <4> QED  BY <4>1, <4>2, NoneIsEmpty DEF SeenInv
    <3> QED  BY <2>3, <3>1 DEF TrackersInv
  <2>6. SeenInv(targets'.windows[subject]) /\ DOMAIN targets'.windows[subject] # {}
    <3>1. PICK fresh : fresh = Fresh(seen, Cutoff(now))
      OBVIOUS
    <3>2. SeenInv(fresh)
      BY <2>5, <3>1, FreshKeeps
    <3>3. SeenInv(Seen(fresh, target, now)) /\ target \in DOMAIN Seen(fresh, target, now)
      BY <1>2, <2>2, <3>2, SeenKeeps
    <3> QED  BY <2>4, <3>1, <3>3
  <2>7. ASSUME NEW s \in Tracked(targets')
        PROVE  SeenInv(targets'.windows[s]) /\ DOMAIN targets'.windows[s] # {}
    <3>1. CASE s = subject
      BY <2>6, <3>1
    <3>2. CASE s # subject
      <4>1. s \in Tracked(targets) /\ targets'.windows[s] = targets.windows[s]
        BY <2>4, <3>2
      <4> QED  BY <4>1 DEF TrackersInv
    <3> QED  BY <3>1, <3>2
  <2> QED  BY <1>1, <2>4, <2>7 DEF TrackersInv
<1> QED  BY <1>3, <1>4

(* The inductive invariant of the trackers (trackers.rs:61-105, 164-222).  *)
THEOREM TrackersInvariant == DetectSpec => []TrackersInv
<1>1. DetectInit => TrackersInv
  BY NewTrackerIsSound DEF DetectInit, TrackersInv
<1>2. SightInv /\ TrackersInv /\ [DetectNext]_detectvars => TrackersInv'
  <2> SUFFICES ASSUME SightInv, TrackersInv, [DetectNext]_detectvars
               PROVE  TrackersInv'
    OBVIOUS
  <2>1. ASSUME UNCHANGED <<velocity, credstuff, targets>>
        PROVE  TrackersInv'
    BY <2>1 DEF TrackersInv
  <2>2. ASSUME NEW c \in Connections, Evaluate(c)
        PROVE  TrackersInv'
    <3>1. CASE Begin(c) \/ Insert(c) \/ ReadClock(c)
      BY <2>1, <3>1 DEF Begin, Insert, ReadClock
    <3>2. CASE ObserveVelocity(c)
      <4>1. /\ UNCHANGED <<credstuff, targets>> /\ conn[c].at = "velocity"
            /\ velocity' = VelocityObserve(velocity, Subject(conn[c].event), conn[c].now)
        BY <3>2 DEF ObserveVelocity, Working
      <4>2. Subject(conn[c].event) \in Subjects
        BY <4>1, SubjectsOfConnections DEF SightInv
      <4>3. LruInv(velocity')
        BY <4>1, <4>2, VelocityLeaves DEF TrackersInv
      <4> QED  BY <4>1, <4>3 DEF TrackersInv
    <3>3. CASE ObserveFailure(c)
      <4>1. /\ UNCHANGED <<velocity, targets>> /\ conn[c].at = "credstuff"
            /\ credstuff' = VelocityObserve(credstuff, Subject(conn[c].event), conn[c].now)
        BY <3>3 DEF ObserveFailure, Working
      <4>2. Subject(conn[c].event) \in Subjects
        BY <4>1, SubjectsOfConnections DEF SightInv
      <4>3. LruInv(credstuff')
        BY <4>1, <4>2, VelocityLeaves DEF TrackersInv
      <4> QED  BY <4>1, <4>3 DEF TrackersInv
    <3>4. CASE ObserveTarget(c)
      BY <3>4, TargetKeeps
    <3> QED  BY <2>2, <3>1, <3>2, <3>3, <3>4 DEF Evaluate
  <2>3. CASE Pass
    BY <2>1, <2>3 DEF Pass, signalvars
  <2>4. CASE UNCHANGED detectvars
    BY <2>1, <2>4 DEF detectvars, signalvars
  <2> QED  BY <2>2, <2>3, <2>4 DEF DetectNext
<1> QED  BY <1>1, <1>2, SightInvariant, PTL DEF DetectSpec

(* SEC-18, trackers.rs:3-6: for any bounds, any number of connections and  *)
(* any events, no tracker outgrows its bounds, and what it evicts next is  *)
(* a subject it tracks.                                                    *)
THEOREM TrackersStayBounded == DetectSpec => []TrackersBounded
<1>1. TrackersInv => TrackersBounded
  <2> SUFFICES ASSUME TrackersInv PROVE TrackersBounded
    OBVIOUS
  <2>1. ASSUME NEW t \in {velocity, credstuff, targets}
        PROVE  /\ Cardinality(Tracked(t)) <= Largest({1, MaxSubjects})
               /\ ToSet(t.lru) = Tracked(t) /\ Len(t.lru) = Cardinality(Tracked(t))
    <3>1. LruInv(t)
      BY DEF TrackersInv
    <3>2. ToSet(t.lru) = Tracked(t) /\ Len(t.lru) = Cardinality(Tracked(t))
      BY <3>1, LruListsTracked
    <3>3. Len(t.lru) <= Largest({1, MaxSubjects})
      BY <3>1 DEF LruInv
    <3> QED  BY <3>2, <3>3
  <2>2. ASSUME NEW s \in Tracked(targets)
        PROVE  Cardinality(DOMAIN targets.windows[s]) \in 1..Largest({1, MaxTargetsPerSubject})
    <3>1. PICK D : D = DOMAIN targets.windows[s]
      OBVIOUS
    <3>2. /\ IsFiniteSet(D) /\ D # {}
          /\ Cardinality(D) <= Largest({1, MaxTargetsPerSubject})
      BY <3>1 DEF TrackersInv, SeenInv
    <3>3. Cardinality(D) \in Nat /\ Cardinality(D) # 0
      BY <3>2, FS_CardinalityType, FS_EmptySet
    <3>4. Largest({1, MaxTargetsPerSubject}) \in Nat
      BY LargestOfTwo, TrackerConfig
    <3> QED  BY <3>1, <3>2, <3>3, <3>4
  <2> QED  BY <2>1, <2>2 DEF TrackersBounded
<1> QED  BY <1>1, TrackersInvariant, PTL

-----------------------------------------------------------------------------
(* The windows of VelocityTracker.  Count is how often a queue holds a     *)
(* time: one more for what is appended, the same without a prefix that     *)
(* does not hold it.                                                       *)
Count(queue, t) == Cardinality({k \in 1..Len(queue) : queue[k] = t})
Latest(queue) == Largest({queue[k] : k \in 1..Len(queue)})

LEMMA CountIsNat ==
  ASSUME NEW queue \in Seq(Nat), NEW t
  PROVE  /\ IsFiniteSet({k \in 1..Len(queue) : queue[k] = t})
         /\ Count(queue, t) \in Nat
<1> DEFINE K == {k \in 1..Len(queue) : queue[k] = t}
<1>1. IsFiniteSet(1..Len(queue)) /\ K \in SUBSET (1..Len(queue))
  BY CountTo
<1>2. IsFiniteSet(K)
  BY <1>1, FS_Subset
<1> HIDE DEF K
<1>3. Cardinality(K) \in Nat
  BY <1>2, FS_CardinalityType
<1> QED  BY <1>2, <1>3 DEF K, Count

LEMMA CountAppended ==
  ASSUME NEW queue \in Seq(Nat), NEW x \in Nat, NEW t
  PROVE  Count(Append(queue, x), t) = Count(queue, t) + (IF x = t THEN 1 ELSE 0)
<1> DEFINE L == Len(queue)
           K == {k \in 1..L : queue[k] = t}
           after == Append(queue, x)
           A == {k \in 1..Len(after) : after[k] = t}
<1>1. L \in Nat /\ L + 1 \notin K
  OBVIOUS
<1>2. /\ Len(after) = L + 1 /\ after[L + 1] = x
      /\ \A k \in 1..L : after[k] = queue[k]
  OBVIOUS
<1>3. IsFiniteSet(K) /\ Cardinality(K) \in Nat
  BY CountIsNat DEF Count
<1> HIDE DEF after, L
<1>4. A = IF x = t THEN K \cup {L + 1} ELSE K
  BY <1>1, <1>2
<1>5. Cardinality(K \cup {L + 1}) = Cardinality(K) + 1
  BY <1>1, <1>3, FS_AddElement
<1> HIDE DEF K, A
<1>6. Cardinality(A) = Cardinality(K) + (IF x = t THEN 1 ELSE 0)
  BY <1>3, <1>4, <1>5
<1> QED  BY <1>6 DEF Count, A, K, L, after

LEMMA CountSuffix ==
  ASSUME NEW queue \in Seq(Nat), NEW m \in 0..Len(queue), NEW t,
         \A i \in 1..m : queue[i] # t
  PROVE  Count(SubSeq(queue, m + 1, Len(queue)), t) = Count(queue, t)
<1> DEFINE L == Len(queue)
           rest == SubSeq(queue, m + 1, L)
           K == {k \in 1..L : queue[k] = t}
           R == {k \in 1..Len(rest) : rest[k] = t}
           shift == [k \in R |-> k + m]
<1>1. L \in Nat /\ m \in Nat /\ m <= L
  OBVIOUS
<1>2. /\ rest \in Seq(Nat) /\ Len(rest) = L - m
      /\ \A k \in 1..(L - m) : rest[k] = queue[k + m]
  <2>1. \A i \in (m + 1)..L : queue[i] \in Nat
    BY <1>1
  <2>2. /\ rest \in Seq(Nat)
        /\ Len(rest) = IF m + 1 <= L THEN L - (m + 1) + 1 ELSE 0
        /\ \A i \in 1..(L - (m + 1) + 1) : rest[i] = queue[(m + 1) + i - 1]
    <3>1. m + 1 \in Int /\ L \in Int
      BY <1>1
    <3> HIDE DEF L
    <3> QED  BY <2>1, <3>1, SubSeqProperties
  <2> HIDE DEF rest, L
  <2>3. Len(rest) = L - m /\ L - (m + 1) + 1 = L - m
    BY <1>1, <2>2
  <2>4. ASSUME NEW k \in 1..(L - m)
        PROVE  rest[k] = queue[k + m]
    <3>1. rest[k] = queue[(m + 1) + k - 1] /\ (m + 1) + k - 1 = k + m
      BY <1>1, <2>2, <2>3
    <3> QED  BY <3>1
  <2> QED  BY <2>2, <2>3, <2>4
<1> HIDE DEF rest
<1>3. IsFiniteSet(R)
  BY <1>2, CountIsNat
<1>4. shift \in [R -> K]
  <2> SUFFICES ASSUME NEW k \in R PROVE k + m \in K
    OBVIOUS
  <2> QED  BY <1>1, <1>2
<1>5. \A j, k \in R : shift[j] = shift[k] => j = k
  BY <1>1, <1>2
<1>6. ASSUME NEW k \in K
      PROVE  \E j \in R : shift[j] = k
  <2>1. k \in 1..L /\ k \notin 1..m /\ queue[k] = t
    OBVIOUS
  <2>2. k - m \in 1..(L - m) /\ (k - m) + m = k
    BY <1>1, <2>1
  <2>3. k - m \in R
    BY <1>2, <2>1, <2>2
  <2> QED  BY <2>2, <2>3
<1> HIDE DEF R, K, shift
<1>7. DOMAIN shift = R
  BY DEF shift
<1>8. shift \in Bijection(R, K)
  <2>1. shift \in Injection(R, K)
    BY <1>4, <1>5, <1>7, Zenon DEF Injection, IsInjective
  <2>2. shift \in Surjection(R, K)
    BY <1>4, <1>6, Zenon DEF Surjection
  <2> QED  BY <2>1, <2>2 DEF Bijection
<1>9. Cardinality(K) = Cardinality(R)
  BY <1>3, <1>8, FS_Bijection DEF ExistsBijection
<1> QED  BY <1>9 DEF Count, R, K, rest

(* What Pruned leaves: all but a prefix that is too old, beginning with a  *)
(* time that is not.                                                       *)
LEMMA PrunedIsSuffix ==
  ASSUME NEW queue \in Seq(Nat), NEW cutoff \in Nat
  PROVE  \E m \in 0..Len(queue) :
           /\ Pruned(queue, cutoff) = SubSeq(queue, m + 1, Len(queue))
           /\ \A i \in 1..m : queue[i] < cutoff
           /\ m < Len(queue) => queue[m + 1] >= cutoff
<1> DEFINE recent == {i \in 1..Len(queue) : queue[i] >= cutoff}
<1>1. Len(queue) \in Nat /\ \A i \in 1..Len(queue) : queue[i] \in Nat
  OBVIOUS
<1>2. CASE recent = {}
  <2>1. Pruned(queue, cutoff) = <<>>
    BY <1>2 DEF Pruned
  <2>2. SubSeq(queue, Len(queue) + 1, Len(queue)) = <<>>
    BY <1>1, SubSeqEmpty
  <2>3. \A i \in 1..Len(queue) : queue[i] < cutoff
    BY <1>1, <1>2
  <2> WITNESS Len(queue) \in 0..Len(queue)
  <2> QED  BY <1>1, <2>1, <2>2, <2>3
<1>3. CASE recent # {}
  <2>1. recent \in SUBSET Nat
    BY <1>1
  <2> DEFINE first == CHOOSE i \in recent : \A j \in recent : i <= j
  <2>2. first \in recent /\ \A j \in recent : first <= j
    <3> HIDE DEF recent
    <3> QED  BY <1>3, <2>1, SmallestExists
  <2>3. Pruned(queue, cutoff) = SubSeq(queue, first, Len(queue))
    BY <1>3 DEF Pruned
  <2> HIDE DEF first
  <2>4. first \in 1..Len(queue) /\ queue[first] >= cutoff
    BY <2>2
  <2>5. \A i \in 1..(first - 1) : queue[i] < cutoff
    BY <1>1, <2>2, <2>4
  <2>6. (first - 1) \in 0..Len(queue) /\ (first - 1) + 1 = first
    BY <1>1, <2>4
  <2>7. PICK m \in 0..Len(queue) : m = first - 1 /\ m + 1 = first
    BY <2>6
  <2>8. /\ Pruned(queue, cutoff) = SubSeq(queue, m + 1, Len(queue))
        /\ \A i \in 1..m : queue[i] < cutoff
        /\ m < Len(queue) => queue[m + 1] >= cutoff
    BY <2>3, <2>4, <2>5, <2>7
  <2> QED  BY <2>8
<1> QED  BY <1>2, <1>3

LEMMA LatestExists ==
  ASSUME NEW queue \in Seq(Nat), Len(queue) > 0,
         NEW time \in Nat, \A k \in 1..Len(queue) : queue[k] <= time
  PROVE  /\ Latest(queue) \in Nat
         /\ \A k \in 1..Len(queue) : queue[k] <= Latest(queue)
         /\ \E k \in 1..Len(queue) : queue[k] = Latest(queue)
<1> DEFINE S == {queue[k] : k \in 1..Len(queue)}
           B == {n \in Nat : \A s \in S : s <= n}
<1>1. S \in SUBSET Nat /\ queue[1] \in S
  OBVIOUS
<1>2. time \in B
  OBVIOUS
<1>3. PICK n \in B : \A b \in B : n <= b
  <2>1. B \in SUBSET Nat /\ B # {}
    BY <1>2
  <2> HIDE DEF B
  <2> QED  BY <2>1, SmallestExists
<1>4. n \in S
  <2> SUFFICES ASSUME n \notin S PROVE FALSE
    OBVIOUS
  <2>1. \A s \in S : s < n
    <3> HIDE DEF S
    <3> QED  BY <1>1, <1>3
  <2> HIDE DEF S
  <2>2. n # 0 /\ n - 1 \in B
    BY <1>1, <1>3, <2>1
  <2> QED  BY <1>3, <2>2
<1>5. Largest(S) = n
  <2>1. n \in S /\ \A s \in S : s <= n
    BY <1>3, <1>4
  <2>2. \A m \in S : (\A s \in S : s <= m) => m = n
    <3> HIDE DEF S, B
    <3> QED  BY <1>1, <1>3, <2>1
  <2> HIDE DEF S, B
  <2> QED  BY <2>1, <2>2 DEF Largest
<1>6. Latest(queue) = n
  BY <1>5 DEF Latest
<1> QED  BY <1>3, <1>4, <1>6

LEMMA CutoffGrows ==
  ASSUME NEW a \in Nat, NEW b \in Nat, a <= b
  PROVE  /\ Cutoff(a) \in Nat /\ Cutoff(b) \in Nat
         /\ Cutoff(a) <= Cutoff(b) /\ Cutoff(a) <= a
BY TrackerConfig DEF Cutoff

(* The window of a subject, against the times velocity was told of it: no  *)
(* time is out of order by more than the lag, the oldest is within the lag *)
(* of the window of the last, and all of those in the window before the    *)
(* latest are there.                                                       *)
Orderly(queue) ==
  /\ \A i, j \in 1..Len(queue) : i < j => queue[i] <= queue[j] + MaxLag
  /\ \A k \in 1..Len(queue) : queue[k] + MaxLag >= Cutoff(queue[Len(queue)])

Complete(queue, row) ==
  \A t \in 0..MaxClock :
    (Len(queue) > 0 => t >= Cutoff(Latest(queue))) => Count(queue, t) = row[t]

(* A time that arrives within the lag, at a queue of the past.             *)
Timely(queue, now, time) ==
  /\ now <= time /\ time <= now + MaxLag
  /\ \A k \in 1..Len(queue) : queue[k] <= time

LEMMA OrderlyAfter ==
  ASSUME NEW queue \in Seq(Nat), Orderly(queue), NEW time \in Nat, NEW now \in Nat,
         Timely(queue, now, time),
         NEW after, after = Append(Pruned(queue, Cutoff(now)), now)
  PROVE  /\ after \in Seq(Nat) /\ Len(after) > 0
         /\ \A k \in 1..Len(after) : after[k] <= time
         /\ Orderly(after)
<1> DEFINE L == Len(queue)
<1>1. /\ L \in Nat /\ MaxLag \in Nat /\ now <= time /\ time <= now + MaxLag
      /\ \A k \in 1..L : queue[k] \in Nat /\ queue[k] <= time
  BY ClockBounds DEF Timely
<1>2. Cutoff(now) \in Nat /\ Cutoff(now) <= now
  BY CutoffGrows
<1>3. PICK m \in 0..L :
        /\ Pruned(queue, Cutoff(now)) = SubSeq(queue, m + 1, L)
        /\ m < L => queue[m + 1] >= Cutoff(now)
  <2>1. PICK cutoff \in Nat : cutoff = Cutoff(now)
    BY <1>2
  <2> QED  BY <2>1, PrunedIsSuffix
<1>4. PICK n \in Nat : n = L - m /\ m + n = L
  <2>1. PICK n : n = L - m
    OBVIOUS
  <2>2. n \in Nat /\ m + n = L
    BY <1>1, <2>1
  <2> QED  BY <2>1, <2>2
<1>5. PICK rest : rest = SubSeq(queue, m + 1, L)
  OBVIOUS
<1>6. /\ rest \in Seq(Nat) /\ Len(rest) = n
      /\ \A k \in 1..n : rest[k] = queue[k + m]
  BY <1>1, <1>4, <1>5
<1>7. /\ after \in Seq(Nat) /\ Len(after) = n + 1 /\ after[n + 1] = now
      /\ \A k \in 1..n : after[k] = queue[k + m] /\ k + m \in 1..L
  <2>1. after = Append(rest, now)
    BY <1>3, <1>5
  <2>2. \A k \in 1..n : k + m \in 1..L
    BY <1>1, <1>4
  <2> HIDE DEF L
  <2> QED  BY <1>4, <1>6, <2>1, <2>2
<1> HIDE DEF L
<1>8. \A k \in 1..(n + 1) : k = n + 1 \/ k \in 1..n
  BY <1>4
<1>9. ASSUME NEW k \in 1..(n + 1)
      PROVE  after[k] \in Nat /\ after[k] <= time /\ after[k] + MaxLag >= Cutoff(now)
  <2>1. CASE k = n + 1
    BY <1>1, <1>2, <1>7, <2>1
  <2>2. CASE k \in 1..n
    <3>1. after[k] = queue[k + m] /\ k + m \in 1..L
      BY <1>7, <2>2
    <3>2. queue[k + m] \in Nat /\ queue[k + m] <= time
      BY <1>1, <3>1 DEF L
    <3>3. m + 1 \in 1..L /\ queue[m + 1] \in Nat /\ queue[m + 1] >= Cutoff(now)
      BY <1>1, <1>3, <1>4, <2>2
    <3>4. queue[m + 1] <= queue[k + m] + MaxLag
      <4>1. CASE k = 1
        BY <1>1, <3>2, <3>3, <4>1
      <4>2. CASE k # 1
        <5>1. m + 1 < k + m
          BY <1>4, <2>2, <4>2
        <5> QED  BY <3>1, <3>3, <5>1 DEF Orderly, L
      <4> QED  BY <4>1, <4>2
    <3>5. PICK a \in Nat, b \in Nat, cut \in Nat :
            a = queue[k + m] /\ b = queue[m + 1] /\ cut = Cutoff(now)
      BY <1>2, <3>2, <3>3
    <3>6. a + MaxLag >= cut
      <4>1. b >= cut /\ b <= a + MaxLag
        BY <3>3, <3>4, <3>5
      <4> QED  BY <4>1, ClockBounds
    <3> QED  BY <3>1, <3>2, <3>5, <3>6
  <2> QED  BY <1>8, <2>1, <2>2
<1>10. ASSUME NEW i \in 1..(n + 1), NEW j \in 1..(n + 1), i < j
       PROVE  after[i] <= after[j] + MaxLag
  <2>1. i \in 1..n
    BY <1>4, <1>10
  <2>2. CASE j = n + 1
    BY <1>1, <1>7, <1>9, <2>2
  <2>3. CASE j \in 1..n
    <3>1. i + m < j + m
      BY <1>4, <1>10
    <3> QED  BY <1>7, <2>1, <2>3, <3>1 DEF Orderly, L
  <2> QED  BY <1>8, <2>2, <2>3
<1>11. Orderly(after)
  <2>1. Len(after) = n + 1 /\ after[Len(after)] = now
    BY <1>7
  <2>2. \A k \in 1..Len(after) : after[k] + MaxLag >= Cutoff(after[Len(after)])
    BY <1>9, <2>1
  <2>3. \A i, j \in 1..Len(after) : i < j => after[i] <= after[j] + MaxLag
    BY <1>10, <2>1
  <2> QED  BY <2>2, <2>3 DEF Orderly
<1> QED  BY <1>4, <1>7, <1>9, <1>11

OneMore(row, row2, now) ==
  \A t \in 0..MaxClock : row2[t] = row[t] + (IF t = now THEN 1 ELSE 0)

LEMMA CompleteAfter ==
  ASSUME NEW queue \in Seq(Nat), Orderly(queue), NEW time \in Nat, NEW now \in Nat,
         Timely(queue, now, time),
         NEW after, after = Append(Pruned(queue, Cutoff(now)), now),
         NEW row, Complete(queue, row),
         NEW row2, OneMore(row, row2, now)
  PROVE  Complete(after, row2)
<1> SUFFICES ASSUME NEW t \in 0..MaxClock, Len(after) > 0 => t >= Cutoff(Latest(after))
             PROVE  Count(after, t) = row2[t]
  BY DEF Complete
<1>1. /\ after \in Seq(Nat) /\ Len(after) > 0
      /\ \A k \in 1..Len(after) : after[k] <= time
  BY OrderlyAfter
<1>2. /\ Latest(after) \in Nat
      /\ \A k \in 1..Len(after) : after[k] <= Latest(after)
  BY <1>1, LatestExists
<1>3. PICK cutoff \in Nat : cutoff = Cutoff(now) /\ cutoff <= now
  BY CutoffGrows
<1>4. PICK m \in 0..Len(queue) :
        /\ Pruned(queue, cutoff) = SubSeq(queue, m + 1, Len(queue))
        /\ \A i \in 1..m : queue[i] < cutoff
  BY PrunedIsSuffix
<1>5. PICK rest : rest = SubSeq(queue, m + 1, Len(queue))
  OBVIOUS
<1>6. rest \in Seq(Nat)
  <2>1. \A i \in (m + 1)..Len(queue) : queue[i] \in Nat
    OBVIOUS
  <2>2. m + 1 \in Int /\ Len(queue) \in Int
    OBVIOUS
  <2> QED  BY <1>5, <2>1, <2>2, SubSeqProperties
<1>7. after = Append(rest, now)
  BY <1>3, <1>4, <1>5
<1>8. /\ after[Len(rest) + 1] = now /\ Len(after) = Len(rest) + 1
      /\ \A k \in 1..Len(rest) : k \in 1..Len(after) /\ after[k] = rest[k]
  BY <1>6, <1>7
<1>9. now <= Latest(after)
  <2>1. Len(rest) + 1 \in 1..Len(after)
    BY <1>6, <1>8
  <2> QED  BY <1>2, <1>8, <2>1
<1>10. t \in Nat /\ cutoff <= t
  <2>1. cutoff <= Cutoff(Latest(after)) /\ Cutoff(Latest(after)) \in Nat
    BY <1>2, <1>3, <1>9, CutoffGrows
  <2> QED  BY <1>1, <1>3, <2>1, ClockBounds
<1>11. Count(after, t) = Count(rest, t) + (IF now = t THEN 1 ELSE 0)
  BY <1>6, <1>7, CountAppended
<1>12. Count(rest, t) = Count(queue, t)
  <2>1. \A i \in 1..m : queue[i] # t
    <3> SUFFICES ASSUME NEW i \in 1..m PROVE queue[i] # t
      OBVIOUS
    <3>1. queue[i] \in Nat /\ queue[i] < cutoff
      BY <1>4
    <3> QED  BY <1>10, <3>1
  <2> QED  BY <1>5, <2>1, CountSuffix
<1>13. Len(queue) > 0 => t >= Cutoff(Latest(queue))
  <2> SUFFICES ASSUME Len(queue) > 0 PROVE t >= Cutoff(Latest(queue))
    OBVIOUS
  <2>1. Latest(queue) \in Nat /\ \E k \in 1..Len(queue) : queue[k] = Latest(queue)
    BY LatestExists DEF Timely
  <2>2. PICK k \in 1..Len(queue) : queue[k] = Latest(queue)
    BY <2>1
  <2>3. Latest(queue) <= Latest(after)
    <3>1. CASE k \in 1..m
      <4>1. Latest(queue) < cutoff
        BY <1>4, <2>2, <3>1
      <4> QED  BY <1>2, <1>3, <1>9, <2>1, <4>1
    <3>2. CASE k \notin 1..m
      <4>1. k - m \in 1..Len(after) /\ after[k - m] = Latest(queue)
        <5>1. \A i \in (m + 1)..Len(queue) : queue[i] \in Nat
          OBVIOUS
        <5>2. m + 1 \in Int /\ Len(queue) \in Int /\ k - m \in 1..(Len(queue) - (m + 1) + 1)
          BY <3>2
        <5>3. /\ Len(rest) = Len(queue) - (m + 1) + 1
              /\ rest[k - m] = queue[(m + 1) + (k - m) - 1]
          BY <1>5, <5>1, <5>2, SubSeqProperties
        <5>4. (m + 1) + (k - m) - 1 = k
          OBVIOUS
        <5> QED  BY <1>8, <2>2, <5>2, <5>3, <5>4
      <4> QED  BY <1>2, <4>1
    <3> QED  BY <3>1, <3>2
  <2>4. /\ Cutoff(Latest(queue)) <= Cutoff(Latest(after))
        /\ Cutoff(Latest(queue)) \in Nat /\ Cutoff(Latest(after)) \in Nat
    <3>1. PICK a \in Nat, b \in Nat : a = Latest(queue) /\ b = Latest(after)
      BY <1>2, <2>1
    <3>2. a <= b
      BY <2>3, <3>1
    <3>3. Cutoff(a) \in Nat /\ Cutoff(b) \in Nat /\ Cutoff(a) <= Cutoff(b)
      BY <3>2, CutoffGrows
    <3> QED  BY <3>1, <3>3
  <2> QED  BY <1>1, <1>10, <2>4
<1>14. Count(queue, t) = row[t]
  BY <1>13 DEF Complete
<1> QED  BY <1>11, <1>12, <1>14 DEF OneMore

-----------------------------------------------------------------------------
(* The inductive invariant of the windows: a connection is about to        *)
(* observe no time that is older than the lag.                             *)
LagInv ==
  \A c \in Connections : Working(c, "velocity") =>
    conn[c].now <= clock /\ clock <= conn[c].now + MaxLag

ToldInv ==
  /\ told \in [Subjects -> [0..MaxClock -> Nat]]
  /\ \A s \in Subjects \ Tracked(velocity) : \A t \in 0..MaxClock : told[s][t] = 0

WindowOk(queue, row, time) ==
  /\ queue \in Seq(Nat) /\ Len(queue) > 0
  /\ \A k \in 1..Len(queue) : queue[k] <= time
  /\ Orderly(queue) /\ Complete(queue, row)

WindowInv ==
  /\ LagInv /\ ToldInv
  /\ \A s \in Tracked(velocity) : WindowOk(velocity.windows[s], told[s], clock)

LEMMA TrackedAreSubjects ==
  ASSUME NEW tracker, LruInv(tracker)
  PROVE  Tracked(tracker) \subseteq Subjects
BY DEF LruInv, Listed

LEMMA EmptyWindow ==
  ASSUME NEW row, \A t \in 0..MaxClock : row[t] = 0
  PROVE  /\ <<>> \in Seq(Nat) /\ Orderly(<<>>) /\ Complete(<<>>, row)
         /\ \A k \in 1..Len(<<>>) : <<>>[k] <= clock
<1>1. \A t : Count(<<>>, t) = 0
  <2>1. \A t : {k \in 1..Len(<<>>) : <<>>[k] = t} = {}
    BY NoneIsEmpty
  <2> QED  BY <2>1, FS_EmptySet DEF Count
<1> QED  BY <1>1, NoneIsEmpty DEF Orderly, Complete

LEMMA VelocityKeepsWindows ==
  ASSUME SightInv, TrackersInv, WindowInv, NEW c \in Connections, ObserveVelocity(c)
  PROVE  WindowInv'
<1>1. PICK subject, now : subject = Subject(conn[c].event) /\ now = conn[c].now
  OBVIOUS
<1>2. PICK gone : gone = Evicted(velocity, subject)
  OBVIOUS
<1>3. /\ conn[c].at = "velocity" /\ clock' = clock
      /\ velocity' = VelocityObserve(velocity, subject, now)
      /\ told' = [s \in Subjects |-> [t \in 0..MaxClock |->
                    (IF s \in gone THEN 0 ELSE told[s][t])
                      + (IF s = subject /\ t = now THEN 1 ELSE 0)]]
  BY <1>1, <1>2 DEF ObserveVelocity, Working
<1>4. subject \in Subjects /\ now \in Nat /\ clock \in Nat
  BY <1>1, <1>3, SubjectsOfConnections DEF SightInv, EvaluateInv
<1>5. now <= clock /\ clock <= now + MaxLag
  BY <1>1, <1>3 DEF WindowInv, LagInv, Working
<1>6. PICK queue : queue = IF subject \in Tracked(velocity) THEN velocity.windows[subject]
                           ELSE <<>>
  OBVIOUS
<1>7. PICK after : after = Append(Pruned(queue, Cutoff(now)), now)
  OBVIOUS
<1>8. /\ Tracked(velocity') = (Tracked(velocity) \ gone) \cup {subject}
      /\ velocity'.windows[subject] = after
      /\ \A s \in Tracked(velocity') \ {subject} : velocity'.windows[s] = velocity.windows[s]
  BY <1>2, <1>3, <1>4, <1>6, <1>7, VelocityLeaves DEF TrackersInv
<1>9. subject \notin gone
  <2>1. LruInv(velocity)
    BY DEF TrackersInv
  <2>2. gone = {} \/ (subject \notin Tracked(velocity) /\ gone = {Head(velocity.lru)}
                        /\ velocity.lru # <<>>)
    BY <1>2 DEF Evicted
  <2>3. velocity.lru # <<>> => Head(velocity.lru) \in Tracked(velocity)
    BY <2>1 DEF LruInv, Listed
  <2> QED  BY <2>2, <2>3
<1>10. LagInv'
  <2> SUFFICES ASSUME NEW d \in Connections, conn'[d].at = "velocity"
               PROVE  conn'[d].now <= clock /\ clock <= conn'[d].now + MaxLag
    BY <1>3 DEF LagInv, Working
  <2>1. d # c /\ conn'[d] = conn[d]
    <3>1. PICK step \in {"credstuff", "targets"} : Go(c, step)
      BY DEF ObserveVelocity
    <3> QED  BY <3>1, <1>3 DEF Go, SightInv, EvaluateInv
  <2> QED  BY <2>1 DEF WindowInv, LagInv, Working
<1>11. /\ told' \in [Subjects -> [0..MaxClock -> Nat]]
       /\ \A t \in 0..MaxClock : told'[subject][t] = told[subject][t] + (IF t = now THEN 1 ELSE 0)
       /\ \A s \in Subjects \ {subject} : \A t \in 0..MaxClock :
            told'[s][t] = IF s \in gone THEN 0 ELSE told[s][t]
  <2>1. \A s \in Subjects : \A t \in 0..MaxClock : told[s][t] \in Nat
    BY DEF WindowInv, ToldInv
  <2>2. ASSUME NEW s \in Subjects, NEW t \in 0..MaxClock
        PROVE  /\ told'[s][t] = (IF s \in gone THEN 0 ELSE told[s][t])
                                  + (IF s = subject /\ t = now THEN 1 ELSE 0)
               /\ told'[s][t] \in Nat
    BY <1>3, <2>1
  <2>3. told' \in [Subjects -> [0..MaxClock -> Nat]]
    BY <1>3, <2>1
  <2>4. ASSUME NEW t \in 0..MaxClock
        PROVE  told'[subject][t] = told[subject][t] + (IF t = now THEN 1 ELSE 0)
    BY <1>4, <1>9, <2>2
  <2>5. ASSUME NEW s \in Subjects \ {subject}, NEW t \in 0..MaxClock
        PROVE  told'[s][t] = IF s \in gone THEN 0 ELSE told[s][t]
    BY <2>1, <2>2
  <2> QED  BY <2>3, <2>4, <2>5
<1>12. ToldInv'
  <2> SUFFICES ASSUME NEW s \in Subjects, s \notin Tracked(velocity'), NEW t \in 0..MaxClock
               PROVE  told'[s][t] = 0
    BY <1>11 DEF ToldInv
  <2>1. s # subject /\ (s \in gone \/ s \notin Tracked(velocity))
    BY <1>8
  <2>2. s \notin Tracked(velocity) => told[s][t] = 0
    BY DEF WindowInv, ToldInv
  <2> QED  BY <1>11, <2>1, <2>2
<1>13. WindowOk(after, told'[subject], clock)
  <2>1. /\ queue \in Seq(Nat) /\ Orderly(queue) /\ Complete(queue, told[subject])
        /\ \A k \in 1..Len(queue) : queue[k] <= clock
    <3>1. CASE subject \in Tracked(velocity)
      BY <1>6, <3>1 DEF WindowInv, WindowOk
    <3>2. CASE subject \notin Tracked(velocity)
      <4>1. \A t \in 0..MaxClock : told[subject][t] = 0
        BY <1>4, <3>2 DEF WindowInv, ToldInv
      <4> QED  BY <1>6, <3>2, <4>1, EmptyWindow
    <3> QED  BY <3>1, <3>2
  <2>2. Timely(queue, now, clock)
    BY <1>5, <2>1 DEF Timely
  <2>3. /\ after \in Seq(Nat) /\ Len(after) > 0
        /\ \A k \in 1..Len(after) : after[k] <= clock
        /\ Orderly(after)
    BY <1>4, <1>7, <2>1, <2>2, OrderlyAfter
  <2>4. PICK row, row2 : row = told[subject] /\ row2 = told'[subject]
    OBVIOUS
  <2>5. Complete(after, row2)
    <3>1. OneMore(row, row2, now)
      BY <1>11, <2>4 DEF OneMore
    <3>2. Complete(queue, row)
      BY <2>1, <2>4
    <3> QED  BY <1>4, <1>7, <2>1, <2>2, <3>1, <3>2, CompleteAfter
  <2> QED  BY <2>3, <2>4, <2>5 DEF WindowOk
<1>14. ASSUME NEW s \in Tracked(velocity')
       PROVE  WindowOk(velocity'.windows[s], told'[s], clock)
  <2>1. CASE s = subject
    BY <1>8, <1>13, <2>1
  <2>2. CASE s # subject
    <3>1. s \in Tracked(velocity) /\ s \notin gone /\ velocity'.windows[s] = velocity.windows[s]
      BY <1>8, <2>2
    <3>2. s \in Subjects
      BY <3>1, TrackedAreSubjects DEF TrackersInv
    <3>3. told'[s] = told[s]
      <4>1. \A t \in 0..MaxClock : told'[s][t] = told[s][t]
        BY <1>11, <2>2, <3>1, <3>2
      <4>2. told[s] \in [0..MaxClock -> Nat] /\ told'[s] \in [0..MaxClock -> Nat]
        BY <1>11, <3>2 DEF WindowInv, ToldInv
      <4>3. /\ told[s] = [t \in 0..MaxClock |-> told[s][t]]
            /\ told'[s] = [t \in 0..MaxClock |-> told'[s][t]]
        BY <4>2
      <4> QED  BY <4>1, <4>3
    <3> QED  BY <3>1, <3>3 DEF WindowInv
  <2> QED  BY <2>1, <2>2
<1> QED  BY <1>3, <1>10, <1>12, <1>14 DEF WindowInv

LEMMA OthersKeepWindows ==
  ASSUME SightInv, WindowInv, UNCHANGED <<velocity, told>>, LagInv',
         clock' \in Nat, clock <= clock'
  PROVE  WindowInv'
<1>1. clock \in Nat
  BY DEF SightInv, EvaluateInv
<1>2. ToldInv'
  BY DEF WindowInv, ToldInv
<1>3. ASSUME NEW s \in Tracked(velocity)
      PROVE  WindowOk(velocity.windows[s], told[s], clock')
  <2>1. PICK queue : queue = velocity.windows[s]
    OBVIOUS
  <2>2. WindowOk(queue, told[s], clock)
    BY <2>1 DEF WindowInv
  <2>3. \A k \in 1..Len(queue) : queue[k] \in Nat /\ queue[k] <= clock
    BY <2>2 DEF WindowOk
  <2>4. \A k \in 1..Len(queue) : queue[k] <= clock'
    BY <1>1, <2>3
  <2> QED  BY <2>1, <2>2, <2>4 DEF WindowOk
<1> QED  BY <1>2, <1>3 DEF WindowInv

LEMMA LagKept ==
  ASSUME SightInv, WindowInv, NEW c \in Connections, clock' = clock,
         \A d \in Connections \ {c} : conn'[d] = conn[d],
         conn'[c].at # "velocity" \/ conn'[c].now = clock
  PROVE  LagInv'
<1> SUFFICES ASSUME NEW d \in Connections, conn'[d].at = "velocity"
             PROVE  conn'[d].now <= clock /\ clock <= conn'[d].now + MaxLag
  BY DEF LagInv, Working
<1>1. CASE d = c
  <2>1. clock \in Nat /\ MaxLag \in Nat /\ conn'[d].now = clock
    BY <1>1, ClockBounds DEF SightInv, EvaluateInv
  <2> QED  BY <2>1
<1>2. CASE d # c
  BY <1>2 DEF WindowInv, LagInv, Working
<1> QED  BY <1>1, <1>2

LEMMA EvaluateKeepsWindows ==
  ASSUME SightInv, TrackersInv, WindowInv, NEW c \in Connections, Evaluate(c)
  PROVE  WindowInv'
<1>0. conn \in [Connections -> {Idle} \cup Evaluations] /\ clock \in Nat
  BY DEF SightInv, EvaluateInv
<1>1. CASE ObserveVelocity(c)
  BY <1>1, VelocityKeepsWindows
<1>2. CASE Begin(c)
  <2>1. PICK state : conn' = [conn EXCEPT ![c] = state] /\ state.at # "velocity"
    <3>1. PICK e \in Events, new \in BOOLEAN :
            conn' = [conn EXCEPT ![c] =
              [at |-> IF new THEN "insert" ELSE "now", event |-> e, now |-> 0]]
      <4>1. PICK e \in Events : conn' = [conn EXCEPT ![c] =
              [at |-> IF e.resource # None /\ Key(e) \notin known THEN "insert" ELSE "now",
               event |-> e, now |-> 0]]
        BY <1>2 DEF Begin
      <4>2. PICK new \in BOOLEAN : new <=> (e.resource # None /\ Key(e) \notin known)
        OBVIOUS
      <4> QED  BY <4>1, <4>2
    <3>2. PICK state : state = [at |-> IF new THEN "insert" ELSE "now", event |-> e, now |-> 0]
      OBVIOUS
    <3>3. state.at # "velocity"
      BY <3>2
    <3> QED  BY <3>1, <3>2, <3>3
  <2>2. UNCHANGED <<clock, velocity, told>>
    BY <1>2 DEF Begin
  <2>3. LagInv'
    BY <1>0, <2>1, <2>2, LagKept
  <2> QED  BY <1>0, <2>2, <2>3, OthersKeepWindows
<1>3. CASE Insert(c) \/ ObserveFailure(c)
  <2>1. UNCHANGED <<clock, velocity, told>>
    BY <1>3 DEF Insert, ObserveFailure
  <2>2. PICK step \in {"now", "targets"} : Go(c, step)
    BY <1>3 DEF Insert, ObserveFailure
  <2>4. conn'[c].at = step /\ \A d \in Connections \ {c} : conn'[d] = conn[d]
    <3>1. conn[c] \in Evaluations
      <4>1. conn[c].at # "idle"
        BY <1>3 DEF Insert, ObserveFailure, Working
      <4> QED  BY <4>1, WorkingIsEvaluating DEF SightInv
    <3> QED  BY <1>0, <2>2, <3>1 DEF Go, Evaluations
  <2>5. LagInv'
    BY <2>1, <2>4, LagKept
  <2> QED  BY <1>0, <2>1, <2>5, OthersKeepWindows
<1>4. CASE ReadClock(c)
  <2>1. /\ UNCHANGED <<clock, velocity, told>> /\ conn[c].at = "now"
        /\ conn' = [conn EXCEPT ![c].at = "velocity", ![c].now = clock]
    BY <1>4 DEF ReadClock, Working
  <2>2. conn[c] \in Evaluations
    BY <2>1, WorkingIsEvaluating DEF SightInv
  <2>3. conn'[c].now = clock /\ \A d \in Connections \ {c} : conn'[d] = conn[d]
    BY <1>0, <2>1, <2>2 DEF Evaluations
  <2>4. LagInv'
    BY <2>1, <2>3, LagKept
  <2> QED  BY <1>0, <2>1, <2>4, OthersKeepWindows
<1>5. CASE ObserveTarget(c)
  <2>1. UNCHANGED <<clock, velocity, told>> /\ conn' = [conn EXCEPT ![c] = Idle]
    BY <1>5 DEF ObserveTarget
  <2>2. conn'[c].at # "velocity" /\ \A d \in Connections \ {c} : conn'[d] = conn[d]
    BY <1>0, <2>1 DEF Idle
  <2>3. LagInv'
    BY <2>1, <2>2, LagKept
  <2> QED  BY <1>0, <2>1, <2>3, OthersKeepWindows
<1> QED  BY <1>1, <1>2, <1>3, <1>4, <1>5 DEF Evaluate

(* The inductive invariant of the windows, on those of the connections and *)
(* of the trackers (trackers.rs:61-105, signal.rs:247-258).                *)
THEOREM WindowInvariant == DetectSpec => []WindowInv
<1>1. DetectInit => WindowInv
  <2> SUFFICES ASSUME DetectInit PROVE WindowInv
    OBVIOUS
  <2>1. Tracked(velocity) = {}
    BY NewTrackerIsSound DEF DetectInit
  <2>2. told = [s \in Subjects |-> [t \in 0..MaxClock |-> 0]]
    BY DEF DetectInit
  <2>3. LagInv
    BY DEF DetectInit, LagInv, Working, Idle
  <2>4. ToldInv
    BY <2>2 DEF ToldInv
  <2> QED  BY <2>1, <2>3, <2>4 DEF WindowInv
<1>2. SightInv /\ TrackersInv /\ WindowInv /\ [DetectNext]_detectvars => WindowInv'
  <2> SUFFICES ASSUME SightInv, TrackersInv, WindowInv, [DetectNext]_detectvars
               PROVE  WindowInv'
    OBVIOUS
  <2>1. CASE \E c \in Connections : Evaluate(c)
    BY <2>1, EvaluateKeepsWindows
  <2>2. CASE Pass
    <3>1. /\ UNCHANGED <<conn, velocity, told>> /\ clock' = clock + 1
          /\ \A c \in Connections : conn[c].at = "velocity" => clock < conn[c].now + MaxLag
      BY <2>2 DEF Pass, signalvars
    <3>2. clock \in Nat /\ MaxLag \in Nat
      BY ClockBounds DEF SightInv, EvaluateInv
    <3>3. LagInv'
      <4> SUFFICES ASSUME NEW c \in Connections, conn[c].at = "velocity"
                   PROVE  conn[c].now <= clock + 1 /\ clock + 1 <= conn[c].now + MaxLag
        BY <3>1 DEF LagInv, Working
      <4>1. conn[c].now \in Nat
        BY SubjectsOfConnections DEF SightInv
      <4>2. conn[c].now <= clock
        BY DEF WindowInv, LagInv, Working
      <4> QED  BY <3>1, <3>2, <4>1, <4>2
    <3> QED  BY <3>1, <3>2, <3>3, OthersKeepWindows
  <2>3. CASE UNCHANGED detectvars
    <3>1. UNCHANGED <<clock, conn, velocity, told>>
      BY <2>3 DEF detectvars, signalvars
    <3>2. LagInv' /\ clock' \in Nat /\ clock <= clock'
      BY <3>1 DEF WindowInv, LagInv, Working, SightInv, EvaluateInv
    <3> QED  BY <3>1, <3>2, OthersKeepWindows
  <2> QED  BY <2>1, <2>2, <2>3 DEF DetectNext
<1> QED  BY <1>1, <1>2, SightInvariant, TrackersInvariant, PTL DEF DetectSpec

(* trackers.rs:61-104: for any number of connections, any events, windows, *)
(* bounds and delays, a tracked subject is counted for everything it did   *)
(* in the window before its latest event, once each, and for nothing that  *)
(* is older than the window by more than the delay.                        *)
THEOREM WindowsStayExact == DetectSpec => []WindowsAreExact
<1>1. SightInv /\ WindowInv => WindowsAreExact
  <2> SUFFICES ASSUME SightInv, WindowInv, NEW s \in Tracked(velocity),
                      NEW queue, queue = velocity.windows[s]
               PROVE  /\ \A t \in Cutoff(LatestOf(s))..MaxClock : Queued(s, t) = told[s][t]
                      /\ \A k \in 1..Len(queue) : queue[k] + MaxLag >= Cutoff(queue[Len(queue)])
    BY DEF WindowsAreExact
  <2>1. WindowOk(queue, told[s], clock)
    BY DEF WindowInv
  <2>2. LatestOf(s) = Latest(queue) /\ \A t : Queued(s, t) = Count(queue, t)
    BY DEF LatestOf, Latest, Queued, Count
  <2>3. Latest(queue) \in Nat
    BY <2>1, LatestExists DEF WindowOk, SightInv, EvaluateInv
  <2>4. Cutoff(Latest(queue)) \in Nat
    BY <2>3, CutoffGrows
  <2>5. ASSUME NEW t \in Cutoff(Latest(queue))..MaxClock
        PROVE  Count(queue, t) = told[s][t]
    <3>1. t \in 0..MaxClock /\ t >= Cutoff(Latest(queue))
      BY <2>4, ClockBounds
    <3> QED  BY <2>1, <3>1 DEF WindowOk, Complete
  <2> QED  BY <2>1, <2>2, <2>5 DEF WindowOk, Orderly
<1> QED  BY <1>1, SightInvariant, WindowInvariant, PTL
=============================================================================
