----------------------------- MODULE IngestProofs -----------------------------
(***************************************************************************)
(* Proofs about the ingest path.  First EventModel: what the daemon's      *)
(* reading of an event has to do with the published schema and with what   *)
(* it stores; these facts are about all of Bodies, not about the handful a *)
(* run looks at.  Then Ingest, for any number of connections, frames,      *)
(* boots and any size of the audit segments.  A step of the server does    *)
(* one of few things to the stores behind it: it appends a record to the   *)
(* log, takes a commitment (kept, or lost with its segment), or ends the   *)
(* process.  Lemmas say what these do; then each part of the inductive     *)
(* invariant is taken through the actions.  Next, that the log and the     *)
(* chain in Ingest do what EvidenceLedger and AuditTrail promise, and last *)
(* what an exit or a failed write can cost: a second invariant says that   *)
(* no record is in two hands and none is committed twice.                  *)
(***************************************************************************)
EXTENDS Ingest, FiniteSetTheorems, WellFoundedInduction, TLAPS

(* The one field the types demand that the schema does not: the binding of *)
(* a lifecycle.                                                            *)
Binding == <<"lifecycle", "binding">>

BindingIsThere(e) ==
  e.part["lifecycle"] = "object" => e.field[Binding] # "absent"

-----------------------------------------------------------------------------
(* lib.rs:4, "types here mirror the schema": but for that binding, all the *)
(* schema admits is taken.                                                 *)
THEOREM SchemaIsAccepted ==
  ASSUME NEW e \in Bodies, Conforms(e), BindingIsThere(e)
  PROVE  Accepted(e)
<1>1. \A f \in Required : f = Binding \/ f \in SchemaRequired
  BY DEF Required, SchemaRequired, Binding, Of, Identity, Actors
<1>2. SchemaNullable \subseteq Optional
  BY DEF SchemaNullable, Optional, WrittenAsNull, Of, Actors
<1>3. Deserializes(e)
  <2>1. \A p \in RequiredParts : e.part[p] = "object"
    BY DEF Conforms
  <2>2. \A p \in OptionalParts : e.part[p] # "wrong"
    BY DEF Conforms
  <2>3. ASSUME NEW f \in Present(e)
        PROVE  /\ e.field[f] # "wrong"
               /\ e.field[f] = "absent" => f \notin Required
               /\ e.field[f] = "null" => f \in Optional
    BY <2>3, <1>1, <1>2 DEF Conforms, BindingIsThere, Present, Binding
  <2> QED  BY <2>1, <2>2, <2>3 DEF Deserializes
<1>4. Validates(e)
  <2>1. ASSUME NEW n \in Identity  PROVE Named(e.field[<<"event", n>>])
    <3>1. <<"event", n>> \in Fields /\ <<"event", n>> \in SchemaNamed
      BY DEF Fields, Required, SchemaNamed, Of, Identity
    <3>2. e.part["event"] = "object"
      BY DEF Conforms, RequiredParts
    <3>3. <<"event", n>> \in Present(e)
      BY <3>1, <3>2 DEF Present
    <3> QED  BY <3>1, <3>3 DEF Conforms, Named
  <2>2. ASSUME NEW a \in Actors, e.part[a] = "object"  PROVE Named(e.field[<<a, "id">>])
    <3>1. <<a, "id">> \in Fields /\ <<a, "id">> \in SchemaNamed
      BY DEF Fields, Optional, SchemaNamed, Of
    <3>2. <<a, "id">> \in Present(e)
      BY <2>2, <3>1 DEF Present
    <3> QED  BY <3>1, <3>2 DEF Conforms, Named
  <2>3. e.field[<<"trust", "confidence">>] # "illformed"
    <3>1. <<"trust", "confidence">> \in Fields
      BY DEF Fields, Required, Of
    <3>2. e.part["trust"] = "object"
      BY DEF Conforms, RequiredParts
    <3>3. <<"trust", "confidence">> \in Present(e)
      BY <3>1, <3>2 DEF Present
    <3> QED  BY <3>3 DEF Conforms
  <2> QED  BY <2>1, <2>2, <2>3 DEF Validates, Conforms
<1> QED  BY <1>3, <1>4 DEF Accepted

-----------------------------------------------------------------------------
(* How the stored fields relate to those of the body. *)
Corr == <<"causality", "customer_correlation_ids">>
Received == <<"event", "received_at">>

LEMMA StoredFields ==
  ASSUME NEW e \in Bodies, NEW f \in Fields
  PROVE  LET q == Canonical(e).field[f] IN
         /\ f = Received => q = "good"
         /\ f # Received =>
              \/ q = e.field[f] /\ q \notin {"absent", "null"}
              \/ q = "null" /\ f \in WrittenAsNull /\ e.field[f] \in {"absent", "null"}
              \/ q = "empty" /\ f = Corr /\ e.field[f] \in {"absent", "null"}
              \/ q = "absent" /\ f \notin WrittenAsNull /\ e.field[f] \in {"absent", "null"}
              \/ q = "absent" /\ f \in Lists /\ e.field[f] = "empty"
<1>1. Received \notin WrittenAsNull
  BY DEF Received, WrittenAsNull, Of
<1> QED  BY <1>1 DEF Canonical, Corr, Received

LEMMA StoredParts ==
  ASSUME NEW e \in Bodies
  PROVE  /\ \A p \in Parts : Canonical(e).part[p] =
                               IF e.part[p] = "object" THEN "object" ELSE "absent"
         /\ Present(Canonical(e)) = Present(e)
         /\ ~Canonical(e).extra
<1>1. \A p \in Parts : Canonical(e).part[p] = IF e.part[p] = "object" THEN "object" ELSE "absent"
  BY DEF Canonical
<1>2. \A f \in Fields : f[1] \in Parts
  BY DEF Fields, Required, Lists, Optional, WrittenAsNull, Of, Parts, RequiredParts, OptionalParts, Actors
<1>3. Present(Canonical(e)) = Present(e)
  BY <1>1, <1>2 DEF Present
<1> QED  BY <1>1, <1>3 DEF Canonical

(* What the schema admits is stored in a form the schema admits.           *)
THEOREM SchemaIsKept ==
  ASSUME NEW e \in Bodies, Conforms(e)
  PROVE  Conforms(Canonical(e))
<1>1. ~Canonical(e).extra
  BY StoredParts
<1>2. \A p \in RequiredParts : Canonical(e).part[p] = "object"
  BY StoredParts DEF Conforms, Parts
<1>3. \A p \in OptionalParts : Canonical(e).part[p] \in {"object", "absent"}
  BY StoredParts DEF Conforms, Parts
<1>4. WrittenAsNull \subseteq SchemaNullable
  BY DEF WrittenAsNull, SchemaNullable, Of
<1>5. SchemaRequired \cap SchemaNullable \subseteq WrittenAsNull
  BY DEF WrittenAsNull, SchemaNullable, SchemaRequired, Of, Identity, Actors
<1>6. SchemaRequired \cap Lists = {}
  BY DEF Lists, SchemaRequired, Of, Identity, Actors
<1>7. Corr \notin SchemaNamed /\ WrittenAsNull \cap SchemaNamed = {}
  BY DEF Corr, WrittenAsNull, SchemaNamed, Of, Identity, Actors
<1>8. ASSUME NEW f \in Present(e)
      PROVE  LET q == Canonical(e).field[f] IN
             /\ q \notin {"wrong", "illformed"}
             /\ q = "absent" => f \notin SchemaRequired
             /\ q = "null" => f \in SchemaNullable
             /\ f \in SchemaNamed => q \notin {"empty", "reserved"}
  <2>1. f \in Fields
    BY DEF Present
  <2>2. CASE f = Received
    BY <2>1, <2>2, StoredFields
  <2>3. CASE f # Received
    BY <2>1, <2>3, StoredFields, <1>4, <1>5, <1>6, <1>7 DEF Conforms
  <2> QED  BY <2>2, <2>3
<1>9. <<"authenticated_principal", "auth_ref">> \in Present(e)
        => Canonical(e).field[<<"authenticated_principal", "auth_ref">>] = "absent"
  <2> DEFINE a == <<"authenticated_principal", "auth_ref">>
  <2>1. a \in Fields /\ a # Received /\ a # Corr
    BY DEF Fields, Optional, Of, Received, Corr
  <2>2. a \notin WrittenAsNull
    BY DEF WrittenAsNull, Of
  <2> QED  BY <2>1, <2>2, StoredFields DEF Conforms
<1>10. Canonical(e).field[<<"event", "schema_version">>] = "good"
  <2>1. <<"event", "schema_version">> \in Fields
    BY DEF Fields, Required, Of
  <2> QED  BY <2>1, StoredFields DEF Conforms
<1> QED  BY <1>1, <1>2, <1>3, <1>8, <1>9, <1>10, StoredParts DEF Conforms

-----------------------------------------------------------------------------
LEMMA AcceptedFields ==
  ASSUME NEW e \in Bodies, Accepted(e), NEW f \in Present(e)
  PROVE  LET q == Canonical(e).field[f] IN
         /\ q = "wrong" => f \in Untyped
         /\ q = "absent" => f \notin Required
         /\ q = "null" => f \in Optional
<1>1. Required \cap Optional = {} /\ Required \cap Lists = {}
  BY DEF Required, Optional, WrittenAsNull, Lists, Of, Identity, Actors
<1>2. WrittenAsNull \subseteq Optional
  BY DEF Optional
<1>3. f \in Fields
  BY DEF Present
<1>4. Deserializes(e)
  BY DEF Accepted
<1> QED  BY <1>1, <1>2, <1>3, <1>4, StoredFields DEF Deserializes

LEMMA StoredIdentities ==
  ASSUME NEW e \in Bodies, Accepted(e)
  PROVE  /\ \A n \in Identity : Canonical(e).field[<<"event", n>>] \in {"illformed", "good"}
         /\ Canonical(e).field[<<"event", "schema_version">>] = "good"
         /\ Canonical(e).field[<<"trust", "confidence">>]
              \notin {"absent", "null", "wrong", "illformed"}
<1>1. Deserializes(e) /\ Validates(e)
  BY DEF Accepted
<1>2. Required \cap Optional = {} /\ Required \cap Lists = {} /\ Required \cap Untyped = {}
  BY DEF Required, Optional, WrittenAsNull, Lists, Untyped, Of, Identity, Actors
<1>3. ASSUME NEW f \in Present(e), f \in Required, f # Received
      PROVE  /\ Canonical(e).field[f] = e.field[f]
             /\ e.field[f] \in Qualities \ {"absent", "null", "wrong"}
  <2>1. f \in Fields /\ e.field[f] \in Qualities
    BY DEF Bodies, Present
  <2>2. e.field[f] \notin {"absent", "null", "wrong"}
    BY <1>1, <1>2, <1>3 DEF Deserializes
  <2>3. f \notin Lists
    BY <1>2, <1>3
  <2> QED  BY <2>1, <2>2, <2>3, <1>3, StoredFields
<1>4. ASSUME NEW n \in Identity
      PROVE  Canonical(e).field[<<"event", n>>] \in {"illformed", "good"}
  <2> DEFINE f == <<"event", n>>
  <2>1. f \in Fields /\ f \in Required
    BY DEF Fields, Required, Of
  <2>2. f \in Present(e)
    BY <2>1, <1>1 DEF Present, Deserializes, RequiredParts
  <2>3. CASE f = Received
    BY <2>1, <2>3, StoredFields
  <2>4. CASE f # Received
    <3>1. e.field[f] \notin {"empty", "reserved"}
      BY <1>1 DEF Validates, Named
    <3> QED  BY <2>1, <2>2, <2>4, <1>3, <3>1 DEF Qualities
  <2> QED  BY <2>3, <2>4
<1>5. ASSUME NEW f \in {<<"event", "schema_version">>, <<"trust", "confidence">>}
      PROVE  f \in Present(e) /\ f \in Required /\ f # Received
  BY <1>1 DEF Present, Deserializes, RequiredParts, Fields, Required, Of, Received
<1> QED  BY <1>3, <1>4, <1>5, <1>1 DEF Validates

LEMMA StoredActors ==
  ASSUME NEW e \in Bodies, Accepted(e), NEW a \in Actors, Canonical(e).part[a] = "object"
  PROVE  Canonical(e).field[<<a, "id">>] \in {"absent", "illformed", "good"}
<1> DEFINE f == <<a, "id">>
<1>1. f \in Fields /\ f # Received /\ f # Corr /\ f \notin WrittenAsNull /\ f \notin Untyped
  BY DEF Fields, Optional, Of, Received, Corr, WrittenAsNull, Untyped, Actors
<1>2. e.part[a] = "object"
  BY StoredParts DEF Parts, OptionalParts
<1>3. f \in Present(e)
  BY <1>1, <1>2 DEF Present
<1>4. e.field[f] \in Qualities
  BY <1>1 DEF Bodies
<1>5. e.field[f] \notin {"wrong", "empty", "reserved"}
  BY <1>1, <1>2, <1>3 DEF Accepted, Deserializes, Validates, Named
<1> QED  BY <1>1, <1>4, <1>5, StoredFields DEF Qualities

(* MOD-7 (lib.rs:8-10): whatever the body was, what is stored of it names  *)
(* an identity or none, never a stand-in for one, and its confidence can   *)
(* be used as one.                                                         *)
THEOREM StoredIsGenuine ==
  ASSUME NEW e \in Bodies, Accepted(e)
  PROVE  Genuine(Canonical(e))
BY StoredIdentities, StoredActors DEF Genuine

(* What is stored would be taken again: the evidence can be read back with *)
(* the types that wrote it.                                                *)
THEOREM StoredIsAccepted ==
  ASSUME NEW e \in Bodies, Accepted(e)
  PROVE  Accepted(Canonical(e))
<1>1. Deserializes(Canonical(e))
  <2>1. \A p \in RequiredParts : Canonical(e).part[p] = "object"
    BY StoredParts DEF Accepted, Deserializes, Parts
  <2>2. \A p \in OptionalParts : Canonical(e).part[p] # "wrong"
    BY StoredParts DEF Parts
  <2> QED  BY <2>1, <2>2, AcceptedFields, StoredParts DEF Deserializes
<1>2. Validates(Canonical(e))
  BY StoredIdentities, StoredActors DEF Validates, Named
<1> QED  BY <1>1, <1>2 DEF Accepted

-----------------------------------------------------------------------------
Kept == sealed \cup pending \cup aside \cup expired \cup lost

(* No record vanishes without a trace. *)
Everywhere == 1..Len(written) \subseteq Kept

(* What is committed, or about to be, has been written. *)
Referenced ==
  /\ \A k \in 1..Len(commitments) : commitments[k] \in 1..Len(written) \cup {NoRecord}
  /\ \A c \in Connections : conn[c].at = "audit" => conn[c].rec \in 1..Len(written)
  /\ \A e \in Emitters : emitter[e].at = "audit" => emitter[e].rec \in 1..Len(written) \cup {NoRecord}

(* An emitter has what it took from the counters until it is done, and the *)
(* shutdown takes nothing before there is one.                             *)
Emitting ==
  /\ \A e \in Emitters :
       /\ emitter[e].at \in {"no", "take"} => emitter[e].frames = {}
       /\ emitter[e].at # "audit" => emitter[e].rec = NoRecord
  /\ daemon \in {"down", "up"} => emitter["shutdown"].at = "no"

(* A frame on its way into the log was taken for an event. *)
LooksGood(f) == f \in Frames \ Queries /\ Accepted(Body[f])

Checked == \A c \in Connections : conn[c].at \notin {"closed", "idle"} => LooksGood(conn[c].frame)

(* A frame on its way to its answer has left its traces. *)
Spoken(f) ==
  \E k \in 1..Len(commitments) : commitments[k] # NoRecord /\ written[commitments[k]].frames = {f}

Traced ==
  \A c \in Connections :
    /\ conn[c].at = "audit" => written[conn[c].rec].frames = {conn[c].frame}
    /\ conn[c].at \in {"decide", "respond"} => Spoken(conn[c].frame)
    /\ conn[c].at = "respond" => conn[c].frame \in decisions \cup unsaved

IngestInv ==
  /\ IngestTypeOK /\ Everywhere /\ Referenced /\ CommitmentsKeepUp
  /\ Emitting /\ DropsAreReported
  /\ Checked /\ EvidenceIsGenuine
  /\ Traced /\ AnsweredIsRecorded

-----------------------------------------------------------------------------
Entry == [kind : {"event", "gap"}, frames : SUBSET Frames]

LEMMA AppendFacts ==
  ASSUME NEW S, NEW s \in Seq(S), NEW x \in S
  PROVE  /\ Append(s, x) \in Seq(S)
         /\ Len(s) \in Nat /\ Len(Append(s, x)) = Len(s) + 1
         /\ \A n \in 1..Len(s) : Append(s, x)[n] = s[n]
         /\ Append(s, x)[Len(s) + 1] = x
OBVIOUS

LEMMA LogFacts ==
  ASSUME IngestTypeOK, Everywhere, NEW kind \in {"event", "gap"}, NEW F \in SUBSET Frames,
         LogAppend(kind, F)
  PROVE  /\ Len(written) \in Nat /\ Len(written') = Len(written) + 1
         /\ written' \in Seq(Entry)
         /\ \A n \in 1..Len(written) : written'[n] = written[n]
         /\ written'[NewRecord] = [kind |-> kind, frames |-> F]
         /\ NewRecord \in 1..Len(written')
         /\ (sealed \cup pending \cup aside \cup expired \cup lost)' \subseteq 1..Len(written')
         /\ Everywhere'
<1> DEFINE x == [kind |-> kind, frames |-> F]
<1>1. written \in Seq(Entry) /\ x \in Entry
  BY DEF IngestTypeOK, Entry
<1>2. written' = Append(written, x)
  BY DEF LogAppend
<1> HIDE DEF x
<1>3. /\ written' \in Seq(Entry)
      /\ Len(written) \in Nat /\ Len(written') = Len(written) + 1
      /\ \A n \in 1..Len(written) : written'[n] = written[n]
      /\ written'[Len(written) + 1] = x
  BY <1>1, <1>2, AppendFacts
<1>4. 1..Len(written') = 1..Len(written) \cup {Len(written) + 1}
  BY <1>3
<1>5. sealed' \cup pending' = sealed \cup pending \cup {NewRecord}
  BY DEF LogAppend
<1>6. Everywhere'
  BY <1>4, <1>5 DEF Everywhere, Kept, LogAppend, NewRecord
<1>7. (sealed \cup pending \cup aside \cup expired \cup lost)' \subseteq 1..Len(written')
  BY <1>4, <1>5 DEF IngestTypeOK, LogAppend, NewRecord
<1> QED  BY <1>3, <1>4, <1>6, <1>7 DEF NewRecord, x

(* A commitment: kept in memory, written with its segment, or lost with it. *)
LEMMA CommitFacts ==
  ASSUME IngestTypeOK, NEW rec \in Nat \cup {NoRecord},
         AuditObserve(rec) \/ AuditObserveFails(rec)
  PROVE  /\ Len(commitments) \in Nat /\ Len(commitments') = Len(commitments) + 1
         /\ commitments' \in Seq(Nat \cup {NoRecord})
         /\ \A k \in 1..Len(commitments) : commitments'[k] = commitments[k]
         /\ commitments'[NewCommitment] = rec
         /\ (persisted \cup batch)' \subseteq 1..Len(commitments')
<1>1. commitments \in Seq(Nat \cup {NoRecord}) /\ commitments' = Append(commitments, rec)
  BY DEF IngestTypeOK, AuditObserve, AuditObserveFails
<1>2. /\ commitments' \in Seq(Nat \cup {NoRecord})
      /\ Len(commitments) \in Nat /\ Len(commitments') = Len(commitments) + 1
      /\ \A k \in 1..Len(commitments) : commitments'[k] = commitments[k]
      /\ commitments'[Len(commitments) + 1] = rec
  BY <1>1, AppendFacts
<1>3. (persisted \cup batch)' \subseteq persisted \cup batch \cup {NewCommitment}
  BY DEF AuditObserve, AuditObserveFails, Trail!Lose
<1>4. 1..Len(commitments') = 1..Len(commitments) \cup {NewCommitment}
  BY <1>2 DEF NewCommitment
<1> QED  BY <1>2, <1>3, <1>4 DEF NewCommitment, IngestTypeOK

(* Either way no other record is left without its commitment unnoticed.    *)
LEMMA CommitKeepsUp ==
  ASSUME IngestTypeOK, NEW rec \in Nat \cup {NoRecord}, UNCHANGED written,
         \/ AuditObserve(rec) /\ UNCHANGED orphans
         \/ AuditObserveFails(rec)
  PROVE  /\ orphans \subseteq orphans'
         /\ Uncommitted' \subseteq (Uncommitted \ {rec}) \cup orphans'
<1>1. /\ Len(commitments) \in Nat
      /\ \A k \in 1..Len(commitments) : commitments'[k] = commitments[k]
      /\ commitments'[NewCommitment] = rec
  BY CommitFacts
<1>2. persisted \cup batch \subseteq 1..Len(commitments) /\ Len(written) \in Nat
  BY DEF IngestTypeOK
<1>3. CASE AuditObserve(rec) /\ UNCHANGED orphans
  <2>1. (persisted \cup batch)' = persisted \cup batch \cup {NewCommitment}
    BY <1>3 DEF AuditObserve
  <2> QED  BY <1>1, <1>2, <1>3, <2>1 DEF Uncommitted
<1>4. CASE AuditObserveFails(rec)
  <2>1. persisted' = persisted /\ batch' = {}
    BY <1>4 DEF AuditObserveFails, Trail!Lose
  <2>2. orphans' = orphans \cup (({rec} \cup About(batch)) \ {NoRecord})
    BY <1>4 DEF AuditObserveFails
  <2>3. ASSUME NEW n \in Uncommitted'  PROVE n \in (Uncommitted \ {rec}) \cup orphans'
    <3>1. n \in 1..Len(written) /\ n # NoRecord
      BY <2>3, <1>2, RecordsAreNumbers DEF Uncommitted
    <3>2. CASE n = rec \/ n \in About(batch)
      BY <3>1, <3>2, <2>2
    <3>3. CASE n # rec /\ n \notin About(batch)
      BY <3>1, <3>3, <2>1, <2>3, <1>1, <1>2 DEF Uncommitted, About
    <3> QED  BY <3>2, <3>3
  <2> QED  BY <2>2, <2>3
<1> QED  BY <1>3, <1>4

(* Whatever ends the process, no record vanishes, nothing stays in memory  *)
(* and what is left without a commitment is noted.                         *)
Ending == Crash \/ PowerFailure \/ StillBorrowed \/ CloseLog

LEMMA EndFacts ==
  ASSUME IngestTypeOK, Everywhere, Ending
  PROVE  /\ IngestTypeOK' /\ Everywhere'
         /\ daemon' = "down" /\ unreported' = {}
         /\ \A e \in Emitters : emitter'[e] = NotEmitting
         /\ \A c \in Connections : conn'[c] = Closed
         /\ Uncommitted' \subseteq orphans'
         /\ UNCHANGED <<written, commitments, answered>>
         /\ decisions \cup unsaved \subseteq decisions' \cup unsaved'
<1>1. Gone
  BY DEF Ending, Crash, PowerFailure, StillBorrowed, CloseLog, LeaveOpen
<1>2. /\ UNCHANGED <<written, expired, commitments, answered, sent>>
      /\ persisted' = persisted /\ batch' = {}
  BY <1>1 DEF Gone, Trail!Lose
<1>3. (sealed \cup pending \cup aside \cup expired \cup lost)' = Kept
  <2>1. CASE Crash \/ StillBorrowed
    BY <1>2, <2>1 DEF Kept, Crash, StillBorrowed, LeaveOpen, Ledger!SetAside
  <2>2. CASE PowerFailure
    BY <1>2, <2>2 DEF Kept, PowerFailure, Ledger!SetAside
  <2>3. CASE CloseLog
    BY <1>2, <2>3 DEF Kept, CloseLog, Ledger!Seal
  <2> QED  BY <2>1, <2>2, <2>3 DEF Ending
<1>4. /\ decisions' \cup unsaved' \subseteq decisions \cup unsaved
      /\ signals' \subseteq signals
      /\ decisions \cup unsaved \subseteq decisions' \cup unsaved'
  BY DEF Ending, Crash, PowerFailure, StillBorrowed, CloseLog, LeaveOpen, LoseDecisions
<1>5. /\ daemon' = "down" /\ l4' = FALSE /\ drops' = {} /\ unreported' = {}
      /\ emitter' = [e \in Emitters |-> NotEmitting]
      /\ conn' = [c \in Connections |-> Closed]
  BY <1>1 DEF Gone
<1>6. IngestTypeOK'
  BY <1>2, <1>3, <1>4, <1>5 DEF IngestTypeOK, Kept, NotEmitting, Closed, GapSteps, Steps
<1>7. Everywhere'
  BY <1>2, <1>3 DEF Everywhere, Kept
<1>8. Uncommitted' \subseteq orphans'
  BY <1>1, <1>2 DEF Gone, Uncommitted
<1> QED  BY <1>2, <1>4, <1>5, <1>6, <1>7, <1>8

-----------------------------------------------------------------------------
(* Steps that leave the records where they are, or close their segment,    *)
(* and do not touch the audit chain.                                       *)
LEMMA StoresSame ==
  ASSUME Everywhere, EvidenceIsGenuine, UNCHANGED <<written, audit>>, Kept' = Kept
  PROVE  /\ Everywhere' /\ EvidenceIsGenuine'
         /\ Uncommitted' = Uncommitted
         /\ \A f : Spoken(f)' = Spoken(f)
BY DEF Everywhere, EvidenceIsGenuine, Uncommitted, Spoken, audit

LEMMA RefusalFacts ==
  ASSUME LogRefuses
  PROVE  Kept' = Kept /\ UNCHANGED written
BY DEF LogRefuses, Kept, Ledger!Seal, Ledger!SetAside

LEMMA InitHolds == IngestInit => IngestInv
<1> SUFFICES ASSUME IngestInit  PROVE IngestInv
  OBVIOUS
<1>1. Len(written) = 0 /\ Len(commitments) = 0
  BY DEF IngestInit
<1>2. IngestTypeOK
  <2>1. <<>> \in Seq(Entry) /\ <<>> \in Seq(Nat \cup {NoRecord})
    OBVIOUS
  <2>2. /\ emitter \in [Emitters -> [at : GapSteps, frames : SUBSET Frames, rec : Nat \cup {NoRecord}]]
        /\ conn \in [Connections -> [at : Steps, frame : Frames \cup {NoFrame}, rec : Nat \cup {NoRecord}]]
    BY DEF IngestInit, NotEmitting, Closed, GapSteps, Steps
  <2> QED  BY <2>1, <2>2 DEF IngestInit, IngestTypeOK, Entry
<1>3. Everywhere /\ EvidenceIsGenuine /\ CommitmentsKeepUp
  BY <1>1 DEF IngestInit, Everywhere, EvidenceIsGenuine, CommitmentsKeepUp, Uncommitted
<1>4. Referenced /\ Emitting /\ Checked /\ Traced
  BY <1>1 DEF IngestInit, Referenced, Emitting, Checked, Traced, NotEmitting, Closed, Emitters
<1>5. DropsAreReported /\ AnsweredIsRecorded
  BY DEF IngestInit, DropsAreReported, AnsweredIsRecorded
<1> QED  BY <1>2, <1>3, <1>4, <1>5 DEF IngestInv

(* The steps of a connection that only move its frame on. *)
Moved(c) ==
  Connect(c) \/ Disconnect(c) \/ Drop(c) \/ Receive(c) \/ Refused(c) \/ Decide(c) \/ Respond(c)

LEMMA MovedKeepsTypes ==
  ASSUME IngestTypeOK, Checked, NEW c \in Connections, Moved(c)
  PROVE  IngestTypeOK' /\ Kept' = Kept /\ UNCHANGED <<written, audit, daemon, emitter, orphans>>
<1>1. CASE Connect(c)
  BY <1>1 DEF IngestTypeOK, Connect, Idle, Steps, log, Kept, audit, served, counters
<1>2. CASE Disconnect(c)
  BY <1>2 DEF IngestTypeOK, Disconnect, Closed, Steps, log, Kept, audit, served, counters
<1>3. CASE Drop(c)
  BY <1>3 DEF IngestTypeOK, Drop, log, Kept, audit, served
<1>4. CASE Receive(c)
  BY <1>4 DEF IngestTypeOK, Receive, Steps, log, Kept, audit, served, counters
<1>5. CASE Refused(c)
  <2>1. Kept' = Kept /\ UNCHANGED written
    BY <1>5, RefusalFacts DEF Refused
  <2> QED  BY <1>5, <2>1 DEF IngestTypeOK, Kept, Refused, Idle, Steps, audit, served, counters
<1>6. CASE Decide(c)
  <2>1. conn[c].frame \in Frames
    BY <1>6 DEF Decide, Checked, LooksGood
  <2>2. decisions' \cup signals' \cup answered' \cup unsaved' \subseteq Frames
    BY <1>6, <2>1 DEF Decide, WriteSignals, WriteDecision, IngestTypeOK
  <2>3. conn' \in [Connections -> [at : Steps, frame : Frames \cup {NoFrame}, rec : Nat \cup {NoRecord}]]
    BY <1>6, <2>1 DEF Decide, AfterDecision, IngestTypeOK, Idle, Steps
  <2>4. UNCHANGED <<log, audit, daemon, l4, counters, emitter, sent, orphans, boots>>
    BY <1>6 DEF Decide
  <2> QED  BY <2>2, <2>3, <2>4 DEF IngestTypeOK, Kept, log, audit, counters
<1>7. CASE Respond(c)
  BY <1>7 DEF IngestTypeOK, Checked, LooksGood, Respond, Idle, Steps, log, Kept, audit, served, counters
<1> QED  BY <1>1, <1>2, <1>3, <1>4, <1>5, <1>6, <1>7 DEF Moved

LEMMA MovedKeepsInv ==
  ASSUME IngestInv, NEW c \in Connections, Moved(c)
  PROVE  IngestInv'
<1>1. IngestTypeOK' /\ Kept' = Kept /\ UNCHANGED <<written, audit, daemon, emitter, orphans>>
  BY MovedKeepsTypes DEF IngestInv
<1>2. /\ Everywhere' /\ EvidenceIsGenuine' /\ Uncommitted' = Uncommitted
      /\ \A f : Spoken(f)' = Spoken(f)
  BY <1>1, StoresSame DEF IngestInv
<1> DEFINE hops == {<<"closed", "idle">>, <<"idle", "closed">>, <<"idle", "idle">>,
                   <<"idle", "log">>, <<"log", "idle">>, <<"decide", "idle">>,
                   <<"decide", "respond">>, <<"respond", "idle">>}
<1>3. /\ \A d \in Connections \ {c} : conn'[d] = conn[d]
      /\ <<conn[c].at, conn'[c].at>> \in hops
      /\ conn'[c].at = "log" => LooksGood(conn'[c].frame)
      /\ conn'[c].at = "respond" => /\ conn'[c].frame = conn[c].frame
                                    /\ conn[c].frame \in decisions' \cup unsaved'
      /\ decisions \cup unsaved \subseteq decisions' \cup unsaved'
      /\ answered' \subseteq answered
           \cup (IF conn[c].at = "respond" THEN {conn[c].frame} ELSE {})
  <2> USE DEF IngestInv, IngestTypeOK, served
  <2>1. CASE Connect(c)
    BY <2>1 DEF Connect, Closed, Idle
  <2>2. CASE Disconnect(c)
    BY <2>2 DEF Disconnect, Closed, Idle
  <2>3. CASE Drop(c)
    BY <2>3 DEF Drop, Idle
  <2>4. CASE Receive(c)
    BY <2>4 DEF Receive, Idle, LooksGood
  <2>5. CASE Refused(c)
    BY <2>5 DEF Refused, Idle
  <2>6. CASE Decide(c)
    BY <2>6 DEF Decide, WriteDecision, AfterDecision, Idle
  <2>7. CASE Respond(c)
    BY <2>7 DEF Respond, Idle
  <2> QED  BY <2>1, <2>2, <2>3, <2>4, <2>5, <2>6, <2>7 DEF Moved
<1>4. /\ unreported' \subseteq unreported \cup drops'
      /\ drops \subseteq drops'
  BY DEF Moved, Connect, Disconnect, Drop, Receive, Refused, Decide, Respond, counters
<1> HIDE DEF Moved
<1>5. Referenced'
  BY <1>1, <1>3 DEF IngestInv, Referenced, audit
<1>6. InFlight' = InFlight
  BY <1>1, <1>3 DEF InFlight
<1>7. CommitmentsKeepUp'
  BY <1>1, <1>2, <1>6 DEF IngestInv, CommitmentsKeepUp
<1>8. Emitting'
  BY <1>1 DEF IngestInv, Emitting
<1>9. DropsAreReported'
  BY <1>1, <1>4 DEF IngestInv, DropsAreReported
<1>10. Checked'
  BY <1>1, <1>3 DEF IngestInv, Checked, LooksGood
<1>11. Traced'
  BY <1>1, <1>2, <1>3 DEF IngestInv, Traced
<1>12. AnsweredIsRecorded'
  <2>1. ASSUME NEW f \in answered'
        PROVE  f \in decisions' \cup unsaved' /\ Spoken(f)
    BY <2>1, <1>3 DEF IngestInv, AnsweredIsRecorded, Traced, Spoken
  <2> QED  BY <2>1, <1>1 DEF AnsweredIsRecorded, Spoken, audit
<1> QED
  BY <1>1, <1>2, <1>5, <1>7, <1>8, <1>9, <1>10, <1>11, <1>12 DEF IngestInv

(* A frame's record goes into the log. *)
LEMMA AppendedKeepsInv ==
  ASSUME IngestInv, NEW c \in Connections, Appended(c)
  PROVE  IngestInv'
<1> DEFINE f == conn[c].frame
<1>1. /\ IngestTypeOK /\ Everywhere /\ conn[c].at = "log" /\ LooksGood(f) /\ f \in Frames
      /\ LogAppend("event", {f})
      /\ UNCHANGED <<audit, served, daemon, l4, counters, emitter, sent, orphans>>
  BY DEF IngestInv, Checked, Appended, LooksGood
<1>2. /\ Len(written) \in Nat /\ Len(written') = Len(written) + 1
      /\ written' \in Seq(Entry)
      /\ \A n \in 1..Len(written) : written'[n] = written[n]
      /\ written'[NewRecord] = [kind |-> "event", frames |-> {f}]
      /\ NewRecord \in 1..Len(written')
      /\ (sealed \cup pending \cup aside \cup expired \cup lost)' \subseteq 1..Len(written')
      /\ Everywhere'
  BY <1>1, LogFacts
<1>3. /\ conn' \in [Connections -> [at : Steps, frame : Frames \cup {NoFrame}, rec : Nat \cup {NoRecord}]]
      /\ conn'[c].at = "audit" /\ conn'[c].frame = f /\ conn'[c].rec = NewRecord
      /\ \A d \in Connections \ {c} : conn'[d] = conn[d]
  <2>1. /\ conn \in [Connections -> [at : Steps, frame : Frames \cup {NoFrame}, rec : Nat \cup {NoRecord}]]
        /\ "audit" \in Steps /\ NewRecord \in Nat
    BY <1>1, <1>2 DEF IngestTypeOK, Steps, NewRecord
  <2> QED  BY <1>1, <2>1 DEF Appended
<1>4. 1..Len(written') = 1..Len(written) \cup {NewRecord}
  BY <1>2 DEF NewRecord
<1>5. IngestTypeOK'
  BY <1>1, <1>2, <1>3 DEF IngestTypeOK, audit, served, counters, Entry
<1>6. Referenced'
  BY <1>1, <1>3, <1>4 DEF IngestInv, Referenced, audit
<1>7. CommitmentsKeepUp'
  <2>1. Uncommitted' \subseteq Uncommitted \cup {NewRecord}
    BY <1>1, <1>4 DEF Uncommitted, audit
  <2>2. InFlight \cup {NewRecord} \subseteq InFlight'
    BY <1>1, <1>3 DEF InFlight
  <2> QED  BY <1>1, <2>1, <2>2 DEF IngestInv, CommitmentsKeepUp
<1>8. Emitting' /\ DropsAreReported'
  BY <1>1 DEF IngestInv, Emitting, DropsAreReported, counters
<1>9. Checked'
  BY <1>1, <1>3 DEF IngestInv, Checked, LooksGood
<1>10. EvidenceIsGenuine'
  <2>1. f \notin Queries /\ Genuine(Canonical(Body[f])) /\ Accepted(Canonical(Body[f]))
    BY <1>1, FrameBodies, StoredIsGenuine, StoredIsAccepted DEF LooksGood
  <2> QED  BY <1>2, <1>4, <2>1 DEF IngestInv, EvidenceIsGenuine
<1>11. \A g : Spoken(g) => Spoken(g)'
  BY <1>1, <1>2 DEF IngestInv, Referenced, Spoken, audit
<1>12. Traced'
  BY <1>1, <1>2, <1>3, <1>11 DEF IngestInv, Traced, Referenced, served
<1>13. AnsweredIsRecorded'
  BY <1>1, <1>11 DEF IngestInv, AnsweredIsRecorded, Spoken, served
<1> QED
  BY <1>2, <1>5, <1>6, <1>7, <1>8, <1>9, <1>10, <1>12, <1>13 DEF IngestInv

(* A frame's commitment is taken, or lost with the segment it fills. *)
LEMMA CommittedKeepsInv ==
  ASSUME IngestInv, NEW c \in Connections, Commit(c) \/ CommitFails(c)
  PROVE  IngestInv'
<1> DEFINE f == conn[c].frame
<1> DEFINE rec == conn[c].rec
<1>1. /\ IngestTypeOK /\ conn[c].at = "audit" /\ rec \in 1..Len(written) /\ rec \in Nat
      /\ Len(written) \in Nat /\ rec # NoRecord /\ written[rec].frames = {f}
      /\ UNCHANGED <<log, served, daemon, l4, counters, emitter, sent>>
  BY RecordsAreNumbers DEF IngestInv, IngestTypeOK, Referenced, Traced, Commit, CommitFails
<1>2. \/ AuditObserve(rec) /\ UNCHANGED orphans
      \/ AuditObserveFails(rec)
  BY DEF Commit, CommitFails
<1>3. /\ Len(commitments) \in Nat /\ Len(commitments') = Len(commitments) + 1
      /\ commitments' \in Seq(Nat \cup {NoRecord})
      /\ \A k \in 1..Len(commitments) : commitments'[k] = commitments[k]
      /\ commitments'[NewCommitment] = rec
      /\ (persisted \cup batch)' \subseteq 1..Len(commitments')
  BY <1>1, <1>2, CommitFacts
<1>4. /\ orphans \subseteq orphans'
      /\ Uncommitted' \subseteq (Uncommitted \ {rec}) \cup orphans'
  BY <1>1, <1>2, CommitKeepsUp DEF log
<1>5. /\ conn' \in [Connections -> [at : Steps, frame : Frames \cup {NoFrame}, rec : Nat \cup {NoRecord}]]
      /\ \/ conn'[c].at = "decide" /\ conn'[c].frame = f
         \/ conn'[c] = Idle
      /\ \A d \in Connections \ {c} : conn'[d] = conn[d]
  <2>1. conn \in [Connections -> [at : Steps, frame : Frames \cup {NoFrame}, rec : Nat \cup {NoRecord}]]
    BY <1>1 DEF IngestTypeOK
  <2>2. CASE Commit(c)
    BY <2>1, <2>2 DEF Commit, Steps
  <2>3. CASE CommitFails(c)
    BY <2>1, <2>3 DEF CommitFails, Steps, Idle
  <2> QED  BY <2>2, <2>3
<1>6. 1..Len(commitments') = 1..Len(commitments) \cup {NewCommitment}
  BY <1>3 DEF NewCommitment
<1>7. IngestTypeOK'
  BY <1>1, <1>3, <1>5 DEF IngestTypeOK, log, served, counters
<1>8. Everywhere' /\ EvidenceIsGenuine' /\ Emitting' /\ DropsAreReported'
  BY <1>1 DEF IngestInv, Everywhere, Kept, EvidenceIsGenuine, Emitting, DropsAreReported, log, counters
<1>9. Referenced'
  <2>1. \A k \in 1..Len(commitments') : commitments'[k] \in 1..Len(written) \cup {NoRecord}
    BY <1>1, <1>3, <1>6 DEF IngestInv, Referenced
  <2>2. \A d \in Connections : conn'[d].at = "audit" => conn'[d] = conn[d]
    BY <1>5 DEF Idle
  <2>3. UNCHANGED <<written, emitter>>
    BY <1>1 DEF log, counters
  <2> QED  BY <2>1, <2>2, <2>3 DEF IngestInv, Referenced
<1>10. CommitmentsKeepUp'
  <2>1. InFlight \ {rec} \subseteq InFlight'
    BY <1>1, <1>5 DEF InFlight
  <2> QED  BY <1>4, <2>1 DEF IngestInv, CommitmentsKeepUp
<1>11. Checked'
  BY <1>1, <1>5 DEF IngestInv, Checked, LooksGood, Idle
<1>12. \A g : Spoken(g) \/ g = f => Spoken(g)'
  BY <1>1, <1>3, <1>6 DEF Spoken, log
<1>13. Traced'
  <2>1. UNCHANGED <<written, decisions, unsaved>>
    BY <1>1 DEF log, served
  <2>2. \A d \in Connections : conn'[d] = conn[d] \/ conn'[d].at = "idle"
                              \/ (conn'[d].at = "decide" /\ conn'[d].frame = f)
    BY <1>5 DEF Idle
  <2> HIDE DEF f
  <2> QED  BY <1>12, <2>1, <2>2 DEF IngestInv, Traced
<1>14. AnsweredIsRecorded'
  BY <1>1, <1>12 DEF IngestInv, AnsweredIsRecorded, Spoken, served
<1> QED
  BY <1>7, <1>8, <1>9, <1>10, <1>11, <1>13, <1>14 DEF IngestInv

-----------------------------------------------------------------------------
Emitter == [at : GapSteps, frames : SUBSET Frames, rec : Nat \cup {NoRecord}]

(* What a step of an emitter leaves of the connections' part. *)
LEMMA ConnectionsSame ==
  ASSUME IngestInv, UNCHANGED <<conn, served>>,
         \A f : Spoken(f) => Spoken(f)',
         \A n \in 1..Len(written) : written'[n] = written[n]
  PROVE  Checked' /\ Traced' /\ AnsweredIsRecorded'
<1>1. Checked'
  BY DEF IngestInv, Checked, LooksGood
<1>2. Traced'
  BY DEF IngestInv, Traced, Referenced, served
<1>3. AnsweredIsRecorded'
  BY DEF IngestInv, AnsweredIsRecorded, Spoken, served
<1> QED  BY <1>1, <1>2, <1>3

(* The emitters' steps that leave the stores alone, the watcher's waking   *)
(* and the shutdown's beginning among them.                                *)
LEMMA TakeKeepsInv ==
  ASSUME IngestInv, Pressure \/ Signal \/ \E e \in Emitters : TakeDrops(e)
  PROVE  IngestInv'
<1>1. UNCHANGED <<log, audit, served, conn, orphans, unreported, sent>>
  BY DEF Pressure, Signal, TakeDrops, counters
<1>2. /\ Everywhere' /\ EvidenceIsGenuine' /\ Uncommitted' = Uncommitted
      /\ \A f : Spoken(f)' = Spoken(f)
  BY <1>1, StoresSame DEF IngestInv, log, Kept
<1> DEFINE Taken ==
        /\ emitter' \in [Emitters -> Emitter]
        /\ l4' \in BOOLEAN /\ drops' \subseteq drops
        /\ daemon' \in {"down", "up", "drain", "flush", "close"}
        /\ daemon' \in {"down", "up"} => daemon' = daemon /\ emitter'["shutdown"].at = "no"
        /\ \A e \in Emitters :
             /\ emitter'[e].at = "audit" => emitter'[e] = emitter[e]
             /\ emitter[e].at = "audit" => emitter'[e] = emitter[e]
             /\ emitter'[e].at \in {"no", "take"} => emitter'[e].frames = {}
             /\ emitter'[e].at # "audit" => emitter'[e].rec = NoRecord
             /\ emitter[e].frames \subseteq emitter'[e].frames
        /\ drops \subseteq drops' \cup UNION {emitter'[e].frames : e \in Emitters}
<1>3. Taken
  <2>1. /\ emitter \in [Emitters -> Emitter] /\ drops \subseteq Frames
        /\ l4 \in BOOLEAN /\ daemon \in {"down", "up", "drain", "flush", "close"}
        /\ Emitters = {"watcher", "shutdown"} /\ Emitting
    BY DEF IngestInv, IngestTypeOK, Emitters, Emitter
  <2>2. CASE Pressure
    BY <2>1, <2>2 DEF Pressure, Emitter, Emitting, GapSteps, NotEmitting, counters
  <2>3. CASE Signal
    BY <2>1, <2>3 DEF Signal, Emitter, Emitting, GapSteps, counters
  <2>4. ASSUME NEW e \in Emitters, TakeDrops(e), drops = {}
        PROVE  Taken
    BY <2>1, <2>4 DEF TakeDrops, AfterEmit, Emitter, Emitting, GapSteps, NotEmitting
  <2>5. ASSUME NEW e \in Emitters, TakeDrops(e), drops # {}
        PROVE  Taken
    <3>1. /\ emitter' = [emitter EXCEPT ![e] = [@ EXCEPT !.at = "log", !.frames = drops]]
          /\ drops' = {} /\ UNCHANGED <<daemon, l4>> /\ emitter[e].at = "take"
      BY <2>5 DEF TakeDrops
    <3>2. /\ emitter' \in [Emitters -> Emitter]
          /\ emitter'[e].at = "log" /\ emitter'[e].frames = drops
          /\ emitter'[e].rec = emitter[e].rec
          /\ \A d \in Emitters \ {e} : emitter'[d] = emitter[d]
      BY <2>1, <3>1 DEF Emitter, GapSteps
    <3> QED  BY <2>1, <3>1, <3>2 DEF Emitting
  <2> QED  BY <2>2, <2>3, <2>4, <2>5
<1>4. IngestTypeOK'
  BY <1>1, <1>3 DEF IngestInv, IngestTypeOK, Emitter, log, audit, served
<1>5. Referenced'
  BY <1>1, <1>3 DEF IngestInv, Referenced, log, audit
<1>6. InFlight' = InFlight
  BY <1>1, <1>3 DEF InFlight
<1>7. CommitmentsKeepUp'
  BY <1>1, <1>2, <1>6 DEF IngestInv, CommitmentsKeepUp
<1>8. Emitting'
  BY <1>3 DEF Emitting
<1>9. DropsAreReported'
  BY <1>1, <1>3 DEF IngestInv, DropsAreReported
<1>10. Checked' /\ Traced' /\ AnsweredIsRecorded'
  BY <1>1, <1>2, ConnectionsSame DEF log
<1> QED
  BY <1>2, <1>4, <1>5, <1>7, <1>8, <1>9, <1>10 DEF IngestInv

(* A gap goes into the log, or the log refuses it. *)
LEMMA LogGapKeepsInv ==
  ASSUME IngestInv, NEW e \in Emitters, LogGap(e)
  PROVE  IngestInv'
<1>1. /\ IngestTypeOK /\ Everywhere /\ emitter[e].at = "log" /\ emitter[e].rec = NoRecord
      /\ emitter \in [Emitters -> Emitter] /\ Len(written) \in Nat
      /\ UNCHANGED <<audit, served, daemon, l4, counters, conn, sent, orphans>>
  BY DEF IngestInv, IngestTypeOK, Emitting, LogGap, Emitter
<1>2. CASE LogAppend("gap", emitter[e].frames)
           /\ emitter' = [emitter EXCEPT ![e] = [@ EXCEPT !.at = "audit", !.rec = NewRecord]]
  <2>1. emitter[e].frames \in SUBSET Frames
    BY <1>1 DEF Emitter
  <2>2. /\ Len(written') = Len(written) + 1
        /\ written' \in Seq(Entry)
        /\ \A n \in 1..Len(written) : written'[n] = written[n]
        /\ written'[NewRecord] = [kind |-> "gap", frames |-> emitter[e].frames]
        /\ NewRecord \in 1..Len(written')
        /\ (sealed \cup pending \cup aside \cup expired \cup lost)' \subseteq 1..Len(written')
        /\ Everywhere'
    BY <1>1, <1>2, <2>1, LogFacts
  <2>3. /\ emitter' \in [Emitters -> Emitter]
        /\ emitter'[e].at = "audit" /\ emitter'[e].rec = NewRecord
        /\ emitter'[e].frames = emitter[e].frames
        /\ \A d \in Emitters \ {e} : emitter'[d] = emitter[d]
    <3>1. NewRecord \in Nat /\ "audit" \in GapSteps
      BY <1>1 DEF NewRecord, GapSteps
    <3> QED  BY <1>1, <1>2, <3>1 DEF Emitter
  <2>4. 1..Len(written') = 1..Len(written) \cup {NewRecord}
    BY <1>1, <2>2 DEF NewRecord
  <2>5. IngestTypeOK'
    BY <1>1, <2>2, <2>3 DEF IngestTypeOK, audit, served, counters, Entry, Emitter
  <2>6. Referenced'
    BY <1>1, <2>3, <2>4 DEF IngestInv, Referenced, audit
  <2>7. CommitmentsKeepUp'
    <3>1. Uncommitted' \subseteq Uncommitted \cup {NewRecord}
      BY <1>1, <2>4 DEF Uncommitted, audit
    <3>2. InFlight \cup {NewRecord} \subseteq InFlight'
      BY <1>1, <2>3 DEF InFlight
    <3> QED  BY <1>1, <3>1, <3>2 DEF IngestInv, CommitmentsKeepUp
  <2>8. Emitting' /\ DropsAreReported'
    <3>1. Emitting'
      BY <1>1, <2>3 DEF IngestInv, Emitting, counters, Emitters
    <3>2. \A d \in Emitters : emitter'[d].frames = emitter[d].frames
      BY <2>3
    <3> QED  BY <1>1, <3>1, <3>2 DEF IngestInv, DropsAreReported, counters
  <2>9. EvidenceIsGenuine'
    BY <2>2, <2>4 DEF IngestInv, EvidenceIsGenuine
  <2>10. \A f : Spoken(f) => Spoken(f)'
    BY <1>1, <2>2 DEF IngestInv, Referenced, Spoken, audit
  <2>11. Checked' /\ Traced' /\ AnsweredIsRecorded'
    BY <1>1, <2>2, <2>10, ConnectionsSame
  <2> QED
    BY <2>2, <2>5, <2>6, <2>7, <2>8, <2>9, <2>11 DEF IngestInv
<1>3. CASE LogRefuses /\ emitter' = [emitter EXCEPT ![e].at = "audit"]
  <2>1. /\ emitter' \in [Emitters -> Emitter]
        /\ emitter'[e].at = "audit" /\ emitter'[e].rec = NoRecord
        /\ emitter'[e].frames = emitter[e].frames
        /\ \A d \in Emitters \ {e} : emitter'[d] = emitter[d]
    BY <1>1, <1>3 DEF Emitter, GapSteps
  <2>2. Kept' = Kept /\ UNCHANGED written
    BY <1>3, RefusalFacts
  <2>3. /\ Everywhere' /\ EvidenceIsGenuine' /\ Uncommitted' = Uncommitted
        /\ \A f : Spoken(f)' = Spoken(f)
    BY <1>1, <2>2, StoresSame DEF IngestInv
  <2>4. IngestTypeOK' /\ Referenced'
    BY <1>1, <2>2, <2>1 DEF IngestInv, IngestTypeOK, Kept, Referenced, audit, served, counters, Emitter
  <2>5. CommitmentsKeepUp'
    <3>1. InFlight \subseteq InFlight'
      BY <1>1, <2>1 DEF InFlight
    <3> QED  BY <1>1, <2>3, <3>1 DEF IngestInv, CommitmentsKeepUp
  <2>6. Emitting' /\ DropsAreReported'
    <3>1. Emitting'
      BY <1>1, <2>1 DEF IngestInv, Emitting, counters, Emitters
    <3>2. \A d \in Emitters : emitter'[d].frames = emitter[d].frames
      BY <2>1
    <3> QED  BY <1>1, <3>1, <3>2 DEF IngestInv, DropsAreReported, counters
  <2>7. Checked' /\ Traced' /\ AnsweredIsRecorded'
    BY <1>1, <2>2, <2>3, ConnectionsSame
  <2> QED
    BY <2>3, <2>4, <2>5, <2>6, <2>7 DEF IngestInv
<1> QED  BY <1>2, <1>3 DEF LogGap

(* The commitment of a gap, after which its frames are spoken of. *)
LEMMA CommitGapKeepsInv ==
  ASSUME IngestInv, NEW e \in Emitters, CommitGap(e)
  PROVE  IngestInv'
<1> DEFINE rec == emitter[e].rec
<1>1. /\ IngestTypeOK /\ emitter[e].at = "audit"
      /\ rec \in 1..Len(written) \cup {NoRecord} /\ rec \in Nat \cup {NoRecord}
      /\ emitter \in [Emitters -> Emitter] /\ Len(written) \in Nat
      /\ UNCHANGED <<log, served, l4, drops, conn, sent>>
  BY DEF IngestInv, IngestTypeOK, Referenced, CommitGap, Emitter
<1>2. \/ AuditObserve(rec) /\ UNCHANGED orphans
      \/ AuditObserveFails(rec)
  BY DEF CommitGap
<1>3. /\ Len(commitments) \in Nat /\ Len(commitments') = Len(commitments) + 1
      /\ commitments' \in Seq(Nat \cup {NoRecord})
      /\ \A k \in 1..Len(commitments) : commitments'[k] = commitments[k]
      /\ commitments'[NewCommitment] = rec
      /\ (persisted \cup batch)' \subseteq 1..Len(commitments')
  BY <1>1, <1>2, CommitFacts
<1>4. /\ orphans \subseteq orphans'
      /\ Uncommitted' \subseteq (Uncommitted \ {rec}) \cup orphans'
  BY <1>1, <1>2, CommitKeepsUp DEF log
<1>5. /\ emitter' \in [Emitters -> Emitter] /\ emitter'[e] = NotEmitting
      /\ \A d \in Emitters \ {e} : emitter'[d] = emitter[d]
      /\ unreported' = unreported \ emitter[e].frames
      /\ daemon' \in {"down", "up", "drain", "flush", "close"}
      /\ daemon' \in {"down", "up"} => daemon' = daemon
  BY <1>1 DEF CommitGap, AfterEmit, Emitter, GapSteps, NotEmitting, IngestTypeOK
<1>6. 1..Len(commitments') = 1..Len(commitments) \cup {NewCommitment}
  BY <1>3 DEF NewCommitment
<1>7. IngestTypeOK'
  BY <1>1, <1>3, <1>5 DEF IngestTypeOK, log, served, Emitter
<1>8. Everywhere' /\ EvidenceIsGenuine'
  BY <1>1 DEF IngestInv, Everywhere, Kept, EvidenceIsGenuine, log
<1>9. Referenced'
  <2>1. \A k \in 1..Len(commitments') : commitments'[k] \in 1..Len(written) \cup {NoRecord}
    BY <1>1, <1>3, <1>6 DEF IngestInv, Referenced
  <2>2. \A d \in Emitters : emitter'[d].at = "audit" => emitter'[d] = emitter[d]
    BY <1>5 DEF NotEmitting
  <2>3. UNCHANGED <<written, conn>>
    BY <1>1 DEF log
  <2> QED  BY <2>1, <2>2, <2>3 DEF IngestInv, Referenced
<1>10. CommitmentsKeepUp'
  <2>1. InFlight \ {rec} \subseteq InFlight'
    BY <1>1, <1>5 DEF InFlight
  <2> QED  BY <1>4, <2>1 DEF IngestInv, CommitmentsKeepUp
<1>11. Emitting' /\ DropsAreReported'
  BY <1>1, <1>5 DEF IngestInv, Emitting, DropsAreReported, NotEmitting, Emitters
<1>12. \A f : Spoken(f) => Spoken(f)'
  BY <1>1, <1>3, <1>6 DEF Spoken, log
<1>13. Checked' /\ Traced' /\ AnsweredIsRecorded'
  BY <1>1, <1>12, ConnectionsSame DEF log
<1> QED
  BY <1>7, <1>8, <1>9, <1>10, <1>11, <1>13 DEF IngestInv

LEMMA FlushKeepsInv ==
  ASSUME IngestInv, Flush
  PROVE  IngestInv'
<1>1. /\ IngestTypeOK /\ daemon = "flush" /\ daemon' = "close"
      /\ UNCHANGED <<log, commitments, served, l4, counters, emitter, conn, sent>>
      /\ \/ persisted' = persisted \cup batch /\ batch' = {} /\ UNCHANGED orphans
         \/ persisted' = persisted /\ batch' = {} /\ orphans' = orphans \cup (About(batch) \ {NoRecord})
  BY DEF IngestInv, Flush, Trail!Persist, Trail!Lose
<1>2. IngestTypeOK' /\ Everywhere' /\ EvidenceIsGenuine' /\ Referenced'
  BY <1>1 DEF IngestInv, IngestTypeOK, Everywhere, Kept, EvidenceIsGenuine, Referenced, log, served, counters
<1>3. CommitmentsKeepUp'
  <2>1. Uncommitted' \subseteq Uncommitted \cup orphans'
    <3>1. \A n \in 1..Len(written) : n # NoRecord
      BY <1>1, RecordsAreNumbers DEF IngestTypeOK
    <3> QED  BY <1>1, <3>1 DEF Uncommitted, About, log
  <2>2. InFlight' = InFlight /\ orphans \subseteq orphans'
    BY <1>1 DEF InFlight
  <2> QED  BY <2>1, <2>2 DEF IngestInv, CommitmentsKeepUp
<1>4. Emitting' /\ DropsAreReported'
  BY <1>1 DEF IngestInv, Emitting, DropsAreReported, counters
<1>5. Checked' /\ Traced' /\ AnsweredIsRecorded'
  BY <1>1, ConnectionsSame DEF Spoken, log
<1> QED  BY <1>2, <1>3, <1>4, <1>5 DEF IngestInv

LEMMA EndingKeepsInv ==
  ASSUME IngestInv, Ending
  PROVE  IngestInv'
<1>1. /\ IngestTypeOK' /\ Everywhere'
      /\ daemon' = "down" /\ unreported' = {}
      /\ \A e \in Emitters : emitter'[e] = NotEmitting
      /\ \A c \in Connections : conn'[c] = Closed
      /\ Uncommitted' \subseteq orphans'
      /\ UNCHANGED <<written, commitments, answered>>
      /\ decisions \cup unsaved \subseteq decisions' \cup unsaved'
  BY EndFacts DEF IngestInv
<1>2. Referenced' /\ Checked' /\ Traced'
  BY <1>1 DEF IngestInv, Referenced, Checked, Traced, Closed, NotEmitting
<1>3. CommitmentsKeepUp'
  BY <1>1 DEF CommitmentsKeepUp
<1>4. Emitting' /\ DropsAreReported'
  BY <1>1 DEF Emitting, DropsAreReported, NotEmitting, Emitters
<1>5. EvidenceIsGenuine' /\ AnsweredIsRecorded'
  BY <1>1 DEF IngestInv, EvidenceIsGenuine, AnsweredIsRecorded
<1> QED  BY <1>1, <1>2, <1>3, <1>4, <1>5 DEF IngestInv

(* The daemon boots, or retention takes the oldest record. *)
LEMMA BesidesKeepsInv ==
  ASSUME IngestInv, Boot \/ Evict
  PROVE  IngestInv'
<1>1. /\ UNCHANGED <<written, audit, served, l4, counters, emitter, conn, sent, orphans>>
      /\ daemon' = daemon \/ (daemon = "down" /\ daemon' = "up")
      /\ (sealed \cup pending \cup aside \cup expired \cup lost)' = Kept
  BY DEF Boot, Evict, Kept, log, process
<1>2. IngestTypeOK' /\ Everywhere' /\ EvidenceIsGenuine' /\ Referenced'
  BY <1>1 DEF IngestInv, IngestTypeOK, Everywhere, Kept, EvidenceIsGenuine, Referenced, audit, served, counters
<1>3. CommitmentsKeepUp'
  BY <1>1 DEF IngestInv, CommitmentsKeepUp, Uncommitted, InFlight, audit
<1>4. Emitting' /\ DropsAreReported'
  BY <1>1 DEF IngestInv, Emitting, DropsAreReported, counters
<1>5. Checked' /\ Traced' /\ AnsweredIsRecorded'
  BY <1>1, ConnectionsSame DEF Spoken, audit
<1> QED  BY <1>2, <1>3, <1>4, <1>5 DEF IngestInv

-----------------------------------------------------------------------------
(* ingest.rs:434-560: the inductive invariant of the server.  Beyond what  *)
(* the runs check it says that no record vanishes from all the places a    *)
(* record may be in, what a connection or an emitter holds at each of its  *)
(* awaits, and what the steps behind it have left.                         *)
THEOREM IngestInvariant == IngestSpec => []IngestInv
<1>1. IngestInit => IngestInv
  BY InitHolds
<1>2. IngestInv /\ [IngestNext]_ivars => IngestInv'
  <2> SUFFICES ASSUME IngestInv, [IngestNext]_ivars
               PROVE  IngestInv'
    OBVIOUS
  <2>1. CASE Boot \/ Evict
    BY <2>1, BesidesKeepsInv
  <2>2. CASE Ending
    BY <2>2, EndingKeepsInv
  <2>3. ASSUME NEW c \in Connections, Moved(c)
        PROVE  IngestInv'
    BY <2>3, MovedKeepsInv
  <2>4. ASSUME NEW c \in Connections, Appended(c)
        PROVE  IngestInv'
    BY <2>4, AppendedKeepsInv
  <2>5. ASSUME NEW c \in Connections, Commit(c) \/ CommitFails(c)
        PROVE  IngestInv'
    BY <2>5, CommittedKeepsInv
  <2>6. CASE Pressure \/ Signal \/ \E e \in Emitters : TakeDrops(e)
    BY <2>6, TakeKeepsInv
  <2>7. ASSUME NEW e \in Emitters, LogGap(e)
        PROVE  IngestInv'
    BY <2>7, LogGapKeepsInv
  <2>8. ASSUME NEW e \in Emitters, CommitGap(e)
        PROVE  IngestInv'
    BY <2>8, CommitGapKeepsInv
  <2>9. CASE Flush
    BY <2>9, FlushKeepsInv
  <2>10. CASE UNCHANGED ivars
    <3>1. UNCHANGED <<log, audit, served, process, orphans>>
      BY <2>10 DEF ivars
    <3>2. UNCHANGED <<sent>>
      BY <2>10 DEF ivars
    <3>3. IngestTypeOK' /\ Everywhere' /\ EvidenceIsGenuine' /\ Referenced'
      BY <3>1, <3>2 DEF IngestInv, IngestTypeOK, Everywhere, Kept, EvidenceIsGenuine, Referenced,
           log, audit, served, process, counters
    <3>4. CommitmentsKeepUp'
      BY <3>1 DEF IngestInv, CommitmentsKeepUp, Uncommitted, InFlight, log, audit, process
    <3>5. Emitting' /\ DropsAreReported'
      BY <3>1 DEF IngestInv, Emitting, DropsAreReported, process, counters
    <3>6. Checked' /\ Traced' /\ AnsweredIsRecorded'
      BY <3>1, ConnectionsSame DEF Spoken, log, audit, process
    <3> QED  BY <3>3, <3>4, <3>5, <3>6 DEF IngestInv
  <2> QED
    BY <2>1, <2>2, <2>3, <2>4, <2>5, <2>6, <2>7, <2>8, <2>9, <2>10
    DEF IngestNext, IngestOne, EmitGap, Moved, Ending
<1> QED  BY <1>1, <1>2, PTL DEF IngestSpec

(* ingest.rs:483-485, "evidence FIRST". *)
THEOREM EvidenceComesFirst == IngestSpec => []EvidenceBacksCommitments
<1>1. IngestInv => EvidenceBacksCommitments
  BY DEF IngestInv, IngestTypeOK, Referenced, Everywhere, Kept, EvidenceBacksCommitments
<1> QED  BY <1>1, IngestInvariant, PTL

(* ingest.rs:486-493: the second of the two mutexes is not forgotten. *)
THEOREM CommitmentsFollow == IngestSpec => []CommitmentsKeepUp
<1>1. IngestInv => CommitmentsKeepUp
  BY DEF IngestInv
<1> QED  BY <1>1, IngestInvariant, PTL

(* ingest.rs:361-365: no drop is forgotten between counters and chain. *)
THEOREM NoDropIsForgotten == IngestSpec => []DropsAreReported
<1>1. IngestInv => DropsAreReported
  BY DEF IngestInv
<1> QED  BY <1>1, IngestInvariant, PTL

(* lib.rs:7-10, MOD-7: whatever bodies the clients send. *)
THEOREM OnlyGenuineEvidence == IngestSpec => []EvidenceIsGenuine
<1>1. IngestInv => EvidenceIsGenuine
  BY DEF IngestInv
<1> QED  BY <1>1, IngestInvariant, PTL

(* Runtime.php:187-188, "a real, persisted evaluation". *)
THEOREM AnswersAreRecorded == IngestSpec => []AnsweredIsRecorded
<1>1. IngestInv => AnsweredIsRecorded
  BY DEF IngestInv
<1> QED  BY <1>1, IngestInvariant, PTL

-----------------------------------------------------------------------------
(* The log and the chain that Ingest writes to do what EvidenceLedger and  *)
(* AuditTrail promise, and no more.                                        *)
LEMMA OldestExists ==
  ASSUME NEW S \in SUBSET Nat, S # {}
  PROVE  \E s \in S : \A t \in S : s <= t
<1>1. \E s \in S : \A t \in S : ~(<<t, s>> \in OpToRel(<, Nat))
  BY NatLessThanWellFounded, WFMin, Zenon
<1>2. PICK s \in S : \A t \in S : ~(<<t, s>> \in OpToRel(<, Nat))
  BY <1>1
<1>3. \A t \in S : s <= t
  <2> TAKE t \in S
  <2>1. <<t, s>> \in Nat \X Nat => ~(t < s)
    BY <1>2, Zenon DEF OpToRel
  <2> QED  BY <2>1
<1> QED  BY <1>3

LEMMA AppendIsAccepted ==
  ASSUME IngestTypeOK, NEW kind, NEW F, LogAppend(kind, F)
  PROVE  Ledger!Accept \/ Ledger!SealAndAccept
<1>1. /\ NewRecord \in Nat /\ Len(written) \in Nat
      /\ sealed \cup pending \cup aside \subseteq 1..Len(written)
  BY DEF IngestTypeOK, NewRecord
<1>2. Ledger!Younger(NewRecord) /\ NewRecord \notin pending
  BY <1>1 DEF Ledger!Younger, NewRecord
<1>3. CASE pending' = pending \cup {NewRecord}
  <2>1. UNCHANGED <<sealed, aside>>
    BY <1>3 DEF LogAppend
  <2> QED  BY <1>1, <1>2, <1>3, <2>1 DEF Ledger!Accept
<1>4. CASE pending' = {NewRecord}
  <2>1. sealed' = sealed \cup pending /\ UNCHANGED aside
    BY <1>2, <1>4 DEF LogAppend
  <2> QED  BY <1>1, <1>2, <1>4, <2>1 DEF Ledger!SealAndAccept
<1> QED  BY <1>3, <1>4 DEF LogAppend

LEMMA EvictExpires ==
  ASSUME IngestTypeOK, Evict
  PROVE  Ledger!Expire
<1>1. sealed \in SUBSET Nat /\ sealed # {}
  BY DEF IngestTypeOK, Evict
<1> DEFINE first == CHOOSE r \in sealed : \A q \in sealed : r <= q
<1>2. first \in sealed /\ \A q \in sealed : first <= q
  BY <1>1, OldestExists
<1>3. sealed' = sealed \ {first} /\ UNCHANGED <<pending, aside>>
  BY DEF Evict
<1> HIDE DEF first
<1>4. ASSUME NEW gone \in sealed \ sealed', NEW kept \in sealed'
      PROVE  gone < kept
  <2>1. gone = first /\ kept \in sealed /\ kept # first
    BY <1>3
  <2> QED  BY <1>1, <1>2, <2>1
<1> QED  BY <1>3, <1>4 DEF Ledger!Expire

(* ingest.rs:456-560: whatever the server does with the log, connections,  *)
(* emitters, eviction and exits taken together, is what a ledger may do.   *)
THEOREM LogIsALedger == IngestSpec => Ledger!Spec
<1>1. IngestInit => Ledger!Init
  BY DEF IngestInit, Ledger!Init
<1>2. IngestInv /\ [IngestNext]_ivars => [Ledger!Next]_Ledger!ledger
  <2> SUFFICES ASSUME IngestInv, [IngestNext]_ivars
               PROVE  Ledger!Next \/ UNCHANGED Ledger!ledger
    OBVIOUS
  <2>1. ASSUME UNCHANGED log
        PROVE  UNCHANGED Ledger!ledger
    BY <2>1 DEF log, Ledger!ledger
  <2>2. ASSUME NEW c \in Connections, Appended(c)
        PROVE  Ledger!Next
    BY <2>2, AppendIsAccepted DEF Appended, IngestInv, Ledger!Next
  <2>3. ASSUME LogRefuses
        PROVE  Ledger!Next \/ UNCHANGED Ledger!ledger
    BY <2>3 DEF LogRefuses, Ledger!Next, Ledger!ledger
  <2>4. ASSUME NEW e \in Emitters, LogGap(e)
        PROVE  Ledger!Next \/ UNCHANGED Ledger!ledger
    BY <2>3, <2>4, AppendIsAccepted DEF LogGap, IngestInv, Ledger!Next
  <2>5. CASE Evict
    BY <2>5, EvictExpires DEF IngestInv, Ledger!Next
  <2>6. CASE Ending
    BY <2>6 DEF Ending, Crash, PowerFailure, StillBorrowed, CloseLog, LeaveOpen, Ledger!Next
  <2>7. ASSUME NEW c \in Connections,
               \/ Connect(c) \/ Disconnect(c) \/ Drop(c) \/ Receive(c) \/ Refused(c)
               \/ Commit(c) \/ CommitFails(c) \/ Decide(c) \/ Respond(c)
        PROVE  Ledger!Next \/ UNCHANGED Ledger!ledger
    BY <2>1, <2>3, <2>7
    DEF Connect, Disconnect, Drop, Receive, Refused, Commit, CommitFails, Decide, Respond
  <2>8. ASSUME \/ Boot \/ Pressure \/ Signal \/ Flush
               \/ \E e \in Emitters : TakeDrops(e) \/ CommitGap(e)
        PROVE  UNCHANGED Ledger!ledger
    BY <2>1, <2>8 DEF Boot, Pressure, Signal, Flush, TakeDrops, CommitGap
  <2>9. CASE UNCHANGED ivars
    BY <2>1, <2>9 DEF ivars
  <2> QED
    BY <2>2, <2>4, <2>5, <2>6, <2>7, <2>8, <2>9 DEF IngestNext, IngestOne, EmitGap, Ending
<1> QED  BY <1>1, <1>2, IngestInvariant, PTL DEF IngestSpec, Ledger!Spec

LEMMA CommitIsObserved ==
  ASSUME IngestTypeOK, NEW rec, AuditObserve(rec) \/ AuditObserveFails(rec)
  PROVE  Trail!Next
<1>1. /\ NewCommitment \in Nat /\ Len(commitments) \in Nat
      /\ persisted \cup batch \subseteq 1..Len(commitments)
  BY DEF IngestTypeOK, NewCommitment
<1>2. Trail!Latest(NewCommitment)
  BY <1>1 DEF Trail!Latest, NewCommitment
<1>3. CASE AuditObserve(rec)
  BY <1>1, <1>2, <1>3 DEF AuditObserve, Trail!Next, Trail!Observe, Trail!ObserveAndPersist
<1>4. CASE AuditObserveFails(rec)
  BY <1>4 DEF AuditObserveFails, Trail!Next
<1> QED  BY <1>3, <1>4

(* ingest.rs:486-498, 306-330: the same of the audit chain, whose batch    *)
(* goes to the disk as a whole or is lost as a whole.                      *)
THEOREM ChainIsATrail == IngestSpec => Trail!Spec
<1>1. IngestInit => Trail!Init
  BY DEF IngestInit, Trail!Init
<1>2. IngestInv /\ [IngestNext]_ivars => [Trail!Next]_Trail!trail
  <2> SUFFICES ASSUME IngestInv, [IngestNext]_ivars
               PROVE  Trail!Next \/ UNCHANGED Trail!trail
    OBVIOUS
  <2>1. ASSUME UNCHANGED audit
        PROVE  UNCHANGED Trail!trail
    BY <2>1 DEF audit, Trail!trail
  <2>2. ASSUME NEW c \in Connections, Commit(c) \/ CommitFails(c)
        PROVE  Trail!Next
    BY <2>2, CommitIsObserved DEF Commit, CommitFails, IngestInv
  <2>3. ASSUME NEW e \in Emitters, CommitGap(e)
        PROVE  Trail!Next
    BY <2>3, CommitIsObserved DEF CommitGap, IngestInv
  <2>4. CASE Flush
    BY <2>4 DEF Flush, Trail!Next
  <2>5. CASE Ending
    BY <2>5 DEF Ending, Crash, PowerFailure, StillBorrowed, CloseLog, LeaveOpen, Gone, Trail!Next
  <2>6. ASSUME NEW c \in Connections,
               \/ Connect(c) \/ Disconnect(c) \/ Drop(c) \/ Receive(c) \/ Refused(c)
               \/ Appended(c) \/ Decide(c) \/ Respond(c)
        PROVE  UNCHANGED Trail!trail
    BY <2>1, <2>6
    DEF Connect, Disconnect, Drop, Receive, Refused, Appended, Decide, Respond
  <2>7. ASSUME \/ Boot \/ Evict \/ Pressure \/ Signal
               \/ \E e \in Emitters : TakeDrops(e) \/ LogGap(e)
        PROVE  UNCHANGED Trail!trail
    BY <2>1, <2>7 DEF Boot, Evict, Pressure, Signal, TakeDrops, LogGap
  <2>8. CASE UNCHANGED ivars
    BY <2>1, <2>8 DEF ivars
  <2> QED
    BY <2>2, <2>3, <2>4, <2>5, <2>6, <2>7, <2>8 DEF IngestNext, IngestOne, EmitGap, Ending
<1> QED  BY <1>1, <1>2, IngestInvariant, PTL DEF IngestSpec, Trail!Spec

-----------------------------------------------------------------------------
(* What an exit or a failed write leaves without a commitment is what the  *)
(* batch was about: no record is committed twice, so that it had none      *)
(* elsewhere, and none that was left once is committed later.              *)
Held(x, y) == x.at = "audit" /\ y.at = "audit" /\ x.rec = y.rec

HeldOnce ==
  /\ \A c, d \in Connections : Held(conn[c], conn[d]) => c = d
  /\ \A d, e \in Emitters : Held(emitter[d], emitter[e]) /\ emitter[d].rec # NoRecord => d = e
  /\ \A c \in Connections, e \in Emitters : ~Held(conn[c], emitter[e])

CommittedOnce ==
  /\ \A j, k \in 1..Len(commitments) :
       commitments[j] = commitments[k] /\ commitments[j] # NoRecord => j = k
  /\ \A n \in InFlight \ {NoRecord} : n \notin orphans /\ n \notin About(1..Len(commitments))
  /\ orphans \subseteq Uncommitted

BatchInv == Cardinality(batch) < MaxRecordsPerSegment /\ persisted \cap batch = {}

OnceInv == BatchInv /\ HeldOnce /\ CommittedOnce

LEMMA BatchIsFinite ==
  ASSUME IngestTypeOK
  PROVE  IsFiniteSet(batch) /\ Cardinality(batch) \in Nat
<1>1. Len(commitments) \in Nat /\ batch \in SUBSET (1..Len(commitments))
  BY DEF IngestTypeOK
<1>2. IsFiniteSet(1..Len(commitments))
  BY <1>1, FS_Interval
<1>3. IsFiniteSet(batch)
  BY <1>1, <1>2, FS_Subset
<1> QED  BY <1>3, FS_CardinalityType

(* A batch is about no more records than it has commitments. *)
LEMMA AboutIsSmall ==
  ASSUME IngestTypeOK
  PROVE  IsFiniteSet(About(batch)) /\ Cardinality(About(batch)) <= Cardinality(batch)
<1> DEFINE f == [k \in batch |-> commitments[k]]
<1>1. f \in [batch -> About(batch)] /\ \A n \in About(batch) : \E k \in batch : f[k] = n
  BY DEF About
<1> HIDE DEF f
<1>2. f \in Surjection(batch, About(batch))
  BY <1>1, Zenon DEF Surjection
<1> QED  BY <1>2, BatchIsFinite, FS_Surjection

(* What was in no commitment but the batch's is at most a batch. *)
LEMMA ABatchIsLost ==
  ASSUME IngestInv, OnceInv, orphans' \ Uncommitted \subseteq About(batch)
  PROVE  Cardinality(orphans' \ Uncommitted) < MaxRecordsPerSegment
<1>1. /\ IsFiniteSet(About(batch))
      /\ Cardinality(About(batch)) <= Cardinality(batch)
  BY AboutIsSmall DEF IngestInv
<1>2. /\ IsFiniteSet(orphans' \ Uncommitted)
      /\ Cardinality(orphans' \ Uncommitted) <= Cardinality(About(batch))
  BY <1>1, FS_Subset
<1>3. /\ Cardinality(orphans' \ Uncommitted) \in Nat /\ Cardinality(About(batch)) \in Nat
      /\ Cardinality(batch) \in Nat /\ MaxRecordsPerSegment \in Nat
      /\ Cardinality(batch) < MaxRecordsPerSegment
  BY <1>1, <1>2, FS_CardinalityType, BatchIsFinite, SegmentHolds DEF OnceInv, BatchInv, IngestInv
<1> QED  BY <1>1, <1>2, <1>3

(* An orphan of the batch has no commitment on the disk. *)
LEMMA TheBatchIsUncommitted ==
  ASSUME IngestInv, OnceInv, NEW n \in About(batch), n # NoRecord
  PROVE  n \in 1..Len(written) /\ \A k \in persisted : commitments[k] # n
<1>1. persisted \cup batch \subseteq 1..Len(commitments)
  BY DEF IngestInv, IngestTypeOK
<1>2. PICK j \in batch : commitments[j] = n
  BY DEF About
<1>3. n \in 1..Len(written)
  BY <1>1, <1>2 DEF IngestInv, Referenced
<1>4. \A k \in persisted : commitments[k] # n
  BY <1>1, <1>2 DEF OnceInv, BatchInv, CommittedOnce
<1> QED  BY <1>3, <1>4

(* Steps that commit and append nothing.                                   *)
LEMMA OnceKept ==
  ASSUME IngestInv, OnceInv, UNCHANGED <<written, audit, orphans>>,
         \A c \in Connections : conn'[c].at = "audit" => conn'[c] = conn[c],
         \A e \in Emitters : emitter'[e].at = "audit" =>
           emitter'[e] = emitter[e] \/ emitter'[e].rec = NoRecord
  PROVE  OnceInv'
<1>1. \A c \in Connections : conn[c].at = "audit" => conn[c].rec # NoRecord
  BY RecordsAreNumbers DEF IngestInv, IngestTypeOK, Referenced
<1>2. HeldOnce'
  BY <1>1 DEF OnceInv, HeldOnce, Held
<1>3. InFlight' \subseteq InFlight \cup {NoRecord}
  BY DEF InFlight
<1>4. Uncommitted' = Uncommitted /\ About(1..Len(commitments))' = About(1..Len(commitments))
  BY DEF Uncommitted, About, audit
<1>5. CommittedOnce'
  BY <1>3, <1>4 DEF OnceInv, CommittedOnce, audit
<1>6. BatchInv'
  BY DEF OnceInv, BatchInv, audit
<1> QED  BY <1>2, <1>5, <1>6 DEF OnceInv

(* A record that is new is nobody's yet. *)
LEMMA NewIsFresh ==
  ASSUME IngestInv, OnceInv
  PROVE  /\ NewRecord \notin InFlight /\ NewRecord # NoRecord
         /\ NewRecord \notin orphans
         /\ NewRecord \notin About(1..Len(commitments))
<1>1. Len(written) \in Nat /\ NewRecord \in Nat /\ NewRecord \notin 1..Len(written)
  BY DEF IngestInv, IngestTypeOK, NewRecord
<1>2. NewRecord # NoRecord
  BY <1>1, RecordsAreNumbers
<1>3. InFlight \subseteq 1..Len(written) \cup {NoRecord}
  BY DEF IngestInv, Referenced, InFlight
<1>4. About(1..Len(commitments)) \subseteq 1..Len(written) \cup {NoRecord}
  BY DEF IngestInv, Referenced, About
<1>5. orphans \subseteq 1..Len(written)
  BY DEF OnceInv, CommittedOnce, Uncommitted
<1> QED  BY <1>1, <1>2, <1>3, <1>4, <1>5

LEMMA AppendKeepsOnce ==
  ASSUME IngestInv, OnceInv, NEW kind, NEW F, LogAppend(kind, F), UNCHANGED <<audit, orphans>>,
         \/ \E c \in Connections :
              /\ conn'[c].rec = NewRecord /\ UNCHANGED emitter
              /\ \A d \in Connections \ {c} : conn'[d] = conn[d]
         \/ \E e \in Emitters :
              /\ emitter'[e].rec = NewRecord /\ UNCHANGED conn
              /\ \A d \in Emitters \ {e} : emitter'[d] = emitter[d]
  PROVE  OnceInv'
<1>1. /\ NewRecord \notin InFlight /\ NewRecord # NoRecord
      /\ NewRecord \notin orphans
      /\ NewRecord \notin About(1..Len(commitments))
  BY NewIsFresh
<1>2. /\ \A c \in Connections : conn[c].at = "audit" => conn[c].rec # NewRecord
      /\ \A e \in Emitters : emitter[e].at = "audit" => emitter[e].rec # NewRecord
  BY <1>1 DEF InFlight
<1>3. HeldOnce'
  BY <1>2 DEF OnceInv, HeldOnce, Held
<1>4. InFlight' \subseteq InFlight \cup {NewRecord}
  BY DEF InFlight
<1>5. Uncommitted \subseteq Uncommitted'
  <2>1. Len(written) \in Nat /\ Len(written') = Len(written) + 1
    BY DEF IngestInv, IngestTypeOK, LogAppend
  <2>2. 1..Len(written) \subseteq 1..Len(written')
    BY <2>1
  <2> QED  BY <2>2 DEF Uncommitted, audit
<1>6. About(1..Len(commitments))' = About(1..Len(commitments))
  BY DEF About, audit
<1>7. CommittedOnce'
  BY <1>1, <1>4, <1>5, <1>6 DEF OnceInv, CommittedOnce, audit
<1>8. BatchInv'
  BY DEF OnceInv, BatchInv, audit
<1> QED  BY <1>3, <1>7, <1>8 DEF OnceInv

(* Who commits a record, or fails to, gives it up.                         *)
LEMMA CommitKeepsOnce ==
  ASSUME IngestInv, OnceInv, NEW rec \in InFlight, UNCHANGED written,
         \/ AuditObserve(rec) /\ UNCHANGED orphans
         \/ AuditObserveFails(rec),
         \A c \in Connections : conn'[c].at = "audit" => conn'[c] = conn[c],
         \A e \in Emitters : emitter'[e].at = "audit" => emitter'[e] = emitter[e],
         rec \notin InFlight' \/ rec = NoRecord
  PROVE  OnceInv' /\ Cardinality(orphans' \ Uncommitted) < MaxRecordsPerSegment
<1>1. rec \in Nat \cup {NoRecord} /\ rec \in 1..Len(written) \cup {NoRecord}
  BY DEF IngestInv, IngestTypeOK, Referenced, InFlight
<1>2. /\ Len(commitments) \in Nat /\ Len(commitments') = Len(commitments) + 1
      /\ \A k \in 1..Len(commitments) : commitments'[k] = commitments[k]
      /\ commitments'[NewCommitment] = rec
  BY <1>1, CommitFacts DEF IngestInv
<1>3. 1..Len(commitments') = 1..Len(commitments) \cup {NewCommitment}
      /\ NewCommitment \notin 1..Len(commitments)
  BY <1>2 DEF NewCommitment
<1>4. rec # NoRecord => rec \notin orphans /\ rec \notin About(1..Len(commitments))
  BY DEF OnceInv, CommittedOnce
<1>5. persisted \cup batch \subseteq 1..Len(commitments)
  BY DEF IngestInv, IngestTypeOK
<1>6. IsFiniteSet(batch) /\ Cardinality(batch) \in Nat /\ MaxRecordsPerSegment \in Nat \ {0}
  BY BatchIsFinite, SegmentHolds DEF IngestInv
<1>7. HeldOnce'
  BY DEF OnceInv, HeldOnce, Held
<1>8. \A j, k \in 1..Len(commitments') :
        commitments'[j] = commitments'[k] /\ commitments'[j] # NoRecord => j = k
  BY <1>2, <1>3, <1>4 DEF OnceInv, CommittedOnce, About
<1>9. About(1..Len(commitments))' = About(1..Len(commitments)) \cup {rec}
  BY <1>2, <1>3 DEF About
<1>10. InFlight' \subseteq InFlight
  BY DEF InFlight
<1>11. \A n \in InFlight' \ {NoRecord} : n \in InFlight \ {NoRecord} /\ n # rec
  BY <1>10
<1>12. CASE AuditObserve(rec) /\ UNCHANGED orphans
  <2>1. /\ (persisted \cup batch)' = persisted \cup batch \cup {NewCommitment}
        /\ persisted' \cap batch' = {}
    BY <1>3, <1>5, <1>12 DEF AuditObserve, OnceInv, BatchInv
  <2>2. Cardinality(batch') < MaxRecordsPerSegment
    <3>1. CASE Cardinality(batch) + 1 < MaxRecordsPerSegment
      <4>1. batch' = batch \cup {NewCommitment} /\ NewCommitment \notin batch
        BY <1>3, <1>5, <1>12, <3>1 DEF AuditObserve
      <4>2. Cardinality(batch') = Cardinality(batch) + 1
        BY <1>6, <4>1, FS_AddElement
      <4> QED  BY <3>1, <4>2
    <3>2. CASE ~(Cardinality(batch) + 1 < MaxRecordsPerSegment)
      <4>1. batch' = {}
        BY <1>12, <3>2 DEF AuditObserve
      <4> QED  BY <1>6, <4>1, FS_EmptySet
    <3> QED  BY <3>1, <3>2
  <2>3. orphans' \subseteq Uncommitted'
    <3> SUFFICES ASSUME NEW n \in orphans
                 PROVE  n \in Uncommitted'
      BY <1>12
    <3>1. n \in Uncommitted /\ n \in 1..Len(written) /\ n # rec
      <4>1. n \in Uncommitted
        BY DEF OnceInv, CommittedOnce
      <4>2. n # NoRecord
        BY <4>1, RecordsAreNumbers DEF Uncommitted, IngestInv, IngestTypeOK
      <4> QED  BY <1>4, <4>1, <4>2 DEF Uncommitted
    <3> QED  BY <1>2, <1>5, <2>1, <3>1 DEF Uncommitted
  <2>4. CommittedOnce'
    BY <1>8, <1>9, <1>11, <1>12, <2>3 DEF OnceInv, CommittedOnce
  <2>5. Cardinality(orphans' \ Uncommitted) < MaxRecordsPerSegment
    <3>1. orphans' \ Uncommitted = {}
      BY <1>12 DEF OnceInv, CommittedOnce
    <3> QED  BY <1>6, <3>1, FS_EmptySet
  <2> QED  BY <1>7, <2>1, <2>2, <2>4, <2>5 DEF OnceInv, BatchInv
<1>13. CASE AuditObserveFails(rec)
  <2>1. persisted' = persisted /\ batch' = {}
    BY <1>13 DEF AuditObserveFails, Trail!Lose
  <2>2. orphans' = orphans \cup (({rec} \cup About(batch)) \ {NoRecord})
    BY <1>13 DEF AuditObserveFails
  <2>3. BatchInv'
    BY <1>6, <2>1, FS_EmptySet DEF BatchInv
  <2>4. About(batch) \subseteq About(1..Len(commitments))
    BY <1>5 DEF About
  <2>5. orphans' \subseteq Uncommitted'
    <3> SUFFICES ASSUME NEW n \in orphans'
                 PROVE  n \in Uncommitted'
      OBVIOUS
    <3>1. \A k \in persisted : commitments'[k] = commitments[k]
      BY <1>2, <1>5
    <3>2. CASE n \in orphans
      BY <2>1, <3>1, <3>2 DEF OnceInv, CommittedOnce, Uncommitted
    <3>3. CASE n = rec /\ n # NoRecord
      <4>1. n \in 1..Len(written) /\ n \notin About(1..Len(commitments))
        BY <1>1, <1>4, <3>3
      <4> QED  BY <1>5, <2>1, <3>1, <4>1 DEF Uncommitted, About
    <3>4. CASE n \in About(batch) /\ n # NoRecord
      BY <2>1, <3>1, <3>4, TheBatchIsUncommitted DEF Uncommitted
    <3> QED  BY <2>2, <3>2, <3>3, <3>4
  <2>6. \A n \in InFlight' \ {NoRecord} : n \notin orphans'
    <3> SUFFICES ASSUME NEW n \in InFlight' \ {NoRecord}
                 PROVE  n \notin orphans'
      OBVIOUS
    <3>1. n # rec /\ n \notin orphans /\ n \notin About(1..Len(commitments))
      BY <1>11 DEF OnceInv, CommittedOnce
    <3> QED  BY <2>2, <2>4, <3>1
  <2>7. CommittedOnce'
    BY <1>8, <1>9, <1>11, <2>5, <2>6 DEF OnceInv, CommittedOnce
  <2>8. orphans' \ Uncommitted \subseteq About(batch)
    <3>1. orphans \subseteq Uncommitted
      BY DEF OnceInv, CommittedOnce
    <3>2. rec # NoRecord => rec \in Uncommitted
      BY <1>1, <1>4, <1>5 DEF Uncommitted, About
    <3> QED  BY <2>2, <3>1, <3>2
  <2>9. Cardinality(orphans' \ Uncommitted) < MaxRecordsPerSegment
    BY <2>8, ABatchIsLost
  <2> QED  BY <1>7, <2>3, <2>7, <2>9 DEF OnceInv
<1> QED  BY <1>12, <1>13

LEMMA InitIsOnce == IngestInit => OnceInv
<1> SUFFICES ASSUME IngestInit
             PROVE  OnceInv
  OBVIOUS
<1>1. BatchInv
  BY SegmentHolds, FS_EmptySet DEF IngestInit, BatchInv
<1>2. /\ \A c \in Connections : conn[c].at # "audit"
      /\ \A e \in Emitters : emitter[e].at # "audit"
  BY DEF IngestInit, Closed, NotEmitting
<1>3. HeldOnce
  BY <1>2 DEF HeldOnce, Held
<1>4. CommittedOnce
  BY <1>2 DEF IngestInit, CommittedOnce, InFlight
<1> QED  BY <1>1, <1>3, <1>4 DEF OnceInv

(* Where nothing is orphaned, nothing is lost. *)
LEMMA NothingIsLost ==
  ASSUME OnceInv, UNCHANGED orphans
  PROVE  Cardinality(orphans' \ Uncommitted) < MaxRecordsPerSegment
<1>1. orphans' \ Uncommitted = {}
  BY DEF OnceInv, CommittedOnce
<1> QED  BY <1>1, SegmentHolds, FS_EmptySet

LEMMA CommittedKeepsOnce ==
  ASSUME IngestInv, OnceInv, NEW c \in Connections, Commit(c) \/ CommitFails(c)
  PROVE  OnceInv' /\ Cardinality(orphans' \ Uncommitted) < MaxRecordsPerSegment
<1> DEFINE rec == conn[c].rec
<1>1. /\ conn[c].at = "audit" /\ conn \in [Connections -> [at : Steps, frame : Frames \cup {NoFrame}, rec : Nat \cup {NoRecord}]]
      /\ UNCHANGED <<written, emitter>>
      /\ \/ AuditObserve(rec) /\ UNCHANGED orphans
         \/ AuditObserveFails(rec)
  BY DEF Commit, CommitFails, log, IngestInv, IngestTypeOK
<1>2. conn'[c].at # "audit" /\ \A d \in Connections \ {c} : conn'[d] = conn[d]
  BY <1>1 DEF Commit, CommitFails, Idle
<1>3. rec \in InFlight
  BY <1>1 DEF InFlight
<1>4. rec \notin InFlight'
  BY <1>1, <1>2 DEF InFlight, OnceInv, HeldOnce, Held
<1>5. /\ \A d \in Connections : conn'[d].at = "audit" => conn'[d] = conn[d]
      /\ \A e \in Emitters : emitter'[e].at = "audit" => emitter'[e] = emitter[e]
  BY <1>1, <1>2
<1> HIDE DEF rec
<1> QED  BY <1>1, <1>3, <1>4, <1>5, CommitKeepsOnce

LEMMA CommitGapKeepsOnce ==
  ASSUME IngestInv, OnceInv, NEW e \in Emitters, CommitGap(e)
  PROVE  OnceInv' /\ Cardinality(orphans' \ Uncommitted) < MaxRecordsPerSegment
<1> DEFINE rec == emitter[e].rec
<1>1. /\ emitter[e].at = "audit" /\ emitter' = [emitter EXCEPT ![e] = NotEmitting]
      /\ emitter \in [Emitters -> Emitter]
      /\ UNCHANGED <<written, conn>>
      /\ \/ AuditObserve(rec) /\ UNCHANGED orphans
         \/ AuditObserveFails(rec)
  BY DEF CommitGap, log, IngestInv, IngestTypeOK, Emitter
<1>2. emitter'[e].at # "audit" /\ \A d \in Emitters \ {e} : emitter'[d] = emitter[d]
  BY <1>1 DEF NotEmitting, Emitter
<1>3. rec \in InFlight
  BY <1>1 DEF InFlight
<1>4. rec \notin InFlight' \/ rec = NoRecord
  BY <1>1, <1>2 DEF InFlight, OnceInv, HeldOnce, Held
<1>5. /\ \A d \in Connections : conn'[d].at = "audit" => conn'[d] = conn[d]
      /\ \A d \in Emitters : emitter'[d].at = "audit" => emitter'[d] = emitter[d]
  BY <1>1, <1>2
<1> HIDE DEF rec
<1> QED  BY <1>1, <1>3, <1>4, <1>5, CommitKeepsOnce

LEMMA AppendedKeepsOnce ==
  ASSUME IngestInv, OnceInv, NEW c \in Connections, Appended(c)
  PROVE  OnceInv'
<1>1. /\ LogAppend("event", {conn[c].frame}) /\ UNCHANGED <<audit, orphans, emitter>>
      /\ conn \in [Connections -> [at : Steps, frame : Frames \cup {NoFrame}, rec : Nat \cup {NoRecord}]]
      /\ conn' = [conn EXCEPT ![c] = [@ EXCEPT !.at = "audit", !.rec = NewRecord]]
  BY DEF Appended, IngestInv, IngestTypeOK
<1>2. conn'[c].rec = NewRecord /\ \A d \in Connections \ {c} : conn'[d] = conn[d]
  BY <1>1
<1> QED  BY <1>1, <1>2, AppendKeepsOnce

LEMMA LogGapKeepsOnce ==
  ASSUME IngestInv, OnceInv, NEW e \in Emitters, LogGap(e)
  PROVE  OnceInv'
<1>1. /\ emitter \in [Emitters -> Emitter]
      /\ emitter[e].at = "log" /\ emitter[e].rec = NoRecord
      /\ UNCHANGED <<audit, orphans, conn>>
  BY DEF LogGap, IngestInv, IngestTypeOK, Emitting, Emitter
<1>2. CASE /\ LogAppend("gap", emitter[e].frames)
           /\ emitter' = [emitter EXCEPT ![e] = [@ EXCEPT !.at = "audit", !.rec = NewRecord]]
  <2>1. emitter'[e].rec = NewRecord /\ \A d \in Emitters \ {e} : emitter'[d] = emitter[d]
    BY <1>1, <1>2
  <2> QED  BY <1>1, <1>2, <2>1, AppendKeepsOnce
<1>3. CASE LogRefuses /\ emitter' = [emitter EXCEPT ![e].at = "audit"]
  <2>1. UNCHANGED written
    BY <1>3 DEF LogRefuses
  <2>2. emitter'[e].rec = NoRecord /\ \A d \in Emitters \ {e} : emitter'[d] = emitter[d]
    BY <1>1, <1>3
  <2> QED  BY <1>1, <2>1, <2>2, OnceKept
<1> QED  BY <1>2, <1>3 DEF LogGap

LEMMA FlushKeepsOnce ==
  ASSUME IngestInv, OnceInv, Flush
  PROVE  OnceInv' /\ Cardinality(orphans' \ Uncommitted) < MaxRecordsPerSegment
<1>1. /\ UNCHANGED <<written, commitments, emitter, conn>>
      /\ \/ persisted' = persisted \cup batch /\ batch' = {} /\ UNCHANGED orphans
         \/ persisted' = persisted /\ batch' = {} /\ orphans' = orphans \cup (About(batch) \ {NoRecord})
  BY DEF Flush, Trail!Persist, Trail!Lose, log, counters
<1>2. BatchInv'
  BY <1>1, SegmentHolds, FS_EmptySet DEF BatchInv
<1>3. HeldOnce' /\ InFlight' = InFlight
  BY <1>1 DEF OnceInv, HeldOnce, InFlight
<1>4. About(1..Len(commitments))' = About(1..Len(commitments)) /\ About(batch) \subseteq About(1..Len(commitments))
  BY <1>1 DEF About, IngestInv, IngestTypeOK
<1>5. orphans' \subseteq Uncommitted'
  BY <1>1, TheBatchIsUncommitted DEF OnceInv, CommittedOnce, Uncommitted
<1>6. CommittedOnce'
  BY <1>1, <1>3, <1>4, <1>5 DEF OnceInv, CommittedOnce
<1>7. orphans' \ Uncommitted \subseteq About(batch)
  BY <1>1 DEF OnceInv, CommittedOnce
<1> QED  BY <1>2, <1>3, <1>6, <1>7, ABatchIsLost DEF OnceInv

LEMMA EndingKeepsOnce ==
  ASSUME IngestInv, OnceInv, Ending
  PROVE  OnceInv' /\ Cardinality(orphans' \ Uncommitted) < MaxRecordsPerSegment
<1>1. Gone
  BY DEF Ending, Crash, PowerFailure, StillBorrowed, CloseLog, LeaveOpen
<1>2. /\ UNCHANGED <<written, commitments>>
      /\ persisted' = persisted /\ batch' = {}
      /\ orphans' = {n \in 1..Len(written) : \A k \in persisted : commitments[k] # n}
      /\ \A e \in Emitters : emitter'[e].at # "audit"
      /\ \A c \in Connections : conn'[c].at # "audit"
  BY <1>1 DEF Gone, Trail!Lose, NotEmitting, Closed
<1>3. BatchInv'
  BY <1>2, SegmentHolds, FS_EmptySet DEF BatchInv
<1>4. HeldOnce' /\ InFlight' = {}
  BY <1>2 DEF HeldOnce, Held, InFlight
<1>5. orphans' = Uncommitted'
  BY <1>2 DEF Uncommitted
<1>6. CommittedOnce'
  BY <1>2, <1>4, <1>5 DEF OnceInv, CommittedOnce
<1>7. orphans' \ Uncommitted \subseteq About(batch)
  BY <1>2 DEF Uncommitted, About
<1> QED  BY <1>3, <1>4, <1>6, <1>7, ABatchIsLost DEF OnceInv

(* The rest commits and appends nothing, and gives nobody a record. *)
LEMMA BesidesKeepsOnce ==
  ASSUME IngestInv, OnceInv,
         \/ Boot \/ Evict \/ Pressure \/ Signal \/ UNCHANGED ivars
         \/ \E c \in Connections : Moved(c)
         \/ \E e \in Emitters : TakeDrops(e)
  PROVE  OnceInv' /\ UNCHANGED orphans
<1>1. /\ conn \in [Connections -> [at : Steps, frame : Frames \cup {NoFrame}, rec : Nat \cup {NoRecord}]]
      /\ emitter \in [Emitters -> [at : GapSteps, frames : SUBSET Frames, rec : Nat \cup {NoRecord}]]
  BY DEF IngestInv, IngestTypeOK
<1>2. CASE Boot \/ Evict \/ UNCHANGED ivars
  <2>1. UNCHANGED <<written, audit, orphans, conn, emitter>>
    BY <1>2 DEF Boot, Evict, ivars, log, process
  <2> QED  BY <2>1, OnceKept
<1>3. ASSUME NEW c \in Connections, Moved(c)
      PROVE  OnceInv' /\ UNCHANGED orphans
  <2>1. UNCHANGED <<written, audit, orphans, emitter>>
    BY <1>3 DEF Moved, Connect, Disconnect, Drop, Receive, Refused, LogRefuses, Decide, Respond, log
  <2>2. /\ \A d \in Connections \ {c} : conn'[d] = conn[d]
        /\ conn'[c] = conn[c] \/ conn'[c].at # "audit"
    BY <1>1, <1>3
    DEF Moved, Connect, Disconnect, Drop, Receive, Refused, Decide, Respond, AfterDecision, Idle, Closed
  <2> QED  BY <2>1, <2>2, OnceKept
<1>4. CASE Pressure \/ Signal \/ \E e \in Emitters : TakeDrops(e)
  <2>1. UNCHANGED <<written, audit, orphans, conn>>
    BY <1>4 DEF Pressure, Signal, TakeDrops, log
  <2>2. \A d \in Emitters : emitter'[d] = emitter[d] \/ emitter'[d].at # "audit"
    <3>1. CASE Pressure
      BY <1>1, <3>1 DEF Pressure
    <3>2. CASE Signal
      BY <1>1, <3>2 DEF Signal
    <3>3. ASSUME NEW e \in Emitters, TakeDrops(e)
          PROVE  \A d \in Emitters : emitter'[d] = emitter[d] \/ emitter'[d].at # "audit"
      <4>1. \/ emitter' = [emitter EXCEPT ![e] = NotEmitting]
            \/ emitter' = [emitter EXCEPT ![e] = [@ EXCEPT !.at = "log", !.frames = drops]]
        BY <3>3, Zenon DEF TakeDrops
      <4>2. /\ \A d \in Emitters \ {e} : emitter'[d] = emitter[d]
            /\ \/ emitter'[e] = NotEmitting
               \/ emitter'[e] = [emitter[e] EXCEPT !.at = "log", !.frames = drops]
        BY <1>1, <4>1
      <4>3. emitter'[e].at # "audit"
        <5>1. emitter[e] \in [at : GapSteps, frames : SUBSET Frames, rec : Nat \cup {NoRecord}]
          BY <1>1 DEF Emitter
        <5>2. CASE emitter'[e] = NotEmitting
          BY <5>2 DEF NotEmitting
        <5>3. CASE emitter'[e] = [emitter[e] EXCEPT !.at = "log", !.frames = drops]
          <6>1. emitter'[e].at = "log"
            BY <5>1, <5>3
          <6> QED  BY <6>1
        <5> QED  BY <4>2, <5>2, <5>3
      <4> QED  BY <4>2, <4>3
    <3>4. CASE \E e \in Emitters : TakeDrops(e)
      BY <3>3, <3>4
    <3> QED  BY <1>4, <3>1, <3>2, <3>4
  <2> QED  BY <2>1, <2>2, OnceKept
<1> QED  BY <1>2, <1>3, <1>4

LEMMA StepKeepsOnce ==
  ASSUME IngestInv, OnceInv, [IngestNext]_ivars
  PROVE  OnceInv' /\ Cardinality(orphans' \ Uncommitted) < MaxRecordsPerSegment
<1>1. CASE Ending
  BY <1>1, EndingKeepsOnce
<1>2. CASE Flush
  BY <1>2, FlushKeepsOnce
<1>3. ASSUME NEW c \in Connections, Commit(c) \/ CommitFails(c)
      PROVE  OnceInv' /\ Cardinality(orphans' \ Uncommitted) < MaxRecordsPerSegment
  BY <1>3, CommittedKeepsOnce
<1>4. ASSUME NEW e \in Emitters, CommitGap(e)
      PROVE  OnceInv' /\ Cardinality(orphans' \ Uncommitted) < MaxRecordsPerSegment
  BY <1>4, CommitGapKeepsOnce
<1>5. ASSUME NEW c \in Connections, Appended(c)
      PROVE  OnceInv' /\ Cardinality(orphans' \ Uncommitted) < MaxRecordsPerSegment
  <2>1. UNCHANGED orphans
    BY <1>5 DEF Appended
  <2> QED  BY <1>5, <2>1, AppendedKeepsOnce, NothingIsLost
<1>6. ASSUME NEW e \in Emitters, LogGap(e)
      PROVE  OnceInv' /\ Cardinality(orphans' \ Uncommitted) < MaxRecordsPerSegment
  <2>1. UNCHANGED orphans
    BY <1>6 DEF LogGap
  <2> QED  BY <1>6, <2>1, LogGapKeepsOnce, NothingIsLost
<1>7. CASE \/ Boot \/ Evict \/ Pressure \/ Signal \/ UNCHANGED ivars
           \/ \E c \in Connections : Moved(c)
           \/ \E e \in Emitters : TakeDrops(e)
  BY <1>7, BesidesKeepsOnce, NothingIsLost
<1> QED
  BY <1>1, <1>2, <1>3, <1>4, <1>5, <1>6, <1>7 DEF IngestNext, IngestOne, EmitGap, Moved, Ending

(* ingest.rs:483-498, 361-365: what the runs do not look at, and what      *)
(* LittleIsLost rests on: no two connections or emitters hold the same     *)
(* record between the two mutexes, none is committed twice or after it was *)
(* left behind, and the batch is never full between two steps.             *)
THEOREM OnceInvariant == IngestSpec => []OnceInv
<1>1. IngestInit => OnceInv
  BY InitIsOnce
<1>2. IngestInv /\ OnceInv /\ [IngestNext]_ivars => OnceInv'
  BY StepKeepsOnce
<1> QED  BY <1>1, <1>2, IngestInvariant, PTL DEF IngestSpec

(* writer.rs:89-107, ingest.rs:306-330: whatever fails or dies, and however     *)
(* many connections commit in between, fewer records than a segment of the *)
(* chain holds are left without a commitment by it.                        *)
THEOREM LossesAreBounded == IngestSpec => LittleIsLost
<1>1. IngestInv /\ OnceInv /\ [IngestNext]_ivars
        => [Cardinality(orphans' \ Uncommitted) < MaxRecordsPerSegment]_ivars
  BY StepKeepsOnce
<1> QED  BY <1>1, IngestInvariant, OnceInvariant, PTL DEF IngestSpec, LittleIsLost
=============================================================================
