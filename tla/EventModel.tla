----------------------------- MODULE EventModel -----------------------------
(***************************************************************************)
(* The canonical event of athar-event (lib.rs): which JSON bodies the      *)
(* daemon takes for an event, what it stores of one, and what the          *)
(* published schema (src/schema/event.v1.0.json) says.                     *)
(*                                                                         *)
(* A body is looked at field by field, and of a field only its quality     *)
(* counts: "wrong" is another JSON type, a name the enum does not have or  *)
(* a number its type cannot hold, "reserved" one of the tokens that stand  *)
(* for unknown, "illformed" a value outside the schema's pattern or range. *)
(* Other versions of the schema are "illformed" too.  A field is a pair of *)
(* the object it belongs to and its name.  Lists, which serde also reads   *)
(* as objects, are left out.                                               *)
(***************************************************************************)
Qualities == {"absent", "null", "wrong", "empty", "reserved", "illformed", "good"}
PartQualities == {"absent", "null", "wrong", "object"}

Of(part, names) == {part} \X names

Identity == {"event_id", "event_type", "tenant_id", "timestamp", "received_at"}
Actors == {"actor", "authenticated_principal", "on_behalf_of", "beneficiary", "resource_owner"}

RequiredParts == {"event", "clock", "provenance", "truth", "trust", "causality", "coverage"}
OptionalParts == Actors \cup {"caller", "service_identity", "resource", "operation",
                              "lifecycle", "entry_point", "technical_context"}
Parts == RequiredParts \cup OptionalParts

-----------------------------------------------------------------------------
(* The types of lib.rs: fields without a default and not Option, ...       *)
Required ==
  Of("event", Identity \cup {"schema_version"}) \cup (Actors \X {"resolution"})
  \cup Of("clock", {"source", "monotonic_seq"}) \cup Of("resource", {"type"})
  \cup Of("operation", {"type", "inference", "confidence"}) \cup Of("lifecycle", {"binding"})
  \cup Of("entry_point", {"type"}) \cup Of("provenance", {"origin", "trigger", "source"})
  \cup Of("truth", {"stage", "asserted_by"}) \cup Of("trust", {"level", "confidence"})
  \cup Of("coverage", {"complete"})

(* ... lists and the map, which default to empty but are never null, ...   *)
Lists ==
  (Actors \X {"conflicts"}) \cup Of("trust", {"factors"})
  \cup Of("causality", {"customer_correlation_ids"}) \cup Of("coverage", {"shed", "redacted_fields"})

(* ... and Options, of which some are written even when there is none.     *)
WrittenAsNull ==
  Of("clock", {"skew_estimate_ms"}) \cup Of("caller", {"application_id"})
  \cup Of("service_identity", {"id"}) \cup Of("resource", {"id"})
  \cup Of("provenance", {"producer", "authority"})

Optional ==
  WrittenAsNull \cup Of("event", {"data", "attributes"})
  \cup (Actors \X {"id", "type", "namespace", "confidence", "calibration"})
  \cup Of("authenticated_principal", {"auth_ref"}) \cup Of("caller", {"version", "platform"})
  \cup Of("service_identity", {"auth", "spiffe_id"}) \cup Of("resource", {"namespace"})
  \cup Of("operation", {"operation_id", "calibration"})
  \cup Of("lifecycle", {"lifecycle_id", "confidence", "calibration"})
  \cup Of("entry_point", {"endpoint_id", "method", "route", "route_template"})
  \cup Of("technical_context", {"application_id", "application_version", "platform", "module",
            "feature", "service_id", "service_version", "repository", "build",
            "deployment_id", "instance_id", "environment"})
  \cup Of("truth", {"adapter"}) \cup Of("trust", {"calibration"})
  \cup Of("causality", {"parent_event_id", "causation_id", "correlation_id"})
  \cup Of("coverage", {"degradation_level"})

Fields == Required \cup Lists \cup Optional

(* A body: its objects, their fields, and whether there is anything else.  *)
Bodies == [part : [Parts -> PartQualities], field : [Fields -> Qualities], extra : BOOLEAN]

(* The fields that are looked at: those of the objects that are there.     *)
Present(e) == {f \in Fields : e.part[f[1]] = "object"}

(* What may hold any JSON. *)
Untyped == Of("event", {"data", "attributes"})

(* serde_json::from_value::<Event>; what is unknown to it is ignored.      *)
Deserializes(e) ==
  /\ \A p \in RequiredParts : e.part[p] = "object"
  /\ \A p \in OptionalParts : e.part[p] # "wrong"
  /\ \A f \in Present(e) :
       /\ e.field[f] = "wrong" => f \in Untyped
       /\ e.field[f] = "absent" => f \notin Required
       /\ e.field[f] = "null" => f \in Optional

(* Mutant of Named: the reserved tokens are not looked up. *)
NonEmpty(q) == q # "empty"

(* check_nonempty and check_actor *)
Named(q) == q \notin {"empty", "reserved"}

(* Event::validate *)
Validates(e) ==
  /\ e.field[<<"event", "schema_version">>] = "good"
  /\ \A n \in Identity : Named(e.field[<<"event", n>>])
  /\ \A a \in Actors : e.part[a] = "object" => Named(e.field[<<a, "id">>])
  /\ e.field[<<"trust", "confidence">>] # "illformed"

Accepted(e) == Deserializes(e) /\ Validates(e)

(* What ingest_one stores of an event: serialized anew, with its own       *)
(* received_at, without what serde ignored and most of what is not there.  *)
Canonical(e) ==
  LET kept(f) ==
        IF f = <<"event", "received_at">> THEN "good"
        ELSE IF e.field[f] \in {"absent", "null"}
        THEN IF f \in WrittenAsNull THEN "null"
             ELSE IF f = <<"causality", "customer_correlation_ids">> THEN "empty" ELSE "absent"
        ELSE IF f \in Lists /\ f # <<"causality", "customer_correlation_ids">> /\ e.field[f] = "empty"
        THEN "absent"
        ELSE e.field[f]
  IN [part |-> [p \in Parts |-> IF e.part[p] = "object" THEN "object" ELSE "absent"],
      field |-> [f \in Fields |-> kept(f)],
      extra |-> FALSE]

-----------------------------------------------------------------------------
(* The schema. *)
SchemaRequired ==
  Of("event", Identity \cup {"schema_version"}) \cup (Actors \X {"resolution"})
  \cup Of("clock", {"source", "monotonic_seq"}) \cup Of("caller", {"application_id"})
  \cup Of("service_identity", {"id"}) \cup Of("resource", {"id", "type"})
  \cup Of("operation", {"type", "inference", "confidence"}) \cup Of("entry_point", {"type"})
  \cup Of("provenance", {"origin", "trigger", "source"}) \cup Of("truth", {"stage", "asserted_by"})
  \cup Of("trust", {"level", "confidence"}) \cup Of("coverage", {"complete"})

SchemaNullable ==
  (Actors \X {"id", "namespace"}) \cup Of("clock", {"skew_estimate_ms"})
  \cup Of("caller", {"application_id", "version", "platform"})
  \cup Of("service_identity", {"id", "auth", "spiffe_id"}) \cup Of("resource", {"id"})
  \cup Of("operation", {"operation_id"}) \cup Of("lifecycle", {"lifecycle_id"})
  \cup Of("entry_point", {"endpoint_id", "method", "route", "route_template"})
  \cup Of("technical_context", {"application_id", "application_version", "platform", "module",
            "feature", "service_id", "service_version", "repository", "build",
            "deployment_id", "instance_id", "environment"})
  \cup Of("provenance", {"producer", "authority"}) \cup Of("truth", {"adapter"})
  \cup Of("causality", {"parent_event_id", "causation_id", "correlation_id"})

(* Fields with a pattern or a format, and those of type nullableId. *)
SchemaNamed == Of("event", Identity) \cup (Actors \X {"id", "namespace"})

Conforms(e) ==
  /\ ~e.extra
  /\ \A p \in RequiredParts : e.part[p] = "object"
  /\ \A p \in OptionalParts : e.part[p] \in {"object", "absent"}
  /\ \A f \in Present(e) :
       /\ e.field[f] \notin {"wrong", "illformed"}
       /\ e.field[f] = "absent" => f \notin SchemaRequired
       /\ e.field[f] = "null" => f \in SchemaNullable
       /\ f \in SchemaNamed => e.field[f] \notin {"empty", "reserved"}
  /\ <<"authenticated_principal", "auth_ref">> \in Present(e)
       => e.field[<<"authenticated_principal", "auth_ref">>] = "absent"
  /\ e.field[<<"event", "schema_version">>] = "good"

-----------------------------------------------------------------------------
(* MOD-7 of a stored event: whoever reads it later finds every identity,   *)
(* and an actor's only if it is known, and can trust its confidence.       *)
Genuine(e) ==
  /\ \A n \in Identity : e.field[<<"event", n>>] \in {"illformed", "good"}
  /\ \A a \in Actors :
       e.part[a] = "object" => e.field[<<a, "id">>] \in {"absent", "illformed", "good"}
  /\ e.field[<<"trust", "confidence">>] \notin {"absent", "null", "wrong", "illformed"}
=============================================================================
