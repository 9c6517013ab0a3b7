------------------------------ MODULE MCIngest ------------------------------
(***************************************************************************)
(* Frames for Ingest: an event that asks for a decision, one that does     *)
(* not, one that stands a token where it does not know its tenant, and a   *)
(* status query.                                                           *)
(***************************************************************************)
EXTENDS Ingest, TLC

CONSTANTS a, b, evaluation, event, forged, query

Complete ==
  [part |-> [p \in Parts |-> IF p \in RequiredParts \cup {"actor"} THEN "object" ELSE "absent"],
   field |-> [f \in Fields |-> IF f \in Required \cup Of("actor", {"id"}) THEN "good" ELSE "absent"],
   extra |-> FALSE]

MCBody ==
  evaluation :> [Complete EXCEPT !.extra = TRUE]
    @@ event :> Complete
    @@ forged :> [Complete EXCEPT !.field[<<"event", "tenant_id">>] = "reserved"]
    @@ query :> [part |-> [p \in Parts |-> "absent"],
                 field |-> [f \in Fields |-> "absent"], extra |-> TRUE]

Clients == Permutations(Connections)
=============================================================================
