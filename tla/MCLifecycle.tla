---------------------------- MODULE MCLifecycle ----------------------------
(***************************************************************************)
(* Events for Lifecycle: two creates that name the same resource, one with *)
(* an operation id and one with a business id, a payment that goes on by   *)
(* resource or by causation, and its settlement, found by causation and    *)
(* sent by another tenant.                                                 *)
(***************************************************************************)
EXTENDS Lifecycle, TLC

CONSTANTS c1, c2, p1, s1, r1, k1, k2, t1, t2

Payment == {c1, c2, p1, s1}
Trio == {c1, c2, s1}
Flow == {c1, p1, s1}

Once == [e \in Payment |-> 1]
Twice == [e \in Payment |-> IF e = c1 THEN 2 ELSE 1]

MCType == c1 :> "create" @@ c2 :> "create" @@ p1 :> "process" @@ s1 :> "settle"
MCTenant == [e \in Payment |-> IF e = s1 THEN t2 ELSE t1]
MCResource == [e \in Payment |-> IF e = s1 THEN None ELSE r1]
MCOperation == [e \in Payment |-> IF e = c1 THEN k1 ELSE None]
MCBusinessId == [e \in Payment |-> IF e = c2 THEN k2 ELSE None]
MCParent == [e \in Payment |-> IF e = s1 THEN c1 ELSE IF e = p1 THEN c2 ELSE None]
=============================================================================
