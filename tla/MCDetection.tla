---------------------------- MODULE MCDetection ----------------------------
(***************************************************************************)
(* Detection and PolicyReload beside one another, the two halves of what   *)
(* the daemon decides by.  They share no state: what a decision needs of   *)
(* the policies it reads in one step, under their lock.                    *)
(*                                                                         *)
(* The events are payments by an actor to a resource and to two            *)
(* beneficiaries, one by another actor, and a failed login of the          *)
(* tenant's, who looks at the same resource.                               *)
(***************************************************************************)
EXTENDS Detection, PolicyReload

CONSTANTS a, b, r1, s1, s2, t1, strict, lenient

Payment(actor, resource, target) ==
  [type |-> "payment", tenant |-> t1, actor |-> actor, resource |-> resource,
   target |-> target, outcome |-> None]

MCEvents ==
  {Payment(s1, r1, 1), Payment(s1, None, 2), Payment(s2, None, 1),
   [type |-> "session", tenant |-> t1, actor |-> None, resource |-> r1, target |-> None,
    outcome |-> "failed"]}

MCInit == DetectInit /\ PolicyInit

(* MaxWork bounds the events and the edits together. *)
MCNext ==
  \/ DetectNext /\ taken' + edits <= MaxWork /\ UNCHANGED pvars
  \/ PolicyNext /\ taken + edits' <= MaxWork /\ UNCHANGED detectvars

MCSpec == MCInit /\ [][MCNext]_<<detectvars, pvars>> /\ PolicyFairness
=============================================================================
