---------------------------- MODULE EventChannel ----------------------------
(***************************************************************************)
(* What the way of an event from the shim to the daemon promises,          *)
(* abstractly: an event that was made has at most one fate.  It is         *)
(* received, or told of as lost, or lost in silence; until then it is on   *)
(* its way.  A fate is final.                                              *)
(*                                                                         *)
(* ShimDelivery implements this: its buffers, sockets and spool files are  *)
(* the way.  A loss record may be told twice, after a failure: the second  *)
(* time changes nothing here.                                              *)
(***************************************************************************)
EXTENDS Naturals

CONSTANT Events

VARIABLES made, received, told, silent

channel == <<made, received, told, silent>>

OnItsWay == made \ (received \cup told \cup silent)

Init == made = {} /\ received = {} /\ told = {} /\ silent = {}

(* A new event is on its way, and may take the place of others, or find    *)
(* none itself.                                                            *)
Make ==
  /\ \E e \in Events \ made, gone \in SUBSET OnItsWay :
       /\ made' = made \cup {e}
       /\ silent' \in {silent \cup gone, silent \cup gone \cup {e}}
  /\ UNCHANGED <<received, told>>

Receive ==
  /\ \E e \in OnItsWay : received' = received \cup {e}
  /\ UNCHANGED <<made, told, silent>>

(* All that one loss record speaks of. *)
Tell ==
  /\ \E gone \in SUBSET OnItsWay : told' = told \cup gone
  /\ UNCHANGED <<made, received, silent>>

Lose ==
  /\ \E gone \in SUBSET OnItsWay : silent' = silent \cup gone
  /\ UNCHANGED <<made, received, told>>

Next == Make \/ Receive \/ Tell \/ Lose

Spec == Init /\ [][Next]_channel
=============================================================================
