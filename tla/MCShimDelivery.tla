---------------------------- MODULE MCShimDelivery ----------------------------
(***************************************************************************)
(* Frames for ShimDelivery, in a buffer of two frames and two units of     *)
(* bytes: p's third frame takes the room of both before it, q's second is  *)
(* too large for the buffer and is dropped with the first.                 *)
(***************************************************************************)
EXTENDS ShimDelivery

CONSTANTS p, q

MCRequests == {p, q}

MCSize ==
  [f \in MCRequests \X (1..MaxObserved) |->
     CASE f = <<p, 3>> -> 2
       [] f = <<q, 2>> -> 3
       [] OTHER -> 1]
=============================================================================
