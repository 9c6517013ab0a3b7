----------------------------- MODULE AuditTrail -----------------------------
(***************************************************************************)
(* What the audit chain promises about the commitments handed to it, with  *)
(* no hashes, sequence numbers or files.  Commitments are numbered in the  *)
(* order in which they are observed.  They collect in a batch, and a batch *)
(* reaches the disk as a whole or is lost as a whole; what is on disk      *)
(* stays there.                                                            *)
(***************************************************************************)
EXTENDS Naturals

CONSTANT Commitments

VARIABLES
  persisted,    \* on disk
  batch         \* observed and not on disk yet

trail == <<persisted, batch>>

Init == persisted = {} /\ batch = {}

Latest(c) == \A d \in persisted \cup batch : d < c

Observe ==
  \E c \in Commitments :
    /\ Latest(c)
    /\ batch' = batch \cup {c}
    /\ UNCHANGED persisted

(* The commitment fills the batch. *)
ObserveAndPersist ==
  \E c \in Commitments :
    /\ Latest(c)
    /\ persisted' = persisted \cup batch \cup {c}
    /\ batch' = {}

Persist ==
  /\ persisted' = persisted \cup batch
  /\ batch' = {}

Lose ==
  /\ batch' = {}
  /\ UNCHANGED persisted

Next == Observe \/ ObserveAndPersist \/ Persist \/ Lose

Spec == Init /\ [][Next]_trail
=============================================================================
