--------------------------- MODULE EvidenceLedger ---------------------------
(***************************************************************************)
(* What the evidence store promises the rest of the daemon, with no files, *)
(* no byte counts and no segment numbers.  Records are numbered in the     *)
(* order in which they were offered.  A record enters as `pending` (held   *)
(* by the segment being written), becomes `sealed` when that segment is    *)
(* closed, and leaves in one of two ways only: the oldest sealed records   *)
(* expire, and a crash sets the unsealed records aside, keeping what       *)
(* reached the disk.  Nothing is ever changed or reordered.                *)
(***************************************************************************)
EXTENDS Naturals

CONSTANT Records    \* the numbers a record may have

VARIABLES
  sealed,     \* records in closed segments
  pending,    \* records in the segment being written
  aside       \* records kept for inspection, out of the log

ledger == <<sealed, pending, aside>>

Init ==
  /\ sealed = {}
  /\ pending = {}
  /\ aside = {}

(* A new record is younger than everything in the ledger. *)
Younger(r) == \A q \in sealed \cup pending \cup aside : q < r

Accept ==
  \E r \in Records :
    /\ Younger(r)
    /\ pending' = pending \cup {r}
    /\ UNCHANGED <<sealed, aside>>

Seal ==
  /\ sealed' = sealed \cup pending
  /\ pending' = {}
  /\ UNCHANGED aside

(* The segment is full: it is closed and the record opens the next one. *)
SealAndAccept ==
  \E r \in Records :
    /\ Younger(r)
    /\ sealed' = sealed \cup pending
    /\ pending' = {r}
    /\ UNCHANGED aside

(* Retention takes the oldest sealed records, never one from the middle. *)
Expire ==
  /\ sealed' \subseteq sealed
  /\ \A gone \in sealed \ sealed', kept \in sealed' : gone < kept
  /\ UNCHANGED <<pending, aside>>

(* Records that can no longer be sealed are set aside, not discarded; a    *)
(* machine that loses power keeps the older part of what was not sealed.   *)
SetAside ==
  /\ pending' = {}
  /\ aside' \subseteq aside \cup pending
  /\ \A gone \in (aside \cup pending) \ aside', kept \in aside' : kept < gone
  /\ UNCHANGED sealed

Next == Accept \/ Seal \/ SealAndAccept \/ Expire \/ SetAside

Spec == Init /\ [][Next]_ledger
=============================================================================
