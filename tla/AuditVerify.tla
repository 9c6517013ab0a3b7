---------------------------- MODULE AuditVerify ----------------------------
(***************************************************************************)
(* "athar audit verify" beside the daemon (athar-cli/main.rs, persistence. *)
(* rs): verify_all lists the directory once and then reads one segment     *)
(* after the other, with no lock the daemon would respect.  Each read is a *)
(* step; the daemon writes, redacts, exits and boots between them.         *)
(***************************************************************************)
EXTENDS AuditChain

CONSTANT MaxCommands      \* bound: commands run

ASSUME CommandBound == MaxCommands \in Nat

VARIABLES
  at,           \* "idle", "reading", and the outcome: "passed" or "broken"
  unread,       \* the ids listed and not yet read
  prev_tip,     \* the tips that the next segment may anchor to, {} for any
  began,        \* history: did the chain verify when it was listed?
  commands      \* history: commands so far

cli == <<at, unread, prev_tip, began, commands>>
vvars == <<avars, cli>>

VerifyInit ==
  /\ AuditInit
  /\ at = "idle" /\ unread = {} /\ prev_tip = {}
  /\ began = TRUE /\ commands = 0

-----------------------------------------------------------------------------
(* cmd_audit_verify: the directory is created if it is not there. *)
StartVerify ==
  /\ at = "idle" /\ at' = "reading"
  /\ commands < MaxCommands /\ commands' = commands + 1
  /\ unread' = Ids /\ prev_tip' = {} /\ began' = VerifyAll

(* The first segment anchors to nothing, each other one to that before it. *)
Anchors(s) == prev_tip = {} \/ First(s).prev_hash \in prev_tip

Accept(i) ==
  /\ unread' = unread \ {i} /\ prev_tip' = {Last(store[i]).record_hash}
  /\ UNCHANGED <<at, began, commands>>

(* The first break ends the loop. *)
Reject ==
  /\ at' = "broken"
  /\ UNCHANGED <<unread, prev_tip, began, commands>>

(* Mutant of ReadSegment: each segment by itself. *)
ReadAlone ==
  /\ at = "reading"
  /\ \E i \in unread :
       /\ \A j \in unread : i <= j
       /\ \/ Verifies(store[i]) /\ Accept(i)
          \/ ~Verifies(store[i]) /\ Reject

(* Mutant of ReadSegment: in the order of the directory, not of the ids.   *)
ReadUnsorted ==
  /\ at = "reading"
  /\ \E i \in unread :
       \/ Verifies(store[i]) /\ Anchors(store[i]) /\ Accept(i)
       \/ ~(Verifies(store[i]) /\ Anchors(store[i])) /\ Reject

(* One turn of the loop of verify_all. *)
ReadSegment ==
  /\ at = "reading"
  /\ \E i \in unread :
       /\ \A j \in unread : i <= j
       /\ \/ Verifies(store[i]) /\ Anchors(store[i]) /\ Accept(i)
          \/ ~(Verifies(store[i]) /\ Anchors(store[i])) /\ Reject

EndOfChain ==
  /\ at = "reading" /\ unread = {} /\ at' = "passed"
  /\ UNCHANGED <<unread, prev_tip, began, commands>>

(* The exit code: 0 if it passed, 1 if it found a break. *)
Report ==
  /\ at \in {"passed", "broken"} /\ at' = "idle"
  /\ unread' = {} /\ prev_tip' = {} /\ began' = TRUE
  /\ UNCHANGED commands

Verify == StartVerify \/ ReadSegment \/ EndOfChain \/ Report

VerifyNext ==
  \/ AuditNext /\ UNCHANGED cli
  \/ Verify /\ UNCHANGED avars

VerifySpec == VerifyInit /\ [][VerifyNext]_vvars

-----------------------------------------------------------------------------
(* persistence.rs:84-86 read beside the writer: no close, exit or boot of  *)
(* the daemon between two reads makes verify_all report a break in a chain *)
(* that has none; only a lost write or a redaction does.                   *)
FailIsRight == at = "broken" => damaged

(* And none hides a break: "audit verify" exits with 0 only if the whole   *)
(* chain verified when the command began.                                  *)
PassIsRight == at = "passed" => began
=============================================================================
