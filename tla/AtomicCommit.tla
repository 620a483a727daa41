---------------------------- MODULE AtomicCommit ----------------------------
(***************************************************************************)
(* What Vitess's two-phase commit promises about one distributed           *)
(* transaction, with no processes, messages, pools or crashes left.        *)
(*                                                                         *)
(*   decision   the durable verdict of the metadata manager                *)
(*   writers    the participants that have something to commit             *)
(*   redo       the writers whose statements are in a durable redo log     *)
(*   applied    the writers whose changes are durable                      *)
(***************************************************************************)
CONSTANT Participants

VARIABLES decision, writers, redo, applied

vars == <<decision, writers, redo, applied>>

(* Nothing is logged, decided or applied when the commit starts. *)
Init ==
  /\ decision = "none"
  /\ writers \in SUBSET Participants
  /\ redo = {}
  /\ applied = {}

(* A participant makes its statements durable. *)
Log(p) ==
  /\ p \in writers \ redo
  /\ p \notin applied
  /\ redo' = redo \cup {p}
  /\ UNCHANGED <<decision, writers, applied>>

(* A log may be discarded only once the transaction is rolled back. *)
Discard(p) ==
  /\ p \in redo
  /\ decision = "rollback"
  /\ redo' = redo \ {p}
  /\ UNCHANGED <<decision, writers, applied>>

(* The verdict is reached once; commit needs every writer's log. *)
Decide(d) ==
  /\ decision = "none"
  /\ d = "commit" => writers \subseteq redo
  /\ decision' = d
  /\ UNCHANGED <<writers, redo, applied>>

(* Applying the changes and dropping the log is one step. *)
Apply(p) ==
  /\ decision = "commit"
  /\ p \in redo
  /\ applied' = applied \cup {p}
  /\ redo' = redo \ {p}
  /\ UNCHANGED <<decision, writers>>

Next ==
  \/ \E p \in Participants : Log(p) \/ Discard(p) \/ Apply(p)
  \/ \E d \in {"commit", "rollback"} : Decide(d)

Spec == Init /\ [][Next]_vars
=============================================================================
