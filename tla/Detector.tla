------------------------------ MODULE Detector -----------------------------
(***************************************************************************)
(* What the rest of the system takes a detection call to be: it is open,   *)
(* then it fails, or it answers once and for all with disjoint spans.      *)
(* VaultManager.assign throws when it is given anything else               *)
(* (packages/core/src/detector/index.ts, vault/manager.ts).                *)
(***************************************************************************)
EXTENDS Spans

VARIABLES outcome, detections

Init == outcome = "pending" /\ detections = <<>>

Answer ==
    /\ outcome = "pending"
    /\ outcome' = "answered"
    /\ Disjoint(detections')

Reject ==
    /\ outcome = "pending"
    /\ outcome' = "rejected"
    /\ UNCHANGED detections

Spec == Init /\ [][Answer \/ Reject]_<<outcome, detections>>
=============================================================================
