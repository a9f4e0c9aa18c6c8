-------------------------- MODULE ShipmentWorkflow --------------------------
(***************************************************************************)
(* The shipment status policy: domain/shipment_workflow.py.  Constant      *)
(* operators only, shared by the abstract ledger and by the services.      *)
(***************************************************************************)

Statuses == {"RECEIVED", "SORTING", "READY_FOR_COURIER", "ASSIGNED",
             "DISPATCHED", "RETURNED", "PROBLEM"}

(* The authoritative table of ordinary moves.                              *)
NORMAL_TRANSITIONS ==
  [s \in Statuses |->
     CASE s = "RECEIVED"          -> {"SORTING", "PROBLEM"}
       [] s = "SORTING"           -> {"READY_FOR_COURIER", "PROBLEM"}
       [] s = "READY_FOR_COURIER" -> {"ASSIGNED", "PROBLEM"}
       [] s = "ASSIGNED"          -> {"DISPATCHED", "READY_FOR_COURIER", "PROBLEM"}
       [] s = "DISPATCHED"        -> {"RETURNED"}
       [] s = "RETURNED"          -> {"SORTING", "PROBLEM"}
       [] s = "PROBLEM"           -> {}]

can_transition(current, target) == target \in NORMAL_TRANSITIONS[current]

(* Recovery goes back to the captured status or to one ordinary successor  *)
(* of it, never to PROBLEM through a successor.                            *)
can_recover(previous, target) ==
  \/ target = previous
  \/ target # "PROBLEM" /\ can_transition(previous, target)
=============================================================================
