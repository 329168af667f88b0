------------------------- MODULE MCEquipmentWorkflow -------------------------
(* Small instances of EquipmentWorkflow for TLC. *)
EXTENDS EquipmentWorkflow

CONSTANTS alice, bob

TwoAgents == {alice, bob}
=============================================================================
