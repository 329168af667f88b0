--------------------------- MODULE EquipmentStatus ---------------------------
(* The transition map of equipment requests: src/src/lib/domain/equipment-status.ts. *)

EquipmentStatuses ==
  {"submitted", "review", "approved", "ordered", "issued", "hold", "declined"}

\* EQUIPMENT_TRANSITIONS
EquipmentTransitions ==
  [ submitted |-> {"review", "approved", "declined", "hold"},
    review    |-> {"approved", "declined", "hold"},
    approved  |-> {"ordered", "issued", "hold", "declined"},
    ordered   |-> {"issued", "hold", "declined"},
    hold      |-> {"review", "approved", "declined"},
    declined  |-> {"review"},
    issued    |-> {} ]

CanTransition(from, to) == to \in EquipmentTransitions[from]
=============================================================================
