------------------------- MODULE MCEquipmentWizard -------------------------
(***************************************************************************)
(* Small instances of EquipmentWizard for TLC.                             *)
(***************************************************************************)
EXTENDS EquipmentWizard, TLC

\* club_name, event_name and venue are asked and stored as equipment_text is.
Flow == <<"equipment_text", "needed_at_text", "reason_text", "comments">>

CONSTANTS t1, t2

Symmetry == Permutations(Taps)
=============================================================================
