------------------------- MODULE MCEquipmentReview -------------------------
(***************************************************************************)
(* Small instances of EquipmentReview for TLC.                             *)
(***************************************************************************)
EXTENDS EquipmentReview

CONSTANTS a1, i1, i2

R(s, e) == [start |-> s, end |-> e]

Asked == {R(1, 2), R(2, 3)}

\* Two lists that overlap one another, one of them of two ranges; a list that
\* overlaps itself and an empty one are not accepted.
TypedLists == {Asked, {R(1, 3)}, {R(1, 3), R(2, 3)}, {}}
=============================================================================
