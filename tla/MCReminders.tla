---------------------------- MODULE MCReminders ----------------------------
(***************************************************************************)
(* Small instances of Reminders for TLC.                                   *)
(***************************************************************************)
EXTENDS Reminders

CONSTANTS ann, ben

OneDay == [h \in Hours |-> 1]
=============================================================================
