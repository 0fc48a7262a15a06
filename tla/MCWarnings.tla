----------------------------- MODULE MCWarnings -----------------------------
(***************************************************************************)
(* Small instances of Warnings for TLC.                                    *)
(***************************************************************************)
EXTENDS Warnings, TLC

CONSTANTS p1, p2

HandlerSymmetry == Permutations(Handlers)
=============================================================================
