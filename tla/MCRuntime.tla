----------------------------- MODULE MCRuntime -----------------------------
(***************************************************************************)
(* Small instances of Runtime for TLC.                                     *)
(***************************************************************************)
EXTENDS Runtime

CONSTANTS m1, m2, reset, geo
=============================================================================
