----------------------------- MODULE MCCheckIn -----------------------------
(***************************************************************************)
(* Small instances of CheckIn for TLC.                                     *)
(***************************************************************************)
EXTENDS CheckIn, TLC

CONSTANTS ann, ben

OneDay == [h \in Hours |-> 1]

UserSymmetry == Permutations(Users)

\* Bound: one mishap at a time. A member gets a booking whose hour has started,
\* or the job dies or misses a phase.
OneMishap == late = {} \/ (late # Users /\ faults = 0 /\ missed <= 1)
=============================================================================
