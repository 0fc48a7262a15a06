-------------------------- MODULE MCRuntimeConfig --------------------------
(***************************************************************************)
(* Small instances of RuntimeConfig for TLC.                               *)
(***************************************************************************)
EXTENDS RuntimeConfig, TLC

CONSTANTS r1, r2, w1, w2

\* One setting alone, and together with another.
AskedFor == {{"geo_center_lat"}, {"geo_center_lat", "rules_text"}}

Symmetry == Permutations(Writers) \cup Permutations(Readers)

\* Typed texts reach the cache through the writers, as commands do: TLC follows
\* a dialog with an empty cache, and the cache without a dialog.
DialogApart ==
  dialog # Closed \/ (\E j \in Writers : w[j].clears) =>
    now = 0 /\ \A i \in Readers : r[i] = IdleReader
=============================================================================
