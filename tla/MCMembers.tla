----------------------------- MODULE MCMembers -----------------------------
(* Two accounts, two usernames and two full names.                          *)
EXTENDS Members, TLC

Symmetry ==
  Permutations(Accounts) \cup Permutations(Names) \cup Permutations(FullNames)
    \cup Permutations(Handlers)
=============================================================================
