----------------------------- MODULE SlotLedger -----------------------------
(***************************************************************************)
(* What the bot promises about room slots, with no database in sight: each *)
(* slot has at most one owner, and nobody ever owns more than the weekly   *)
(* limit in a week.                                                        *)
(***************************************************************************)
EXTENDS Naturals, FiniteSets

CONSTANTS Users, Nobody, Slots, Weeks, WeekOf, Limit

VARIABLE ledger  \* slot -> its owner, or Nobody

Owned(u, w) == {s \in Slots : ledger[s] = u /\ WeekOf[s] = w}

\* u may be given one more slot of week w.
HasRoom(u, w) == Cardinality(Owned(u, w)) < Limit

LedgerInit == ledger = [s \in Slots |-> Nobody]

Book(u, s) ==
  /\ ledger[s] = Nobody
  /\ HasRoom(u, WeekOf[s])
  /\ ledger' = [ledger EXCEPT ![s] = u]

\* A cancellation frees one slot, the weekly reset and the deletion of a
\* member a set of them.
Release(S) ==
  ledger' = [s \in Slots |-> IF s \in S THEN Nobody ELSE ledger[s]]

Give(s, u) ==
  /\ ledger[s] \in Users \ {u}
  /\ HasRoom(u, WeekOf[s])
  /\ ledger' = [ledger EXCEPT ![s] = u]

\* A swap within a week changes nobody's count.
Trade(s, t) ==
  /\ ledger[s] \in Users /\ ledger[t] \in Users
  /\ WeekOf[s] = WeekOf[t]
  /\ ledger' = [ledger EXCEPT ![s] = ledger[t], ![t] = ledger[s]]

LedgerNext ==
  \/ \E u \in Users, s \in Slots : Book(u, s) \/ Give(s, u)
  \/ \E S \in SUBSET Slots : Release(S)
  \/ \E s, t \in Slots : Trade(s, t)

LedgerSpec == LedgerInit /\ [][LedgerNext]_ledger

(***************************************************************************)
(* Nobody owns more slots of a week than the weekly limit.                 *)
(***************************************************************************)
LedgerWithinLimit ==
  \A u \in Users, w \in Weeks : Cardinality(Owned(u, w)) <= Limit
=============================================================================
