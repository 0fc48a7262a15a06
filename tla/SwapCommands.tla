---------------------------- MODULE SwapCommands ----------------------------
(***************************************************************************)
(* Swap offers: swap_service.py. An offer names its two slots by date and  *)
(* hour. Deciding one reads the offer and both bookings FOR UPDATE.        *)
(***************************************************************************)
EXTENDS GiftCommands

\* create_swap_offer reads both bookings without a lock.
SwapStart(p) ==
  \E r \in Requests :
    /\ r.op = "swap"
    /\ LET mine   == bookings[r.mine]
           theirs == bookings[r.theirs]
       IN  /\ Live(r.theirs)
           /\ mine.owner = r.user
           /\ theirs.owner # r.user
           /\ ~Past(mine.slot) /\ ~Past(theirs.slot)
           /\ draft' = [draft EXCEPT ![p] =
                          [giver |-> r.user, receiver |-> theirs.owner,
                           give |-> mine.slot, want |-> theirs.slot,
                           status |-> "pending"]]
    /\ IdLeft(serial.swap, MaxSwaps, {"swapInsert"})
    /\ Begin(p, r, {r.mine, r.theirs}, "swapInsert")
    /\ UNCHANGED <<tables, setting, held>>

\* The parties are foreign keys: a member who is gone fails the INSERT.
SwapInsert(p) ==
  /\ pc[p] = "swapInsert"
  /\ \/ /\ {draft[p].giver, draft[p].receiver} \subseteq members
        /\ swaps' = [swaps EXCEPT ![serial.swap] = draft[p]]
        /\ serial' = [serial EXCEPT !.swap = @ + 1]
     \/ /\ ~ {draft[p].giver, draft[p].receiver} \subseteq members
        /\ UNCHANGED <<swaps, serial>>
  /\ Finish(p)
  /\ UNCHANGED <<bookings, gifts, setting>>

-----------------------------------------------------------------------------
(* accept_swap_offer *)

Mine(p)   == swaps[req[p].offer]
GiveRow(p) == OwnedAt(Mine(p).giver, Mine(p).give)
WantRow(p) == OwnedAt(Mine(p).receiver, Mine(p).want)

\* Mutant of SwapAcceptStart: an offer already decided is accepted.
SwapAcceptDecided(p) ==
  \E r \in Requests :
    /\ r.op = "swapAccept"
    /\ Free(p, {SwapLock(r.offer)})
    /\ swaps[r.offer].receiver = r.user
    /\ Begin(p, r, {}, "swapGive")
    /\ held' = [held EXCEPT ![p] = {SwapLock(r.offer)}]
    /\ UNCHANGED <<tables, setting, draft>>

SwapAcceptStart(p) ==
  \E r \in Requests :
    /\ r.op = "swapAccept"
    /\ Free(p, {SwapLock(r.offer)})
    /\ swaps[r.offer].status = "pending"
    /\ swaps[r.offer].receiver = r.user
    /\ Begin(p, r, {}, "swapGive")
    /\ held' = [held EXCEPT ![p] = {SwapLock(r.offer)}]
    /\ UNCHANGED <<tables, setting, draft>>

\* Mutant of LoadLocked: a plain SELECT.
LoadUnlocked(p, B, next) ==
  /\ rows' = [rows EXCEPT ![p] = @ \cup B]
  /\ GoTo(p, next)
  /\ UNCHANGED <<tables, setting, draft, held>>

\* SELECT ... FOR UPDATE: load and lock the rows B, none or one.
LoadLocked(p, B, next) ==
  /\ Free(p, {RowLock(b) : b \in B})
  /\ rows' = [rows EXCEPT ![p] = @ \cup B]
  /\ held' = [held EXCEPT ![p] = @ \cup {RowLock(b) : b \in B}]
  /\ GoTo(p, next)
  /\ UNCHANGED <<tables, setting, draft>>

SwapGive(p) == pc[p] = "swapGive" /\ LoadLocked(p, GiveRow(p), "swapWant")
SwapWant(p) == pc[p] = "swapWant" /\ LoadLocked(p, WantRow(p), "swapWrite")

\* Other pending offers for either slot end with the swap.
Rivals(o) ==
  {x \in SwapIds \ {o} :
     /\ swaps[x].status = "pending"
     /\ {swaps[x].give, swaps[x].want} \cap {swaps[o].give, swaps[o].want} # {}}

\* Mutant of Exchangeable: one booking is enough.
ExchangeableAlone(p) == ~Past(Mine(p).give) /\ ~Past(Mine(p).want)

\* Both bookings were found and neither slot has started.
Exchangeable(p) ==
  /\ Cardinality(rows[p]) = 2
  /\ ~Past(Mine(p).give) /\ ~Past(Mine(p).want)

OtherParty(o, u) ==
  IF u = swaps[o].giver THEN swaps[o].receiver ELSE swaps[o].giver

Exchange(p) ==
  LET o == req[p].offer IN
    /\ Free(p, {SwapLock(x) : x \in Rivals(o)})
    /\ bookings' = [b \in BookingIds |->
                      IF b \in rows[p]
                      THEN [bookings[b] EXCEPT !.owner = OtherParty(o, @)]
                      ELSE bookings[b]]
    /\ swaps' = [x \in SwapIds |->
                   IF x = o THEN [swaps[x] EXCEPT !.status = "accepted"]
                   ELSE IF x \in Rivals(o)
                        THEN [swaps[x] EXCEPT !.status = "cancelled"]
                        ELSE swaps[x]]

SwapWrite(p) ==
  /\ pc[p] = "swapWrite"
  /\ \/ Exchangeable(p) /\ Exchange(p)
     \/ /\ ~Exchangeable(p)
        /\ swaps' = [swaps EXCEPT ![req[p].offer].status = "cancelled"]
        /\ UNCHANGED bookings
  /\ Finish(p)
  /\ UNCHANGED <<gifts, serial, setting>>

\* Mutant of SwapDecline: the offer is read without FOR UPDATE.
SwapDeclineUnlocked(p) ==
  \E r \in Requests :
    /\ r.op = "swapDecline"
    /\ swaps[r.offer].status = "pending"
    /\ swaps[r.offer].receiver = r.user
    /\ swaps' = [swaps EXCEPT ![r.offer].status = "declined"]
    /\ AtOnce(p)
    /\ UNCHANGED <<bookings, gifts, serial, setting>>

\* decline_swap_offer: one row, read FOR UPDATE and written.
SwapDecline(p) ==
  \E r \in Requests :
    /\ r.op = "swapDecline"
    /\ Free(p, {SwapLock(r.offer)})
    /\ swaps[r.offer].status = "pending"
    /\ swaps[r.offer].receiver = r.user
    /\ swaps' = [swaps EXCEPT ![r.offer].status = "declined"]
    /\ AtOnce(p)
    /\ UNCHANGED <<bookings, gifts, serial, setting>>
=============================================================================
