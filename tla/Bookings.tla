------------------------------ MODULE Bookings ------------------------------
(***************************************************************************)
(* The booking core: members and admins book, cancel, give and swap slots  *)
(* through concurrent handlers over one database, while time passes, the   *)
(* weekly reset runs, handlers fail and PostgreSQL breaks deadlocks.       *)
(***************************************************************************)
EXTENDS MemberCommands

-----------------------------------------------------------------------------
(* The world around the handlers *)

\* A slot starts.
Tick ==
  /\ now < Horizon
  /\ now' = now + 1
  /\ UNCHANGED <<tables, weekly, skipped, members, access, locals>>

\* A handler dies between two statements, with the process or alone: its
\* session rolls back.
Fail(p) ==
  /\ pc[p] # "idle"
  /\ Finish(p)
  /\ UNCHANGED <<tables, setting>>

\* The locks a handler's next statement needs. An INSERT that waits for a
\* deletion is left out: nobody in a cycle can wait for its locks.
Wants(p) ==
  CASE pc[p] = "bookLimit"  -> {LimitLock(req[p].user, WeekOf[req[p].slot])}
    [] pc[p] = "giftLimit"  -> {LimitLock(req[p].user, WeekOf[bookings[b].slot])
                                  : b \in {b \in rows[p] : Live(b)}}
    [] pc[p] \in {"delete", "lateDelete", "clearing", "giftInsert",
                  "giftWrite"} ->
         {RowLock(b) : b \in rows[p]}
    [] pc[p] = "swapGive"   -> {RowLock(b) : b \in GiveRow(p)}
    [] pc[p] = "swapWant"   -> {RowLock(b) : b \in WantRow(p)}
    [] pc[p] = "swapWrite"  -> {SwapLock(x) : x \in Rivals(req[p].offer)}
    [] pc[p] = "dropBookings" -> {RowLock(b) : b \in BookingsOf(req[p].user)}
    [] pc[p] \in {"dropOffers", "dropMember"} -> OfferLocks(req[p].user)
    [] OTHER -> {}

WaitsFor(p, q) == p # q /\ Wants(p) \cap held[q] # {}

\* p waits, directly or not, for a cycle of handlers that wait for each other.
Deadlocked(p) ==
  \E C \in SUBSET Handlers :
    /\ p \in C
    /\ \A x \in C : \E y \in C : WaitsFor(x, y)

DeadlockVictim(p) == Deadlocked(p) /\ Fail(p)

-----------------------------------------------------------------------------
(* Specification *)

Start(p) ==
  \/ BookStart(p) \/ CancelStart(p) \/ RemoveStart(p)
  \/ Reserve(p) \/ Unreserve(p) \/ Skip(p)
  \/ ChangeAccess(p) \/ DeleteUserStart(p)
  \/ GiftStart(p) \/ GiftAcceptStart(p) \/ GiftDeclineStart(p)
  \/ SwapStart(p) \/ SwapAcceptStart(p) \/ SwapDecline(p)

Work(p) ==
  \/ BookLimit(p) \/ BookInsert(p) \/ Close(p)
  \/ Delete(p) \/ Warn(p) \/ ClearConflict(p)
  \/ GiftInsert(p) \/ GiftLimit(p) \/ GiftWrite(p) \/ GiftClose(p)
  \/ SwapInsert(p) \/ SwapGive(p) \/ SwapWant(p) \/ SwapWrite(p)
  \/ DropOffers(p) \/ DropBookings(p) \/ DropMember(p)

Next ==
  \/ \E p \in Handlers : Start(p) \/ Work(p) \/ DeadlockVictim(p) \/ Fail(p)
  \/ WeeklyReset
  \/ Tick

Init == StoreInit

Spec == Init /\ [][Next]_vars

\* The event loop runs every task that can run, a lock queue is first in,
\* first out, and PostgreSQL looks for deadlocks while a statement waits.
\* Nobody has to send a request, and time may stand still.
Fairness ==
  /\ \A p \in Handlers : SF_vars(Work(p))
  /\ WF_vars(\E p \in Handlers : DeadlockVictim(p))

FairSpec == Spec /\ Fairness

-----------------------------------------------------------------------------
(* Safety *)

(***************************************************************************)
(* No two bookings are for the same slot, whatever handlers race for it    *)
(* (uq_booking_date_hour and the IntegrityError branch).                   *)
(***************************************************************************)
SlotUnique ==
  \A b, c \in BookingIds :
    Live(b) /\ Live(c) /\ bookings[b].slot = bookings[c].slot => b = c

(***************************************************************************)
(* No lock is held by two transactions.                                    *)
(***************************************************************************)
LockExclusive ==
  \A p, q \in Handlers : p # q => held[p] \cap held[q] = {}

\* The member and week a handler has counted and is about to add a booking to.
Adding(p, u, w) ==
  \/ /\ pc[p] = "bookInsert"
     /\ u = req[p].user /\ w = WeekOf[req[p].slot]
  \/ /\ pc[p] = "giftWrite"
     /\ u = req[p].user
     /\ \E b \in rows[p] : Live(b) /\ w = WeekOf[bookings[b].slot]

(***************************************************************************)
(* What a handler counted before it writes stays true until it writes: the *)
(* member still has room for one more booking in that week. This is what   *)
(* the advisory lock is for.                                               *)
(***************************************************************************)
CountHolds ==
  \A p \in Handlers, u \in Users, w \in Weeks :
    Adding(p, u, w) => Count(u, w) < Limit

(***************************************************************************)
(* Nobody has more bookings in a week than weekly_limit.                   *)
(***************************************************************************)
WeeklyLimit == \A u \in Users, w \in Weeks : Count(u, w) <= Limit

(***************************************************************************)
(* While accept_swap_offer decides, the rows it has loaded FOR UPDATE are  *)
(* still there and still those of the two parties at the two slots.        *)
(***************************************************************************)
SwapRowsStable ==
  \A p \in Handlers :
    pc[p] \in {"swapWant", "swapWrite"} =>
      rows[p] \subseteq GiveRow(p) \cup WantRow(p)

-----------------------------------------------------------------------------
(* What a step may never do *)

OwnerAt(s) ==
  IF \E b \in BookingIds : bookings[b].slot = s
  THEN bookings[CHOOSE b \in BookingIds : bookings[b].slot = s].owner
  ELSE Nobody

(***************************************************************************)
(* A swap offer is decided once: once it is no longer pending it stays as  *)
(* it is, unless it is deleted with one of its parties (accept_swap_offer  *)
(* and decline_swap_offer read the offer FOR UPDATE).                      *)
(***************************************************************************)
SwapDecidedOnce ==
  [][\A o \in SwapIds :
       swaps[o].status \notin {"absent", "pending"} =>
         \/ swaps'[o] = swaps[o]
         \/ /\ swaps'[o] = NoSwap
            /\ ~ {swaps[o].giver, swaps[o].receiver} \subseteq members'
    ]_vars

(***************************************************************************)
(* A swap is accepted exactly when both slots change hands between its two *)
(* parties, and from the parties the offer names.                          *)
(***************************************************************************)
SwapExchanges ==
  [][\A o \in SwapIds :
       swaps[o].status = "pending" /\ swaps'[o].status = "accepted" =>
         /\ OwnerAt(swaps[o].give) = swaps[o].giver
         /\ OwnerAt(swaps[o].want) = swaps[o].receiver
         /\ OwnerAt(swaps[o].give)' = swaps[o].receiver
         /\ OwnerAt(swaps[o].want)' = swaps[o].giver
    ]_vars

\* Somebody offered booking b of user u, and v is who may accept.
Offered(b, u, v) ==
  \/ \E g \in GiftIds :
       gifts[g] = [booking |-> b, giver |-> u, recipient |-> v,
                   status |-> "pending"]
  \/ \E o \in SwapIds :
       /\ swaps[o].status = "pending"
       /\ \/ /\ swaps[o].giver = u /\ swaps[o].receiver = v
             /\ swaps[o].give = bookings[b].slot
          \/ /\ swaps[o].receiver = u /\ swaps[o].giver = v
             /\ swaps[o].want = bookings[b].slot

(***************************************************************************)
(* A booking changes hands only along a pending offer that its owner of    *)
(* that moment is a party to.                                              *)
(***************************************************************************)
ConsentedMove ==
  [][\A b \in BookingIds :
       Live(b) /\ Live(b)' /\ bookings'[b].owner # bookings[b].owner =>
         Offered(b, bookings[b].owner, bookings'[b].owner)
    ]_vars

Deleting(p) == pc[p] \in {"delete", "lateDelete"}

(***************************************************************************)
(* A member's cancellation removes a booking of that member               *)
(* (delete_booking looks it up by owner).                                  *)
(***************************************************************************)
CancelsOwn ==
  [][\A p \in Handlers :
       Deleting(p) /\ req[p].op = "cancel" /\ ~Deleting(p)' =>
         \A b \in rows[p] :
           Live(b) /\ ~Live(b)' => bookings[b].owner = req[p].user
    ]_vars

(***************************************************************************)
(* A booking that has not started yet is only removed by a cancellation    *)
(* that named it, because its own hour became weekly reserved, or with the *)
(* member whose booking it is at that moment, when that member is deleted: *)
(* the weekly reset deletes old bookings alone.                            *)
(***************************************************************************)
RemovedForCause ==
  [][\A b \in BookingIds :
       Live(b) /\ ~Live(b)' /\ ~Past(bookings[b].slot) =>
         \E p \in Handlers :
           /\ b \in rows[p]
           /\ \/ Deleting(p) /\ req[p].booking = b
              \/ pc[p] = "clearing" /\ req[p].key = KeyOf[bookings[b].slot]
              \/ /\ pc[p] = "dropMember" /\ req[p].user = bookings[b].owner
                 /\ req[p].user \notin members'
    ]_vars

-----------------------------------------------------------------------------
(* Liveness *)

(***************************************************************************)
(* Every request a handler takes up ends, also when handlers wait for each *)
(* other's locks.                                                          *)
(***************************************************************************)
RequestEnds == \A p \in Handlers : pc[p] # "idle" ~> pc[p] = "idle"

-----------------------------------------------------------------------------
(* The tables implement the ledger *)

Ledger == INSTANCE SlotLedger WITH ledger <- [s \in Slots |-> OwnerAt(s)]

(***************************************************************************)
(* Seen through the owner of each slot, every step books, releases, gives  *)
(* or trades within the weekly limit, or changes nothing.                  *)
(***************************************************************************)
ImplementsLedger == Ledger!LedgerSpec

-----------------------------------------------------------------------------
(* Nothing else happens to the bookings *)

\* What a handler that accepts a gift has read of it.
Accepting(p) ==
  IF pc[p] \in {"giftLimit", "giftWrite"}
  THEN [booking |-> CHOOSE b \in rows[p] : TRUE, to |-> req[p].user,
        seen |-> {}]
  ELSE [booking |-> 0, to |-> Nobody, seen |-> {}]

\* Ids run out at the bound.
NextBooking ==
  IF serial.booking <= MaxBookings THEN serial.booking ELSE MaxBookings + 1

\* The columns of the jobs are left out here, offers and locks there.
Table == INSTANCE BookingTable WITH
  Hours <- Slots, DayOf <- WeekOf, Horizon <- 2 * Horizon, time <- 2 * now,
  next <- NextBooking,
  bookings <- [b \in BookingIds |-> [hour |-> bookings[b].slot,
                                     owner |-> bookings[b].owner,
                                     marks |-> {}]],
  accepting <- [p \in Handlers |-> Accepting(p)]

(***************************************************************************)
(* Whatever the concurrent handlers do, the two jobs see one of the        *)
(* changes that they are checked against: a free hour is booked, bookings  *)
(* go, a gift is read ahead of its slot and written in the end, two        *)
(* members trade.                                                          *)
(***************************************************************************)
ImplementsTable == Table!TableSpec
=============================================================================
