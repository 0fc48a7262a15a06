---------------------------- MODULE BookingStore ----------------------------
(***************************************************************************)
(* The database tables behind bookings, gift offers and swap offers, and   *)
(* the handler tasks that work on them.                                    *)
(*                                                                         *)
(* A handler is one asyncio task with one database session. It runs one    *)
(* request at a time; pc, req, rows, draft and held are its locals: where  *)
(* it stands, what it was asked, the bookings it has loaded, the swap      *)
(* offer it is about to insert and the database locks of its transaction.  *)
(* PostgreSQL runs at READ COMMITTED, so a statement sees what is          *)
(* committed when it starts, and a handler can be interrupted between any  *)
(* two statements. A write and the COMMIT that follows it are one step.    *)
(***************************************************************************)
EXTENDS Naturals, FiniteSets

CONSTANTS
  Users, Nobody,  \* members; the owner of an absent row
  Handlers,       \* concurrent handler tasks
  Slots,          \* room hours, numbered by the time they start
  Weeks, WeekOf,  \* calendar weeks; the week of a slot
  KeyOf,          \* weekday and hour of a slot, its place in any week
  WeekOpens,      \* time from which a week is the bookable one
  Limit,          \* weekly_limit
  Requests,       \* what members and admins may ask
  MaxBookings, MaxGifts, MaxSwaps, Horizon  \* bounds: ids ever used, time

BookingIds == 1..MaxBookings
GiftIds    == 1..MaxGifts
SwapIds    == 1..MaxSwaps
Keys       == {KeyOf[s] : s \in Slots}

Request ==
       [op : {"book"}, user : Users, slot : Slots, by : {"member", "admin"}]
  \cup [op : {"cancel"}, user : Users, booking : BookingIds]
  \cup [op : {"remove"}, booking : BookingIds]
  \cup [op : {"reserve"}, key : Keys, by : {"panel", "command"}]
  \cup [op : {"unreserve"}, key : Keys]
  \cup [op : {"skip"}, slot : Slots]
  \cup [op : {"allow", "revoke", "deleteUser"}, user : Users]
  \cup [op : {"gift"}, user : Users, booking : BookingIds, to : Users]
  \cup [op : {"giftAccept", "giftDecline"}, user : Users, offer : GiftIds]
  \cup [op : {"swap"}, user : Users, mine : BookingIds, theirs : BookingIds]
  \cup [op : {"swapAccept", "swapDecline"}, user : Users, offer : SwapIds]

NoRequest == [op |-> "none"]

ASSUME CalendarAssumption ==
  /\ Slots \subseteq Nat \ {0}
  /\ Weeks \subseteq Nat /\ IsFiniteSet(Weeks)
  /\ WeekOf \in [Slots -> Weeks]
  /\ WeekOpens \in [Weeks -> Nat]
  /\ \E w \in Weeks : WeekOpens[w] = 0

ASSUME StoreAssumption ==
  /\ Nobody \notin Users
  /\ Limit \in Nat
  /\ MaxBookings \in Nat
  /\ MaxGifts \in Nat
  /\ MaxSwaps \in Nat
  /\ Horizon \in Nat
  /\ Requests \subseteq Request

VARIABLES
  bookings, gifts, swaps,  \* tables: id -> row
  serial,                  \* next id of each table
  weekly, skipped,         \* weekly_slots; club_slot_cancellations by slot
  members,                 \* users that have a row
  access,                  \* users that are allowed and not banned
  now,                     \* the time: slot s has started when s <= now
  pc, req, rows, draft, held

tables  == <<bookings, gifts, swaps, serial>>
setting == <<weekly, skipped, members, access, now>>
locals  == <<pc, req, rows, draft, held>>
vars    == <<tables, setting, locals>>

-----------------------------------------------------------------------------
(* Rows *)

BookingRow == [slot : Slots, owner : Users]
NoBooking  == [slot |-> 0, owner |-> Nobody]

Decision == {"pending", "accepted", "declined", "cancelled", "expired"}
GiftRow  == [booking : BookingIds, giver : Users, recipient : Users,
             status : Decision]
NoGift   == [booking |-> 0, giver |-> Nobody, recipient |-> Nobody,
             status |-> "absent"]

SwapRow == [giver : Users, receiver : Users, give : Slots, want : Slots,
            status : Decision]
NoSwap  == [giver |-> Nobody, receiver |-> Nobody, give |-> 0, want |-> 0,
            status |-> "absent"]

Live(b) == bookings[b] # NoBooking

\* The rows of one member's bookings in one week.
Holdings(u, w) ==
  {b \in BookingIds : bookings[b].owner = u /\ WeekOf[bookings[b].slot] = w}

Count(u, w) == Cardinality(Holdings(u, w))

\* The booking of slot s that belongs to u: at most one, date and hour being
\* unique.
OwnedAt(u, s) == {b \in BookingIds : bookings[b] = [slot |-> s, owner |-> u]}

SlotTaken(s) == \E b \in BookingIds : bookings[b].slot = s

Past(s) == s <= now

IsReserved(s) == KeyOf[s] \in weekly /\ s \notin skipped

\* The week whose Monday get_current_week_dates returns.
CurrentWeek ==
  CHOOSE w \in Weeks :
    /\ WeekOpens[w] <= now
    /\ \A v \in Weeks : WeekOpens[v] <= now => v <= w

\* Deleting a booking deletes its gift offers (ON DELETE CASCADE).
DeleteBookings(B) ==
  /\ bookings' = [b \in BookingIds |-> IF b \in B THEN NoBooking
                                                  ELSE bookings[b]]
  /\ gifts' = [g \in GiftIds |-> IF gifts[g].booking \in B THEN NoGift
                                                           ELSE gifts[g]]

-----------------------------------------------------------------------------
(* Locks of a transaction, and the handler's control *)

LimitLock(u, w) == <<"limit", u, w>>
RowLock(b)      == <<"booking", b>>
SwapLock(o)     == <<"swap", o>>

Locks == {LimitLock(u, w) : u \in Users, w \in Weeks}
           \cup {RowLock(b) : b \in BookingIds}
           \cup {SwapLock(o) : o \in SwapIds}

Free(p, L) == \A q \in Handlers \ {p} : held[q] \cap L = {}

Stages == {"idle", "bookLimit", "bookInsert", "closing", "delete",
           "lateDelete", "warning", "clearing", "giftInsert", "giftLimit",
           "giftWrite", "giftCancelled", "giftExpired", "giftDeclined",
           "swapInsert", "swapGive", "swapWant", "swapWrite",
           "dropOffers", "dropBookings", "dropMember"}

\* An idle handler takes request r, loads bookings B and goes to a stage.
Begin(p, r, B, stage) ==
  /\ pc[p] = "idle"
  /\ pc' = [pc EXCEPT ![p] = stage]
  /\ req' = [req EXCEPT ![p] = r]
  /\ rows' = [rows EXCEPT ![p] = B]

\* A handler that needs a single statement never leaves idle.
AtOnce(p) == pc[p] = "idle" /\ UNCHANGED locals

GoTo(p, stage) ==
  /\ pc' = [pc EXCEPT ![p] = stage]
  /\ UNCHANGED req

\* COMMIT or ROLLBACK: the transaction's locks are released with it.
Finish(p) ==
  /\ pc' = [pc EXCEPT ![p] = "idle"]
  /\ req' = [req EXCEPT ![p] = NoRequest]
  /\ rows' = [rows EXCEPT ![p] = {}]
  /\ draft' = [draft EXCEPT ![p] = NoSwap]
  /\ held' = [held EXCEPT ![p] = {}]

\* Room for one more id when the handlers at these stages take theirs.
IdLeft(next, max, stages) ==
  next + Cardinality({q \in Handlers : pc[q] \in stages}) <= max

StoreInit ==
  /\ bookings = [b \in BookingIds |-> NoBooking]
  /\ gifts = [g \in GiftIds |-> NoGift]
  /\ swaps = [o \in SwapIds |-> NoSwap]
  /\ serial = [booking |-> 1, gift |-> 1, swap |-> 1]
  /\ weekly = {} /\ skipped = {}
  /\ members = Users
  /\ access = Users
  /\ now = 0
  /\ pc = [p \in Handlers |-> "idle"]
  /\ req = [p \in Handlers |-> NoRequest]
  /\ rows = [p \in Handlers |-> {}]
  /\ draft = [p \in Handlers |-> NoSwap]
  /\ held = [p \in Handlers |-> {}]

TablesTypeOK ==
  /\ bookings \in [BookingIds -> BookingRow \cup {NoBooking}]
  /\ gifts \in [GiftIds -> GiftRow \cup {NoGift}]
  /\ swaps \in [SwapIds -> SwapRow \cup {NoSwap}]
  /\ serial \in [booking : Nat, gift : Nat, swap : Nat]

SettingTypeOK ==
  /\ weekly \subseteq Keys
  /\ skipped \subseteq Slots
  /\ members \subseteq Users
  /\ access \subseteq Users
  /\ now \in Nat

LocalsTypeOK ==
  /\ pc \in [Handlers -> Stages]
  /\ req \in [Handlers -> Requests \cup {NoRequest}]
  /\ rows \in [Handlers -> SUBSET BookingIds]
  /\ draft \in [Handlers -> SwapRow \cup {NoSwap}]
  /\ held \in [Handlers -> SUBSET Locks]

(***************************************************************************)
(* Every variable has its type, and a handler at work has a request that   *)
(* it was given.                                                           *)
(***************************************************************************)
TypeOK == TablesTypeOK /\ SettingTypeOK /\ LocalsTypeOK
=============================================================================
