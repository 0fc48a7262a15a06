-------------------------- MODULE Bookings_proofs ---------------------------
(***************************************************************************)
(* What holds in the booking core for every number of members, handlers,   *)
(* slots and requests. The inductive invariant IInv says what the tables   *)
(* look like, what a handler at each stage knows about them, and which     *)
(* locks make that knowledge last. CauseInv adds why a handler may remove  *)
(* or give a booking, LimitInv what it has counted under its lock,         *)
(* PartiesInv that an offer has two parties, CancelInv whose booking a     *)
(* cancellation is about to delete. Two refinements are shown: the tables  *)
(* implement the ledger of SlotLedger, and the bookings change only as     *)
(* BookingTable says, which the two jobs are checked with.                 *)
(***************************************************************************)
EXTENDS Bookings, TLAPS, FiniteSetTheorems

-----------------------------------------------------------------------------
(* The inductive invariant *)

\* Ids are never given out twice.
Fresh ==
  /\ \A b \in BookingIds : Live(b) => b < serial.booking
  /\ \A g \in GiftIds : gifts[g] # NoGift => g < serial.gift
  /\ \A o \in SwapIds : swaps[o] # NoSwap => o < serial.swap

SwapStages == {"swapGive", "swapWant", "swapWrite"}
DropStages == {"dropOffers", "dropBookings", "dropMember"}

\* The request handler p is working on.
Asked(p) ==
  /\ pc[p] \in {"bookLimit", "bookInsert"} => req[p].op = "book"
  /\ pc[p] = "giftInsert" => req[p].op = "gift"
  /\ pc[p] \in {"giftLimit", "giftWrite"} => req[p].op = "giftAccept"
  /\ pc[p] \in DOMAIN Verdict => req[p].op \in {"giftAccept", "giftDecline"}
  /\ pc[p] = "swapInsert" => draft[p] # NoSwap
  /\ pc[p] \in SwapStages => req[p].op = "swapAccept"
  /\ pc[p] \in DropStages => req[p].op = "deleteUser"

\* The bookings it has loaded have existed.
Loaded(p) == \A b \in rows[p] : b < serial.booking

\* Accepting a gift, it works on the booking of the offer, if that still is.
GiftKnown(p) ==
  pc[p] \in {"giftLimit", "giftWrite"} =>
    /\ req[p].offer < serial.gift
    /\ \A b \in rows[p] : \/ gifts[req[p].offer] = NoGift
                          \/ gifts[req[p].offer].booking = b

\* Accepting a swap, it holds the locks of the pending offer and of the rows
\* it has loaded, which still are the two parties' bookings at the two slots.
SwapKnown(p) ==
  pc[p] \in SwapStages =>
    /\ SwapLock(req[p].offer) \in held[p]
    /\ swaps[req[p].offer].status = "pending"
    /\ \A b \in rows[p] : RowLock(b) \in held[p]
    /\ rows[p] \subseteq GiveRow(p) \cup WantRow(p)

\* Deleting a member, it holds the locks of the bookings it has loaded, which
\* still are the member's.
DropKnown(p) ==
  /\ pc[p] \in {"dropOffers", "dropBookings"} => rows[p] = {}
  /\ pc[p] = "dropMember" =>
       \A b \in rows[p] : /\ RowLock(b) \in held[p]
                          /\ bookings[b].owner = req[p].user

Knows(p) == Loaded(p) /\ GiftKnown(p) /\ SwapKnown(p) /\ DropKnown(p)

HandlersOK == \A p \in Handlers : Asked(p) /\ Knows(p)

IInv == TypeOK /\ Fresh /\ SlotUnique /\ LockExclusive /\ HandlersOK

-----------------------------------------------------------------------------
(* Requests *)

(***************************************************************************)
(* The fields of a request, by what it asks.                               *)
(***************************************************************************)
LEMMA RequestFields ==
  ASSUME NEW r \in Requests \cup {NoRequest}
  PROVE  /\ r.op = "book" => r.user \in Users /\ r.slot \in Slots
         /\ r.op = "cancel" => r.user \in Users /\ r.booking \in BookingIds
         /\ r.op = "remove" => r.booking \in BookingIds
         /\ r.op \in {"reserve", "unreserve"} => r.key \in Keys
         /\ r.op = "skip" => r.slot \in Slots
         /\ r.op \in {"allow", "revoke", "deleteUser"} => r.user \in Users
         /\ r.op = "gift" => /\ r.user \in Users /\ r.to \in Users
                             /\ r.booking \in BookingIds
         /\ r.op \in {"giftAccept", "giftDecline"} =>
              r.user \in Users /\ r.offer \in GiftIds
         /\ r.op = "swap" => /\ r.user \in Users /\ r.mine \in BookingIds
                             /\ r.theirs \in BookingIds
         /\ r.op \in {"swapAccept", "swapDecline"} =>
              r.user \in Users /\ r.offer \in SwapIds
<1>1. CASE r = NoRequest
  BY <1>1 DEF NoRequest
<1>2. CASE r \in Requests
  <2>1. r \in Request
    BY <1>2, StoreAssumption
  <2>2. QED
    BY <2>1 DEF Request
<1>3. QED
  BY <1>1, <1>2

-----------------------------------------------------------------------------
(* One step, seen by the handlers that do not take it *)

\* A step by handlers P leaves the locals of the others alone.
Untouched(P) ==
  \A q \in Handlers \ P :
    /\ pc'[q] = pc[q] /\ req'[q] = req[q] /\ rows'[q] = rows[q]
    /\ draft'[q] = draft[q] /\ held'[q] = held[q]

LocalStep(P) == LocalsTypeOK' /\ LockExclusive' /\ Untouched(P)

\* It respects their locks, never brings a booking back and keeps the booking
\* of a gift offer until the offer goes.
Steady(P) ==
  /\ serial.booking <= serial'.booking /\ serial.gift <= serial'.gift
  /\ \A b \in BookingIds :
       b < serial.booking /\ bookings[b] = NoBooking => bookings'[b] = NoBooking
  /\ \A q \in Handlers \ P, b \in BookingIds :
       RowLock(b) \in held[q] /\ b < serial.booking => bookings'[b] = bookings[b]
  /\ \A q \in Handlers \ P, o \in SwapIds :
       SwapLock(o) \in held[q] /\ swaps[o] # NoSwap => swaps'[o] = swaps[o]
  /\ \A g \in GiftIds :
       g < serial.gift =>
         gifts'[g] = NoGift \/ gifts'[g].booking = gifts[g].booking

TableStep(P) == TablesTypeOK' /\ Fresh' /\ SlotUnique' /\ Steady(P)

(***************************************************************************)
(* What a handler knows of the tables is still true after a step of the    *)
(* others.                                                                 *)
(***************************************************************************)
LEMMA OthersKeep ==
  ASSUME IInv, NEW P \in SUBSET Handlers, Untouched(P), TableStep(P),
         NEW q \in Handlers \ P
  PROVE  Asked(q)' /\ Knows(q)'
<1> q \in Handlers
  OBVIOUS
<1>1. /\ pc'[q] = pc[q] /\ req'[q] = req[q] /\ rows'[q] = rows[q]
      /\ draft'[q] = draft[q] /\ held'[q] = held[q]
  BY DEF Untouched
<1>2. Asked(q) /\ Loaded(q) /\ GiftKnown(q) /\ SwapKnown(q) /\ DropKnown(q)
  BY DEF IInv, HandlersOK, Knows
<1>3. rows[q] \subseteq BookingIds /\ req[q] \in Requests \cup {NoRequest}
  BY DEF IInv, TypeOK, LocalsTypeOK
<1>4. BookingIds \subseteq Nat /\ serial.booking \in Nat /\ serial'.booking \in Nat
  BY DEF IInv, TypeOK, TablesTypeOK, TableStep, BookingIds
<1>5. Steady(P)
  BY DEF TableStep
<1>6. Asked(q)'
  BY <1>1, <1>2 DEF Asked
<1>7. Loaded(q)'
  <2> SUFFICES ASSUME NEW b \in rows[q]
               PROVE  b < serial'.booking
    BY <1>1 DEF Loaded
  <2>1. b \in Nat /\ b < serial.booking
    BY <1>2, <1>3, <1>4 DEF Loaded
  <2>2. serial.booking <= serial'.booking
    BY <1>5 DEF Steady
  <2>3. QED
    BY <1>4, <2>1, <2>2
<1>8. GiftKnown(q)'
  <2> SUFFICES ASSUME pc[q] \in {"giftLimit", "giftWrite"}
               PROVE  /\ req[q].offer < serial'.gift
                      /\ \A b \in rows[q] :
                           \/ gifts'[req[q].offer] = NoGift
                           \/ gifts'[req[q].offer].booking = b
    BY <1>1 DEF GiftKnown
  <2> DEFINE g == req[q].offer
  <2>1. g \in GiftIds
    BY <1>2, <1>3, RequestFields DEF Asked
  <2>2. g < serial.gift /\ g \in Nat
    BY <1>2, <2>1 DEF GiftKnown, GiftIds
  <2>3. g < serial'.gift
    <3>1. serial.gift \in Nat /\ serial'.gift \in Nat
      BY DEF IInv, TypeOK, TablesTypeOK, TableStep
    <3>2. serial.gift <= serial'.gift
      BY <1>5 DEF Steady
    <3>3. QED
      BY <2>2, <3>1, <3>2
  <2>4. gifts'[g] = NoGift \/ gifts'[g].booking = gifts[g].booking
    BY <1>5, <2>1, <2>2 DEF Steady
  <2>5. gifts'[g] \in GiftRow \cup {NoGift}
    BY <2>1 DEF TableStep, TablesTypeOK
  <2>6. gifts[g] = NoGift => gifts'[g] = NoGift
    BY <2>4, <2>5 DEF NoGift, GiftRow, BookingIds
  <2>7. QED
    BY <1>2, <2>3, <2>4, <2>6 DEF GiftKnown
<1>9. SwapKnown(q)'
  <2> SUFFICES ASSUME pc[q] \in SwapStages
               PROVE  SwapKnown(q)'
    BY <1>1 DEF SwapKnown
  <2> DEFINE o == req[q].offer
  <2>1. o \in SwapIds
    BY <1>2, <1>3, RequestFields DEF Asked
  <2>2. /\ SwapLock(o) \in held[q]
        /\ swaps[o].status = "pending"
        /\ \A b \in rows[q] : RowLock(b) \in held[q]
        /\ rows[q] \subseteq GiveRow(q) \cup WantRow(q)
    BY <1>2 DEF SwapKnown
  <2>3. swaps'[o] = swaps[o]
    <3>1. swaps[o] # NoSwap
      BY <2>2 DEF NoSwap
    <3>2. QED
      BY <1>5, <2>1, <2>2, <3>1 DEF Steady
  <2>4. \A b \in rows[q] : bookings'[b] = bookings[b]
    BY <1>2, <1>3, <1>5, <2>2 DEF Loaded, Steady
  <2>5. rows[q] \subseteq GiveRow(q)' \cup WantRow(q)'
    BY <1>1, <1>3, <2>2, <2>3, <2>4 DEF GiveRow, WantRow, Mine, OwnedAt
  <2>6. QED
    BY <1>1, <2>2, <2>3, <2>5 DEF SwapKnown, SwapLock, RowLock
<1>10. DropKnown(q)'
  <2>1. ASSUME pc[q] = "dropMember", NEW b \in rows[q]
        PROVE  bookings'[b] = bookings[b]
    BY <1>2, <1>3, <1>5, <2>1 DEF DropKnown, Loaded, Steady
  <2>2. QED
    BY <1>1, <1>2, <2>1 DEF DropKnown, RowLock
<1>11. QED
  BY <1>6, <1>7, <1>8, <1>9, <1>10 DEF Knows

(***************************************************************************)
(* The invariant survives a step that keeps the tables, leaves the others  *)
(* alone, and leaves the handlers that take it in a good state.            *)
(***************************************************************************)
LEMMA Preserved ==
  ASSUME IInv, NEW P \in SUBSET Handlers, SettingTypeOK',
         LocalStep(P), TableStep(P),
         \A p \in P : Asked(p)' /\ Knows(p)'
  PROVE  IInv'
<1>1. \A q \in Handlers \ P : Asked(q)' /\ Knows(q)'
  BY OthersKeep DEF LocalStep
<1>2. HandlersOK'
  BY <1>1 DEF HandlersOK
<1>3. QED
  BY <1>2 DEF IInv, LocalStep, TableStep, TypeOK

-----------------------------------------------------------------------------
(* Steps of the same shape *)

(***************************************************************************)
(* A handler that only reads leaves the tables as they should be.          *)
(***************************************************************************)
LEMMA SameTables ==
  ASSUME IInv, NEW P \in SUBSET Handlers, UNCHANGED tables
  PROVE  TableStep(P)
<1> USE DEF tables
<1>1. TablesTypeOK'
  BY DEF IInv, TypeOK, TablesTypeOK
<1>2. Fresh' /\ SlotUnique'
  BY DEF IInv, Fresh, SlotUnique, Live
<1>3. serial.booking \in Nat /\ serial.gift \in Nat
  BY DEF IInv, TypeOK, TablesTypeOK
<1>4. Steady(P)
  BY <1>3 DEF Steady
<1>5. QED
  BY <1>1, <1>2, <1>4 DEF TableStep

(***************************************************************************)
(* A handler may take the locks L when no other holds any of them.         *)
(***************************************************************************)
LEMMA LocksTaken ==
  ASSUME IInv, NEW p \in Handlers, NEW L, Free(p, L), LocalsTypeOK',
         Untouched({p}), held'[p] \subseteq held[p] \cup L
  PROVE  LocalStep({p})
<1> SUFFICES ASSUME NEW q \in Handlers, NEW x \in Handlers, q # x
             PROVE  held'[q] \cap held'[x] = {}
  BY DEF LocalStep, LockExclusive
<1>1. LockExclusive
  BY DEF IInv
<1>2. \A y \in Handlers \ {p} : held'[y] = held[y] /\ held[y] \cap L = {}
  BY DEF Untouched, Free
<1>3. \A y \in Handlers \ {p} : held[p] \cap held[y] = {}
  BY <1>1 DEF LockExclusive
<1>4. CASE q = p
  BY <1>2, <1>3, <1>4
<1>5. CASE x = p
  BY <1>2, <1>3, <1>5
<1>6. CASE q # p /\ x # p
  BY <1>1, <1>2, <1>6 DEF LockExclusive
<1>7. QED
  BY <1>4, <1>5, <1>6

(***************************************************************************)
(* A handler that ends its transaction knows nothing and holds nothing.    *)
(***************************************************************************)
LEMMA FinishStep ==
  ASSUME IInv, NEW p \in Handlers, Finish(p)
  PROVE  LocalStep({p}) /\ Asked(p)' /\ Knows(p)'
<1>1. LocalsTypeOK
  BY DEF IInv, TypeOK
<1>2. LocalsTypeOK'
  <2>1. "idle" \in Stages
    BY DEF Stages
  <2>2. QED
    BY <1>1, <2>1 DEF LocalsTypeOK, Finish
<1>3. /\ pc'[p] = "idle" /\ rows'[p] = {} /\ held'[p] = {}
      /\ Untouched({p})
  BY <1>1 DEF LocalsTypeOK, Finish, Untouched
<1>4. LocalStep({p})
  <2>1. Free(p, {}) /\ held'[p] \subseteq held[p] \cup {}
    BY <1>3 DEF Free
  <2>2. QED
    BY <1>2, <1>3, <2>1, LocksTaken
<1>5. Asked(p)' /\ Knows(p)'
  BY <1>3 DEF Asked, Knows, Loaded, GiftKnown, SwapKnown, DropKnown, SwapStages, DropStages, Verdict
<1>6. QED
  BY <1>4, <1>5

(***************************************************************************)
(* A handler that begins has its request, its bookings and its stage.      *)
(***************************************************************************)
LEMMA BeginStep ==
  ASSUME IInv, NEW p \in Handlers, NEW r \in Requests,
         NEW B \in SUBSET BookingIds, NEW stage \in Stages,
         Begin(p, r, B, stage), UNCHANGED <<draft, held>>
  PROVE  /\ LocalStep({p})
         /\ pc'[p] = stage /\ req'[p] = r /\ rows'[p] = B
<1>1. LocalsTypeOK
  BY DEF IInv, TypeOK
<1>2. LocalsTypeOK'
  BY <1>1 DEF LocalsTypeOK, Begin
<1>3. /\ pc'[p] = stage /\ req'[p] = r /\ rows'[p] = B
      /\ held'[p] = held[p] /\ Untouched({p})
  BY <1>1 DEF LocalsTypeOK, Begin, Untouched
<1>4. Free(p, {}) /\ held'[p] \subseteq held[p] \cup {}
  BY <1>3 DEF Free
<1>5. QED
  BY <1>2, <1>3, <1>4, LocksTaken

\* A handler that finishes is idle, and no other handler has moved.
LEMMA FinishLocals ==
  ASSUME IInv, NEW p \in Handlers, Finish(p)
  PROVE  Untouched({p}) /\ pc'[p] = "idle"
BY DEF IInv, TypeOK, LocalsTypeOK, Finish, Untouched

\* A handler that begins has its stage and bookings, and no other has moved.
LEMMA BeginLocals ==
  ASSUME IInv, NEW p \in Handlers, NEW r, NEW B, NEW stage,
         Begin(p, r, B, stage), UNCHANGED <<draft, held>>
  PROVE  Untouched({p}) /\ pc'[p] = stage /\ rows'[p] = B
BY DEF IInv, TypeOK, LocalsTypeOK, Begin, Untouched

(***************************************************************************)
(* Deleting bookings that no other handler has locked, and their gift      *)
(* offers with them, leaves the tables as they should be.                  *)
(***************************************************************************)
LEMMA DeleteStep ==
  ASSUME IInv, NEW P \in SUBSET Handlers, NEW B \in SUBSET BookingIds,
         \A q \in Handlers \ P : held[q] \cap {RowLock(b) : b \in B} = {},
         DeleteBookings(B), UNCHANGED <<swaps, serial>>
  PROVE  TableStep(P)
<1>1. TablesTypeOK /\ Fresh /\ SlotUnique
  BY DEF IInv, TypeOK
<1>2. \A b \in BookingIds :
        bookings'[b] = IF b \in B THEN NoBooking ELSE bookings[b]
  BY DEF DeleteBookings
<1>3. \A g \in GiftIds :
        gifts'[g] = IF gifts[g].booking \in B THEN NoGift ELSE gifts[g]
  BY DEF DeleteBookings
<1>4. TablesTypeOK'
  BY <1>1 DEF TablesTypeOK, DeleteBookings
<1>5. Fresh'
  BY <1>1, <1>2, <1>3 DEF Fresh, Live
<1>6. SlotUnique'
  BY <1>1, <1>2 DEF SlotUnique, Live
<1>7. Steady(P)
  <2>1. serial.booking <= serial'.booking /\ serial.gift <= serial'.gift
    BY <1>1 DEF TablesTypeOK
  <2>2. \A q \in Handlers \ P, b \in BookingIds :
          RowLock(b) \in held[q] => bookings'[b] = bookings[b]
    BY <1>2
  <2>3. QED
    BY <1>2, <1>3, <2>1, <2>2 DEF Steady
<1>8. QED
  BY <1>4, <1>5, <1>6, <1>7 DEF TableStep

-----------------------------------------------------------------------------
(* Booking and cancelling *)

\* BookStart keeps the invariant.
LEMMA BookStartKeeps ==
  ASSUME IInv, NEW p \in Handlers, BookStart(p)
  PROVE  IInv'
<1>1. PICK r \in Requests : /\ r.op = "book"
                            /\ Begin(p, r, {}, "bookLimit")
                            /\ UNCHANGED <<tables, setting, draft, held>>
  BY DEF BookStart
<1>2. LocalStep({p}) /\ pc'[p] = "bookLimit" /\ req'[p] = r /\ rows'[p] = {}
  BY <1>1, BeginStep DEF Stages
<1>3. TableStep({p})
  BY <1>1, SameTables
<1>4. SettingTypeOK'
  BY <1>1 DEF IInv, TypeOK, SettingTypeOK, setting
<1>5. Asked(p)' /\ Knows(p)'
  BY <1>1, <1>2
     DEF Asked, Knows, Loaded, GiftKnown, SwapKnown, DropKnown, SwapStages, DropStages, Verdict
<1>6. QED
  BY <1>2, <1>3, <1>4, <1>5, Preserved

\* What the two limit checks have in common.
LEMMA LimitCheckStep ==
  ASSUME IInv, NEW p \in Handlers, req[p].user \in Users, NEW s \in Slots,
         NEW next \in Stages, LimitCheck(p, s, next), UNCHANGED <<rows, draft>>
  PROVE  LocalStep({p}) /\ pc'[p] \in {"closing", next} /\ req' = req
<1> DEFINE lock == LimitLock(req[p].user, WeekOf[s])
<1>1. LocalsTypeOK
  BY DEF IInv, TypeOK
<1>2. lock \in Locks
  BY CalendarAssumption DEF Locks
<1>3. /\ Free(p, {lock})
      /\ held' = [held EXCEPT ![p] = @ \cup {lock}]
      /\ req' = req
      /\ \E stage \in {"closing", next} : pc' = [pc EXCEPT ![p] = stage]
  BY DEF LimitCheck, GoTo
<1>4. LocalsTypeOK'
  BY <1>1, <1>2, <1>3 DEF LocalsTypeOK, Stages
<1>5. Untouched({p}) /\ held'[p] = held[p] \cup {lock}
      /\ pc'[p] \in {"closing", next}
  BY <1>1, <1>3 DEF LocalsTypeOK, Untouched
<1>6. QED
  BY <1>3, <1>4, <1>5, LocksTaken

\* BookLimit keeps the invariant.
LEMMA BookLimitKeeps ==
  ASSUME IInv, NEW p \in Handlers, BookLimit(p)
  PROVE  IInv'
<1>1. /\ pc[p] = "bookLimit" /\ Asked(p) /\ Loaded(p)
      /\ rows[p] \subseteq BookingIds /\ req[p] \in Requests \cup {NoRequest}
  BY DEF BookLimit, IInv, HandlersOK, Knows, TypeOK, LocalsTypeOK
<1>2. req[p].op = "book" /\ req[p].user \in Users /\ req[p].slot \in Slots
  BY <1>1, RequestFields DEF Asked
<1>3. /\ LocalStep({p}) /\ pc'[p] \in {"closing", "bookInsert"} /\ req' = req
  BY <1>2, LimitCheckStep DEF BookLimit, Stages
<1>4. UNCHANGED <<tables, setting, rows, draft>>
  BY DEF BookLimit
<1>5. TableStep({p})
  BY <1>4, SameTables
<1>6. SettingTypeOK'
  BY <1>4 DEF IInv, TypeOK, SettingTypeOK, setting
<1>7. Asked(p)' /\ Knows(p)'
  BY <1>1, <1>2, <1>3, <1>4
     DEF Asked, Knows, Loaded, GiftKnown, SwapKnown, DropKnown, SwapStages, DropStages, Verdict, tables
<1>8. QED
  BY <1>3, <1>5, <1>6, <1>7, Preserved

\* Close keeps the invariant.
LEMMA CloseKeeps ==
  ASSUME IInv, NEW p \in Handlers, Finish(p), UNCHANGED <<tables, setting>>
  PROVE  IInv'
<1>1. LocalStep({p}) /\ Asked(p)' /\ Knows(p)'
  BY FinishStep
<1>2. TableStep({p})
  BY SameTables
<1>3. SettingTypeOK'
  BY DEF IInv, TypeOK, SettingTypeOK, setting
<1>4. QED
  BY <1>1, <1>2, <1>3, Preserved

\* BookInsert keeps the invariant.
LEMMA BookInsertKeeps ==
  ASSUME IInv, NEW p \in Handlers, BookInsert(p)
  PROVE  IInv'
<1> DEFINE s == req[p].slot
           n == serial.booking
<1>1. /\ pc[p] = "bookInsert" /\ Asked(p)
      /\ req[p] \in Requests \cup {NoRequest}
      /\ TablesTypeOK /\ Fresh /\ SlotUnique
  BY DEF BookInsert, IInv, HandlersOK, TypeOK, LocalsTypeOK
<1>2. req[p].user \in Users /\ s \in Slots
  BY <1>1, RequestFields DEF Asked
<1>3. LocalStep({p}) /\ Asked(p)' /\ Knows(p)'
  BY FinishStep DEF BookInsert
<1>4. SettingTypeOK'
  BY DEF BookInsert, IInv, TypeOK, SettingTypeOK, setting
<1>5. TableStep({p})
  <2>1. CASE UNCHANGED <<bookings, serial>>
    <3>1. UNCHANGED tables
      BY <2>1 DEF BookInsert, tables
    <3>2. QED
      BY <3>1, SameTables
  <2>2. CASE /\ ~SlotTaken(s)
             /\ bookings' = [bookings EXCEPT ![n] =
                               [slot |-> s, owner |-> req[p].user]]
             /\ serial' = [serial EXCEPT !.booking = @ + 1]
    <3>1. /\ bookings' = [bookings EXCEPT ![n] = [slot |-> s, owner |-> req[p].user]]
          /\ serial' = [serial EXCEPT !.booking = @ + 1]
          /\ UNCHANGED <<gifts, swaps>>
      BY <2>2 DEF BookInsert
    <3>2. [slot |-> s, owner |-> req[p].user] \in BookingRow
      BY <1>2 DEF BookingRow
    <3>3. n \in Nat /\ serial'.booking = n + 1 /\ serial'.gift = serial.gift
          /\ serial'.swap = serial.swap /\ serial.gift \in Nat
      BY <1>1, <3>1 DEF TablesTypeOK
    <3>4. \A b \in BookingIds : b \in Nat /\ (b # n => bookings'[b] = bookings[b])
      BY <1>1, <3>1 DEF TablesTypeOK, BookingIds
    <3>5. TablesTypeOK'
      <4>1. serial' \in [booking : Nat, gift : Nat, swap : Nat]
        BY <1>1, <3>1 DEF TablesTypeOK
      <4>2. bookings' \in [BookingIds -> BookingRow \cup {NoBooking}]
        BY <1>1, <3>1, <3>2 DEF TablesTypeOK
      <4>3. QED
        BY <1>1, <3>1, <4>1, <4>2 DEF TablesTypeOK
    <3>6. Fresh'
      BY <1>1, <3>1, <3>3, <3>4 DEF Fresh, Live
    <3>7. SlotUnique'
      <4>1. n \in BookingIds => bookings'[n].slot = s
        BY <1>1, <3>1 DEF TablesTypeOK
      <4>2. \A b \in BookingIds : bookings[b].slot # s
        BY <2>2 DEF SlotTaken
      <4>3. QED
        BY <1>1, <3>4, <4>1, <4>2 DEF SlotUnique, Live
    <3>8. Steady({p})
      BY <3>1, <3>3, <3>4 DEF Steady
    <3>9. QED
      BY <3>5, <3>6, <3>7, <3>8 DEF TableStep
  <2>3. QED
    BY <2>1, <2>2 DEF BookInsert
<1>6. QED
  BY <1>3, <1>4, <1>5, Preserved

\* Taking up a cancellation, by a member or an admin, keeps the invariant.
LEMMA DeleteStartKeeps ==
  ASSUME IInv, NEW p \in Handlers, CancelStart(p) \/ RemoveStart(p)
  PROVE  IInv'
<1>1. PICK r \in Requests, stage \in {"delete", "lateDelete"} :
        /\ r.booking \in BookingIds /\ Live(r.booking)
        /\ Begin(p, r, {r.booking}, stage)
        /\ UNCHANGED <<tables, setting, draft, held>>
  <2>1. CASE CancelStart(p)
    <3>1. PICK r \in Requests, stage \in {"delete", "lateDelete"} :
            /\ r.op = "cancel" /\ bookings[r.booking].owner = r.user
            /\ Begin(p, r, {r.booking}, stage)
            /\ UNCHANGED <<tables, setting, draft, held>>
      BY <2>1 DEF CancelStart
    <3>2. r.booking \in BookingIds /\ r.user \in Users
      BY <3>1, RequestFields
    <3>3. Live(r.booking)
      BY <3>1, <3>2, StoreAssumption DEF Live, NoBooking
    <3>4. QED
      BY <3>1, <3>2, <3>3
  <2>2. CASE RemoveStart(p)
    BY <2>2, RequestFields DEF RemoveStart
  <2>3. QED
    BY <2>1, <2>2
<1>2. r.booking < serial.booking
  BY <1>1 DEF IInv, Fresh
<1>3. /\ LocalStep({p})
      /\ pc'[p] = stage /\ req'[p] = r /\ rows'[p] = {r.booking}
  <2>1. stage \in Stages
    BY <1>1 DEF Stages
  <2>2. {r.booking} \in SUBSET BookingIds /\ UNCHANGED <<draft, held>>
    BY <1>1
  <2>3. QED
    BY <1>1, <2>1, <2>2, BeginStep
<1>4. TableStep({p})
  BY <1>1, SameTables
<1>5. SettingTypeOK'
  BY <1>1 DEF IInv, TypeOK, SettingTypeOK, setting
<1>6. Asked(p)' /\ Knows(p)'
  BY <1>1, <1>2, <1>3
     DEF Asked, Knows, Loaded, GiftKnown, SwapKnown, DropKnown, SwapStages, DropStages, Verdict, tables
<1>7. QED
  BY <1>3, <1>4, <1>5, <1>6, Preserved

\* Delete keeps the invariant.
LEMMA DeleteKeeps ==
  ASSUME IInv, NEW p \in Handlers, Delete(p)
  PROVE  IInv'
<1>1. rows[p] \in SUBSET BookingIds /\ LocalsTypeOK /\ Loaded(p)
      /\ pc[p] \in {"delete", "lateDelete"}
  BY DEF Delete, IInv, TypeOK, LocalsTypeOK, HandlersOK, Knows
<1>2. TableStep({p})
  <2>1. \A q \in Handlers \ {p} : held[q] \cap {RowLock(b) : b \in rows[p]} = {}
    BY DEF Delete, Free
  <2>2. DeleteBookings(rows[p]) /\ UNCHANGED <<swaps, serial>>
    BY DEF Delete
  <2>3. QED
    BY <1>1, <2>1, <2>2, DeleteStep
<1>3. SettingTypeOK'
  BY DEF Delete, IInv, TypeOK, SettingTypeOK, setting
<1>4. CASE Finish(p)
  BY <1>2, <1>3, <1>4, FinishStep, Preserved
<1>5. CASE GoTo(p, "warning") /\ UNCHANGED <<rows, draft, held>>
  <2>1. LocalsTypeOK' /\ Untouched({p}) /\ pc'[p] = "warning"
    BY <1>1, <1>5 DEF LocalsTypeOK, Stages, Untouched, GoTo
  <2>2. LocalStep({p})
    <3>1. Free(p, {}) /\ held'[p] \subseteq held[p] \cup {}
      BY <1>5 DEF Free
    <3>2. QED
      BY <2>1, <3>1, LocksTaken
  <2>3. serial' = serial
    BY DEF Delete
  <2>4. Asked(p)' /\ Knows(p)'
    BY <1>1, <1>5, <2>1, <2>3
       DEF Asked, Knows, Loaded, GiftKnown, SwapKnown, DropKnown, SwapStages, DropStages, Verdict
  <2>5. QED
    BY <1>2, <1>3, <2>2, <2>4, Preserved
<1>6. QED
  BY <1>4, <1>5 DEF Delete

\* Warn keeps the invariant.
LEMMA WarnKeeps ==
  ASSUME IInv, NEW p \in Handlers, Warn(p)
  PROVE  IInv'
<1>1. Finish(p) /\ UNCHANGED <<tables, weekly, skipped, members, now>> /\ access' \subseteq access
  BY DEF Warn
<1>2. SettingTypeOK'
  BY <1>1 DEF IInv, TypeOK, SettingTypeOK
<1>3. TableStep({p})
  BY <1>1, SameTables
<1>4. QED
  BY <1>1, <1>2, <1>3, FinishStep, Preserved

\* A step that no handler takes.
LEMMA SameLocals ==
  ASSUME IInv, UNCHANGED locals
  PROVE  LocalStep({})
BY DEF IInv, TypeOK, LocalsTypeOK, LocalStep, LockExclusive, Untouched, locals

\* WeeklyReset keeps the invariant.
LEMMA WeeklyResetKeeps ==
  ASSUME IInv, WeeklyReset
  PROVE  IInv'
<1>1. ResetRows \in SUBSET BookingIds
  BY DEF ResetRows
<1>2. TableStep({})
  <2>1. \A q \in Handlers \ {} :
          held[q] \cap {RowLock(b) : b \in ResetRows} = {}
    BY DEF WeeklyReset
  <2>2. DeleteBookings(ResetRows) /\ UNCHANGED <<swaps, serial>>
    BY DEF WeeklyReset
  <2>3. QED
    BY <1>1, <2>1, <2>2, DeleteStep
<1>3. SettingTypeOK' /\ UNCHANGED locals
  BY DEF WeeklyReset, IInv, TypeOK, SettingTypeOK, setting
<1>4. QED
  BY <1>2, <1>3, SameLocals, Preserved

-----------------------------------------------------------------------------
(* Weekly slots, access and time *)

\* A single statement on the settings.
LEMMA SettingStepKeeps ==
  ASSUME IInv, UNCHANGED <<tables, locals>>, SettingTypeOK'
  PROVE  IInv'
BY SameLocals, SameTables, Preserved

\* Reserve keeps the invariant.
LEMMA ReserveKeeps ==
  ASSUME IInv, NEW p \in Handlers, Reserve(p)
  PROVE  IInv'
<1>1. PICK r \in Requests :
        /\ r.op = "reserve"
        /\ weekly' = weekly \cup {r.key}
        /\ \/ AtOnce(p)
           \/ /\ Begin(p, r, Conflicts(r), "clearing")
              /\ UNCHANGED <<draft, held>>
        /\ UNCHANGED <<tables, skipped, members, access, now>>
  BY DEF Reserve
<1>2. SettingTypeOK'
  BY <1>1, RequestFields DEF IInv, TypeOK, SettingTypeOK
<1>3. CASE AtOnce(p)
  BY <1>1, <1>2, <1>3, SettingStepKeeps DEF AtOnce
<1>4. CASE Begin(p, r, Conflicts(r), "clearing") /\ UNCHANGED <<draft, held>>
  <2>1. Conflicts(r) \in SUBSET BookingIds /\ \A b \in Conflicts(r) : Live(b)
    BY DEF Conflicts
  <2>2. \A b \in Conflicts(r) : b < serial.booking
    BY <2>1 DEF IInv, Fresh
  <2>3. /\ LocalStep({p})
        /\ pc'[p] = "clearing" /\ req'[p] = r /\ rows'[p] = Conflicts(r)
    BY <1>4, <2>1, BeginStep DEF Stages
  <2>4. TableStep({p})
    BY <1>1, SameTables
  <2>5. Asked(p)' /\ Knows(p)'
    BY <1>1, <2>2, <2>3
       DEF Asked, Knows, Loaded, GiftKnown, SwapKnown, DropKnown, SwapStages, DropStages, Verdict, tables
  <2>6. QED
    BY <1>2, <2>3, <2>4, <2>5, Preserved
<1>5. QED
  BY <1>1, <1>3, <1>4

\* ClearConflict keeps the invariant.
LEMMA ClearConflictKeeps ==
  ASSUME IInv, NEW p \in Handlers, ClearConflict(p)
  PROVE  IInv'
<1>1. rows[p] \in SUBSET BookingIds /\ LocalsTypeOK /\ Loaded(p)
  BY DEF IInv, TypeOK, LocalsTypeOK, HandlersOK, Knows
<1>2. PICK b \in rows[p] :
        /\ Free(p, {RowLock(b)})
        /\ DeleteBookings({b})
        /\ \/ Finish(p)
           \/ /\ rows' = [rows EXCEPT ![p] = @ \ {b}]
              /\ UNCHANGED <<pc, req, draft, held>>
  BY DEF ClearConflict
<1>3. pc[p] = "clearing" /\ UNCHANGED <<swaps, serial, setting>>
  BY DEF ClearConflict
<1>4. TableStep({p})
  <2>1. \A q \in Handlers \ {p} : held[q] \cap {RowLock(x) : x \in {b}} = {}
    BY <1>2 DEF Free
  <2>2. QED
    BY <1>1, <1>2, <1>3, <2>1, DeleteStep
<1>5. SettingTypeOK'
  BY <1>3 DEF IInv, TypeOK, SettingTypeOK, setting
<1>6. CASE Finish(p)
  BY <1>4, <1>5, <1>6, FinishStep, Preserved
<1>7. CASE /\ rows' = [rows EXCEPT ![p] = @ \ {b}]
           /\ UNCHANGED <<pc, req, draft, held>>
  <2>1. LocalsTypeOK' /\ Untouched({p}) /\ rows'[p] = rows[p] \ {b}
    BY <1>1, <1>7 DEF LocalsTypeOK, Untouched
  <2>2. LocalStep({p})
    <3>1. Free(p, {}) /\ held'[p] \subseteq held[p] \cup {}
      BY <1>7 DEF Free
    <3>2. QED
      BY <2>1, <3>1, LocksTaken
  <2>3. Asked(p)' /\ Knows(p)'
    BY <1>1, <1>3, <1>7, <2>1
       DEF Asked, Knows, Loaded, GiftKnown, SwapKnown, DropKnown, SwapStages, DropStages, Verdict
  <2>4. QED
    BY <1>4, <1>5, <2>2, <2>3, Preserved
<1>8. QED
  BY <1>2, <1>6, <1>7

\* Unreserve, Skip and ChangeAccess keep the invariant.
LEMMA SettingKeeps ==
  ASSUME IInv, NEW p \in Handlers,
         Unreserve(p) \/ Skip(p) \/ ChangeAccess(p)
  PROVE  IInv'
<1> USE DEF IInv, TypeOK, SettingTypeOK
<1>1. CASE Unreserve(p)
  <2>1. SettingTypeOK' /\ UNCHANGED <<tables, locals>>
    BY <1>1 DEF Unreserve, AtOnce
  <2>2. QED
    BY <2>1, SettingStepKeeps
<1>2. CASE Skip(p)
  <2>1. PICK r \in Requests : r.op = "skip" /\ skipped' = skipped \cup {r.slot}
    BY <1>2 DEF Skip
  <2>2. SettingTypeOK' /\ UNCHANGED <<tables, locals>>
    BY <1>2, <2>1, RequestFields DEF Skip, AtOnce
  <2>3. QED
    BY <2>2, SettingStepKeeps
<1>3. CASE ChangeAccess(p)
  <2>1. SettingTypeOK' /\ UNCHANGED <<tables, locals>>
    BY <1>3, RequestFields DEF ChangeAccess, AtOnce
  <2>2. QED
    BY <2>1, SettingStepKeeps
<1>4. QED
  BY <1>1, <1>2, <1>3

\* Tick keeps the invariant.
LEMMA TickKeeps ==
  ASSUME IInv, Tick
  PROVE  IInv'
<1>1. SettingTypeOK' /\ UNCHANGED <<tables, locals>>
  BY DEF Tick, IInv, TypeOK, SettingTypeOK
<1>2. QED
  BY <1>1, SettingStepKeeps

-----------------------------------------------------------------------------
(* Gift offers *)

\* GiftStart keeps the invariant.
LEMMA GiftStartKeeps ==
  ASSUME IInv, NEW p \in Handlers, GiftStart(p)
  PROVE  IInv'
<1>1. PICK r \in Requests :
        /\ r.op = "gift" /\ bookings[r.booking].owner = r.user
        /\ Begin(p, r, {r.booking}, "giftInsert")
        /\ UNCHANGED <<tables, setting, draft, held>>
  BY DEF GiftStart
<1>2. r.booking \in BookingIds /\ r.user \in Users
  BY <1>1, RequestFields
<1>3. Live(r.booking)
  BY <1>1, <1>2, StoreAssumption DEF Live, NoBooking
<1>4. r.booking < serial.booking
  BY <1>2, <1>3 DEF IInv, Fresh
<1>5. /\ LocalStep({p})
      /\ pc'[p] = "giftInsert" /\ req'[p] = r /\ rows'[p] = {r.booking}
  <2>1. "giftInsert" \in Stages
    BY DEF Stages
  <2>2. {r.booking} \in SUBSET BookingIds /\ UNCHANGED <<draft, held>>
    BY <1>1, <1>2
  <2>3. QED
    BY <1>1, <2>1, <2>2, BeginStep
<1>6. TableStep({p}) /\ SettingTypeOK'
  BY <1>1, SameTables DEF IInv, TypeOK, SettingTypeOK, setting
<1>7. Asked(p)' /\ Knows(p)'
  BY <1>1, <1>4, <1>5
     DEF Asked, Knows, Loaded, GiftKnown, SwapKnown, DropKnown, SwapStages, DropStages, Verdict, tables
<1>8. QED
  BY <1>5, <1>6, <1>7, Preserved

\* GiftInsert keeps the invariant.
LEMMA GiftInsertKeeps ==
  ASSUME IInv, NEW p \in Handlers, GiftInsert(p)
  PROVE  IInv'
<1> DEFINE b == req[p].booking
           n == serial.gift
<1>1. /\ pc[p] = "giftInsert" /\ Asked(p)
      /\ req[p] \in Requests \cup {NoRequest}
      /\ TablesTypeOK /\ Fresh /\ SlotUnique
  BY DEF GiftInsert, IInv, HandlersOK, TypeOK, LocalsTypeOK
<1>2. req[p].user \in Users /\ req[p].to \in Users /\ b \in BookingIds
  BY <1>1, RequestFields DEF Asked
<1>3. LocalStep({p}) /\ Asked(p)' /\ Knows(p)'
  BY FinishStep DEF GiftInsert
<1>4. SettingTypeOK'
  BY DEF GiftInsert, IInv, TypeOK, SettingTypeOK, setting
<1>5. TableStep({p})
  <2>1. CASE UNCHANGED <<gifts, serial>>
    <3>1. UNCHANGED tables
      BY <2>1 DEF GiftInsert, tables
    <3>2. QED
      BY <3>1, SameTables
  <2> DEFINE row == [booking |-> b, giver |-> req[p].user,
                     recipient |-> req[p].to, status |-> "pending"]
  <2>2. CASE /\ gifts' = [gifts EXCEPT ![n] = row]
             /\ serial' = [serial EXCEPT !.gift = @ + 1]
    <3>1. row \in GiftRow
      BY <1>2 DEF GiftRow, Decision
    <3>2. UNCHANGED <<bookings, swaps>>
      BY DEF GiftInsert
    <3>3. /\ n \in Nat /\ serial'.gift = n + 1 /\ serial.booking \in Nat
          /\ serial'.booking = serial.booking /\ serial'.swap = serial.swap
      BY <1>1, <2>2 DEF TablesTypeOK
    <3>4. \A g \in GiftIds : g \in Nat /\ (g # n => gifts'[g] = gifts[g])
      BY <1>1, <2>2 DEF TablesTypeOK, GiftIds
    <3>5. TablesTypeOK'
      <4>1. serial' \in [booking : Nat, gift : Nat, swap : Nat]
        BY <1>1, <2>2 DEF TablesTypeOK
      <4>2. gifts' \in [GiftIds -> GiftRow \cup {NoGift}]
        BY <1>1, <2>2, <3>1 DEF TablesTypeOK
      <4>3. QED
        BY <1>1, <3>2, <4>1, <4>2 DEF TablesTypeOK
    <3>6. Fresh'
      BY <1>1, <3>2, <3>3, <3>4 DEF Fresh, Live
    <3>7. SlotUnique'
      BY <1>1, <3>2 DEF SlotUnique, Live
    <3>8. Steady({p})
      <4>1. n \in GiftIds => gifts[n].booking \notin BookingIds
        <5>1. n \in GiftIds => gifts[n] = NoGift
          BY <1>1, <3>3 DEF Fresh
        <5>2. QED
          BY <5>1 DEF NoGift, BookingIds
      <4>2. QED
        BY <3>2, <3>3, <3>4, <4>1 DEF Steady
    <3>9. QED
      BY <3>5, <3>6, <3>7, <3>8 DEF TableStep
  <2>3. QED
    BY <2>1, <2>2 DEF GiftInsert
<1>6. QED
  BY <1>3, <1>4, <1>5, Preserved

\* Taking up the answer to a gift offer keeps the invariant.
LEMMA GiftDecideStartKeeps ==
  ASSUME IInv, NEW p \in Handlers, GiftAcceptStart(p) \/ GiftDeclineStart(p)
  PROVE  IInv'
<1>1. PICK r \in Requests :
        /\ r.op \in {"giftAccept", "giftDecline"}
        /\ gifts[r.offer].status = "pending"
        /\ UNCHANGED <<tables, setting, draft, held>>
        /\ LET b == gifts[r.offer].booking IN
             \/ \E stage \in DOMAIN Verdict : Begin(p, r, {}, stage)
             \/ /\ bookings[b].owner = gifts[r.offer].giver
                /\ \/ Begin(p, r, {b}, "giftExpired")
                   \/ r.op = "giftAccept" /\ Begin(p, r, {b}, "giftLimit")
  BY DEF GiftAcceptStart, GiftDeclineStart, Verdict
<1>2. r.offer \in GiftIds
  BY <1>1, RequestFields
<1> DEFINE b == gifts[r.offer].booking
<1>3. gifts[r.offer] \in GiftRow
  BY <1>1, <1>2 DEF IInv, TypeOK, TablesTypeOK, NoGift
<1>4. b \in BookingIds /\ gifts[r.offer].giver \in Users
  BY <1>3 DEF GiftRow
<1>5. TableStep({p}) /\ SettingTypeOK'
  BY <1>1, SameTables DEF IInv, TypeOK, SettingTypeOK, setting
<1>6. CASE \E stage \in DOMAIN Verdict : Begin(p, r, {}, stage)
  <2>1. PICK stage \in DOMAIN Verdict : Begin(p, r, {}, stage)
    BY <1>6
  <2>2. /\ stage \in Stages
        /\ stage \in {"giftCancelled", "giftExpired", "giftDeclined"}
    BY DEF Verdict, Stages
  <2>3. LocalStep({p}) /\ pc'[p] = stage /\ req'[p] = r /\ rows'[p] = {}
    BY <1>1, <2>1, <2>2, BeginStep
  <2>4. Asked(p)' /\ Knows(p)'
    BY <1>1, <2>2, <2>3
       DEF Asked, Knows, Loaded, GiftKnown, SwapKnown, DropKnown, SwapStages, DropStages
  <2>5. QED
    BY <1>5, <2>3, <2>4, Preserved
<1>7. ASSUME NEW stage \in {"giftExpired", "giftLimit"}, Begin(p, r, {b}, stage),
             bookings[b].owner = gifts[r.offer].giver,
             stage = "giftLimit" => r.op = "giftAccept"
      PROVE  IInv'
  <2>1. Live(b)
    BY <1>4, <1>7, StoreAssumption DEF Live, NoBooking
  <2>2. b < serial.booking
    BY <1>4, <2>1 DEF IInv, Fresh
  <2>3. LocalStep({p}) /\ pc'[p] = stage /\ req'[p] = r /\ rows'[p] = {b}
    BY <1>1, <1>4, <1>7, BeginStep DEF Stages
  <2>4. Asked(p)' /\ Loaded(p)' /\ SwapKnown(p)' /\ DropKnown(p)'
    BY <1>1, <1>7, <2>2, <2>3
       DEF Asked, Loaded, SwapKnown, DropKnown, SwapStages, DropStages, Verdict,
           tables
  <2>5. GiftKnown(p)'
    <3>1. gifts[r.offer] # NoGift /\ r.offer < serial.gift
      BY <1>1, <1>2 DEF NoGift, IInv, Fresh
    <3>2. QED
      BY <1>1, <2>3, <3>1 DEF GiftKnown, tables
  <2>6. QED
    BY <1>5, <2>3, <2>4, <2>5, Preserved DEF Knows
<1>8. QED
  BY <1>1, <1>6, <1>7

\* GiftLimit keeps the invariant.
LEMMA GiftLimitKeeps ==
  ASSUME IInv, NEW p \in Handlers, GiftLimit(p)
  PROVE  IInv'
<1>1. /\ pc[p] = "giftLimit" /\ Asked(p) /\ Loaded(p) /\ GiftKnown(p)
      /\ rows[p] \subseteq BookingIds /\ req[p] \in Requests \cup {NoRequest}
  BY DEF GiftLimit, IInv, HandlersOK, Knows, TypeOK, LocalsTypeOK
<1>2. req[p].op = "giftAccept" /\ req[p].user \in Users
  BY <1>1, RequestFields DEF Asked
<1>3. UNCHANGED <<tables, setting>>
  BY DEF GiftLimit
<1>4. CASE Finish(p)
  BY <1>3, <1>4, CloseKeeps
<1>5. ASSUME NEW b \in rows[p], Live(b),
             LimitCheck(p, bookings[b].slot, "giftWrite"),
             UNCHANGED <<rows, draft>>
      PROVE  IInv'
  <2>1. bookings[b].slot \in Slots
    BY <1>1, <1>5 DEF IInv, TypeOK, TablesTypeOK, BookingRow, Live
  <2>2. LocalStep({p}) /\ pc'[p] \in {"closing", "giftWrite"} /\ req' = req
    BY <1>2, <1>5, <2>1, LimitCheckStep DEF Stages
  <2>3. TableStep({p}) /\ SettingTypeOK'
    BY <1>3, SameTables DEF IInv, TypeOK, SettingTypeOK, setting
  <2>4. Asked(p)' /\ Loaded(p)' /\ SwapKnown(p)' /\ DropKnown(p)'
    BY <1>1, <1>2, <1>3, <1>5, <2>2
       DEF Asked, Loaded, SwapKnown, DropKnown, SwapStages, DropStages, Verdict,
           tables
  <2>5. GiftKnown(p)'
    BY <1>1, <1>3, <1>5, <2>2 DEF GiftKnown, Live, tables
  <2>6. QED
    BY <2>2, <2>3, <2>4, <2>5, Preserved DEF Knows
<1>6. QED
  BY <1>4, <1>5 DEF GiftLimit

\* GiftWrite keeps the invariant.
LEMMA GiftWriteKeeps ==
  ASSUME IInv, NEW p \in Handlers, GiftWrite(p)
  PROVE  IInv'
<1> DEFINE o == req[p].offer
<1>1. /\ pc[p] = "giftWrite" /\ Asked(p) /\ GiftKnown(p)
      /\ rows[p] \subseteq BookingIds /\ req[p] \in Requests \cup {NoRequest}
      /\ TablesTypeOK /\ Fresh /\ SlotUnique
  BY DEF GiftWrite, IInv, HandlersOK, Knows, TypeOK, LocalsTypeOK
<1>2. req[p].user \in Users /\ o \in GiftIds
  BY <1>1, RequestFields DEF Asked
<1>3. PICK b \in rows[p] :
        /\ Free(p, {RowLock(b)})
        /\ \/ /\ Live(b) /\ gifts[o] # NoGift
              /\ bookings' = [bookings EXCEPT ![b].owner = req[p].user]
              /\ gifts' = [gifts EXCEPT ![o].status = "accepted"]
           \/ UNCHANGED <<bookings, gifts>>
  BY DEF GiftWrite
<1>4. UNCHANGED <<swaps, serial, setting>>
  BY DEF GiftWrite
<1>5. LocalStep({p}) /\ Asked(p)' /\ Knows(p)'
  BY FinishStep DEF GiftWrite
<1>6. SettingTypeOK'
  BY <1>4 DEF IInv, TypeOK, SettingTypeOK, setting
<1>7. CASE UNCHANGED <<bookings, gifts>>
  <2>1. UNCHANGED tables
    BY <1>4, <1>7 DEF tables
  <2>2. QED
    BY <1>5, <1>6, <2>1, SameTables, Preserved
<1>8. CASE /\ Live(b) /\ gifts[o] # NoGift
           /\ bookings' = [bookings EXCEPT ![b].owner = req[p].user]
           /\ gifts' = [gifts EXCEPT ![o].status = "accepted"]
  <2>1. gifts[o].booking = b /\ b \in BookingIds
    BY <1>1, <1>8 DEF GiftKnown
  <2>2. gifts[o] \in GiftRow /\ bookings[b] \in BookingRow
    BY <1>1, <1>2, <1>8, <2>1 DEF TablesTypeOK, NoGift, Live, BookingIds
  <2>3. /\ bookings'[b] = [slot |-> bookings[b].slot, owner |-> req[p].user]
        /\ \A x \in BookingIds \ {b} : bookings'[x] = bookings[x]
    BY <1>1, <1>8, <2>1, <2>2 DEF TablesTypeOK, BookingRow
  <2>4. /\ gifts'[o] \in GiftRow /\ gifts'[o].booking = b
        /\ \A x \in GiftIds \ {o} : gifts'[x] = gifts[x]
    BY <1>1, <1>2, <1>8, <2>1, <2>2 DEF TablesTypeOK, GiftRow, Decision
  <2>5. bookings'[b] \in BookingRow /\ bookings'[b].slot = bookings[b].slot
    BY <1>2, <2>2, <2>3 DEF BookingRow
  <2>6. TablesTypeOK'
    <3>1. bookings' \in [BookingIds -> BookingRow \cup {NoBooking}]
      BY <1>1, <1>8, <2>1, <2>3, <2>5 DEF TablesTypeOK
    <3>2. gifts' \in [GiftIds -> GiftRow \cup {NoGift}]
      BY <1>1, <1>2, <1>8, <2>4 DEF TablesTypeOK
    <3>3. QED
      BY <1>1, <1>4, <3>1, <3>2 DEF TablesTypeOK
  <2>7. Fresh'
    <3>1. gifts[o] # NoGift /\ bookings[b] # NoBooking
      BY <1>8, <2>1 DEF NoGift, Live, BookingIds
    <3>2. QED
      BY <1>1, <1>4, <2>3, <2>4, <3>1 DEF Fresh, Live
  <2>8. SlotUnique'
    BY <1>1, <1>8, <2>1, <2>3, <2>5 DEF SlotUnique, Live
  <2>9. Steady({p})
    <3>1. serial.booking <= serial'.booking /\ serial.gift <= serial'.gift
      BY <1>1, <1>4 DEF TablesTypeOK
    <3>2. \A q \in Handlers \ {p} : RowLock(b) \notin held[q]
      BY <1>3 DEF Free
    <3>3. \A x \in BookingIds :
            bookings[x] = NoBooking => bookings'[x] = NoBooking
      BY <1>8, <2>3 DEF Live
    <3>4. \A q \in Handlers \ {p}, x \in BookingIds :
            RowLock(x) \in held[q] => bookings'[x] = bookings[x]
      BY <2>3, <3>2
    <3>5. \A g \in GiftIds : gifts'[g].booking = gifts[g].booking
      BY <2>1, <2>4
    <3>6. QED
      BY <1>4, <3>1, <3>3, <3>4, <3>5 DEF Steady
  <2>10. QED
    BY <1>5, <1>6, <2>6, <2>7, <2>8, <2>9, Preserved DEF TableStep
<1>9. QED
  BY <1>3, <1>7, <1>8

\* GiftClose keeps the invariant.
LEMMA GiftCloseKeeps ==
  ASSUME IInv, NEW p \in Handlers, GiftClose(p)
  PROVE  IInv'
<1> DEFINE o == req[p].offer
<1>1. /\ pc[p] \in DOMAIN Verdict /\ Asked(p)
      /\ req[p] \in Requests \cup {NoRequest}
      /\ TablesTypeOK /\ Fresh /\ SlotUnique
  BY DEF GiftClose, IInv, HandlersOK, TypeOK, LocalsTypeOK
<1>2. o \in GiftIds
  BY <1>1, RequestFields DEF Asked
<1>3. UNCHANGED <<bookings, swaps, serial, setting>>
  BY DEF GiftClose
<1>4. LocalStep({p}) /\ Asked(p)' /\ Knows(p)'
  BY FinishStep DEF GiftClose
<1>5. SettingTypeOK'
  BY <1>3 DEF IInv, TypeOK, SettingTypeOK, setting
<1>6. CASE UNCHANGED gifts
  <2>1. UNCHANGED tables
    BY <1>3, <1>6 DEF tables
  <2>2. QED
    BY <1>4, <1>5, <2>1, SameTables, Preserved
<1>7. CASE /\ gifts[o] # NoGift
           /\ gifts' = [gifts EXCEPT ![o].status = Verdict[pc[p]]]
  <2>1. gifts[o] \in GiftRow
    BY <1>1, <1>2, <1>7 DEF TablesTypeOK
  <2>2. Verdict[pc[p]] \in Decision
    BY <1>1 DEF Verdict, Decision
  <2>3. /\ gifts'[o] \in GiftRow /\ gifts'[o].booking = gifts[o].booking
        /\ \A x \in GiftIds \ {o} : gifts'[x] = gifts[x]
    BY <1>1, <1>2, <1>7, <2>1, <2>2 DEF TablesTypeOK, GiftRow
  <2>4. TablesTypeOK'
    <3>1. gifts' \in [GiftIds -> GiftRow \cup {NoGift}]
      BY <1>1, <1>2, <1>7, <2>3 DEF TablesTypeOK
    <3>2. QED
      BY <1>1, <1>3, <3>1 DEF TablesTypeOK
  <2>5. Fresh' /\ SlotUnique'
    BY <1>1, <1>3, <1>7, <2>3 DEF Fresh, SlotUnique, Live
  <2>6. Steady({p})
    <3>1. serial.booking <= serial'.booking /\ serial.gift <= serial'.gift
      BY <1>1, <1>3 DEF TablesTypeOK
    <3>2. QED
      BY <1>3, <2>3, <3>1 DEF Steady
  <2>7. QED
    BY <1>4, <1>5, <2>4, <2>5, <2>6, Preserved DEF TableStep
<1>8. QED
  BY <1>6, <1>7 DEF GiftClose

-----------------------------------------------------------------------------
(* Swap offers *)

\* SwapStart keeps the invariant.
LEMMA SwapStartKeeps ==
  ASSUME IInv, NEW p \in Handlers, SwapStart(p)
  PROVE  IInv'
<1>1. PICK r \in Requests :
        /\ r.op = "swap"
        /\ Live(r.theirs)
        /\ bookings[r.mine].owner = r.user
        /\ draft' = [draft EXCEPT ![p] =
             [giver |-> r.user, receiver |-> bookings[r.theirs].owner,
              give |-> bookings[r.mine].slot, want |-> bookings[r.theirs].slot,
              status |-> "pending"]]
        /\ Begin(p, r, {r.mine, r.theirs}, "swapInsert")
        /\ UNCHANGED <<tables, setting, held>>
  BY DEF SwapStart
<1>2. r.user \in Users /\ r.mine \in BookingIds /\ r.theirs \in BookingIds
  BY <1>1, RequestFields
<1>3. Live(r.mine)
  BY <1>1, <1>2, StoreAssumption DEF Live, NoBooking
<1>4. bookings[r.mine] \in BookingRow /\ bookings[r.theirs] \in BookingRow
  BY <1>1, <1>2, <1>3 DEF IInv, TypeOK, TablesTypeOK, Live
<1>5. r.mine < serial.booking /\ r.theirs < serial.booking
  BY <1>1, <1>2, <1>3 DEF IInv, Fresh
<1>6. LocalsTypeOK
  BY DEF IInv, TypeOK
<1>7. draft'[p] \in SwapRow
  BY <1>1, <1>2, <1>4, <1>6 DEF LocalsTypeOK, SwapRow, BookingRow, Decision
<1>8. LocalsTypeOK'
  BY <1>1, <1>2, <1>6, <1>7 DEF LocalsTypeOK, Begin, Stages
<1>9. /\ Untouched({p}) /\ held'[p] = held[p]
      /\ pc'[p] = "swapInsert" /\ rows'[p] = {r.mine, r.theirs}
  BY <1>1, <1>6 DEF LocalsTypeOK, Begin, Untouched
<1>10. LocalStep({p})
  <2>1. Free(p, {}) /\ held'[p] \subseteq held[p] \cup {}
    BY <1>9 DEF Free
  <2>2. QED
    BY <1>8, <1>9, <2>1, LocksTaken
<1>11. TableStep({p}) /\ SettingTypeOK'
  BY <1>1, SameTables DEF IInv, TypeOK, SettingTypeOK, setting
<1>12. Asked(p)' /\ Knows(p)'
  <2>1. draft'[p] # NoSwap
    BY <1>2, <1>7, StoreAssumption DEF SwapRow, NoSwap
  <2>2. QED
    BY <1>1, <1>5, <1>9, <2>1
       DEF Asked, Knows, Loaded, GiftKnown, SwapKnown, DropKnown, SwapStages, DropStages, Verdict, tables
<1>13. QED
  BY <1>10, <1>11, <1>12, Preserved

\* SwapInsert keeps the invariant.
LEMMA SwapInsertKeeps ==
  ASSUME IInv, NEW p \in Handlers, SwapInsert(p)
  PROVE  IInv'
<1> DEFINE n == serial.swap
<1>1. /\ draft[p] \in SwapRow
      /\ TablesTypeOK /\ Fresh /\ SlotUnique
  BY DEF SwapInsert, IInv, HandlersOK, TypeOK, LocalsTypeOK, Asked
<1>2. CASE UNCHANGED <<swaps, serial>>
  BY <1>2, CloseKeeps DEF SwapInsert, tables
<1> SUFFICES ASSUME swaps' = [swaps EXCEPT ![n] = draft[p]],
                    serial' = [serial EXCEPT !.swap = @ + 1]
             PROVE  IInv'
  BY <1>2 DEF SwapInsert
<1>3. LocalStep({p}) /\ Asked(p)' /\ Knows(p)'
      /\ UNCHANGED <<bookings, gifts, setting>>
  BY FinishStep DEF SwapInsert
<1>4. SettingTypeOK'
  BY <1>3 DEF IInv, TypeOK, SettingTypeOK, setting
<1>5. /\ n \in Nat /\ serial'.swap = n + 1 /\ serial.booking \in Nat
      /\ serial.gift \in Nat
      /\ serial'.booking = serial.booking /\ serial'.gift = serial.gift
  BY <1>1, <1>3 DEF TablesTypeOK
<1>6. \A o \in SwapIds : o \in Nat /\ (o # n => swaps'[o] = swaps[o])
  BY <1>1, <1>3 DEF TablesTypeOK, SwapIds
<1>7. TablesTypeOK'
  <2>1. serial' \in [booking : Nat, gift : Nat, swap : Nat]
    BY <1>1, <1>3 DEF TablesTypeOK
  <2>2. swaps' \in [SwapIds -> SwapRow \cup {NoSwap}]
    BY <1>1, <1>3 DEF TablesTypeOK
  <2>3. QED
    BY <1>1, <1>3, <2>1, <2>2 DEF TablesTypeOK
<1>8. Fresh' /\ SlotUnique'
  BY <1>1, <1>3, <1>5, <1>6 DEF Fresh, SlotUnique, Live
<1>9. Steady({p})
  <2>1. n \in SwapIds => swaps[n] = NoSwap
    BY <1>1, <1>5 DEF Fresh
  <2>2. QED
    BY <1>3, <1>5, <1>6, <2>1 DEF Steady
<1>10. QED
  BY <1>3, <1>4, <1>7, <1>8, <1>9, Preserved DEF TableStep

\* SwapAcceptStart keeps the invariant.
LEMMA SwapAcceptStartKeeps ==
  ASSUME IInv, NEW p \in Handlers, SwapAcceptStart(p)
  PROVE  IInv'
<1>1. PICK r \in Requests :
        /\ r.op = "swapAccept"
        /\ Free(p, {SwapLock(r.offer)})
        /\ swaps[r.offer].status = "pending"
        /\ Begin(p, r, {}, "swapGive")
        /\ held' = [held EXCEPT ![p] = {SwapLock(r.offer)}]
        /\ UNCHANGED <<tables, setting, draft>>
  BY DEF SwapAcceptStart
<1>2. r.offer \in SwapIds
  BY <1>1, RequestFields
<1>3. LocalsTypeOK
  BY DEF IInv, TypeOK
<1>4. SwapLock(r.offer) \in Locks
  BY <1>2 DEF Locks
<1>5. LocalsTypeOK'
  BY <1>1, <1>3, <1>4 DEF LocalsTypeOK, Begin, Stages
<1>6. /\ Untouched({p}) /\ held'[p] = {SwapLock(r.offer)}
      /\ pc'[p] = "swapGive" /\ req'[p] = r /\ rows'[p] = {}
  BY <1>1, <1>3 DEF LocalsTypeOK, Begin, Untouched
<1>7. LocalStep({p})
  BY <1>1, <1>5, <1>6, LocksTaken
<1>8. TableStep({p}) /\ SettingTypeOK'
  BY <1>1, SameTables DEF IInv, TypeOK, SettingTypeOK, setting
<1>9. Asked(p)' /\ Loaded(p)' /\ GiftKnown(p)' /\ DropKnown(p)'
  BY <1>1, <1>6 DEF Asked, Loaded, GiftKnown, DropKnown, SwapStages, DropStages,
                    Verdict
<1>10. SwapKnown(p)'
  BY <1>1, <1>6 DEF SwapKnown, SwapLock, tables
<1>11. QED
  BY <1>7, <1>8, <1>9, <1>10, Preserved DEF Knows

\* Loading a booking FOR UPDATE, in SwapGive and SwapWant, keeps the
\* invariant.
LEMMA LoadLockedKeeps ==
  ASSUME IInv, NEW p \in Handlers, NEW B, pc[p] \in SwapStages,
         B = GiveRow(p) \/ B = WantRow(p),
         NEW next \in SwapStages, LoadLocked(p, B, next)
  PROVE  IInv'
<1> DEFINE L == {RowLock(b) : b \in B}
<1>1. /\ LocalsTypeOK /\ Asked(p) /\ Loaded(p) /\ SwapKnown(p)
      /\ TablesTypeOK /\ Fresh
  BY DEF IInv, TypeOK, HandlersOK, Knows
<1>2. swaps[req[p].offer] \in SwapRow
  <2>1. req[p].offer \in SwapIds
    BY <1>1, RequestFields DEF Asked, LocalsTypeOK
  <2>2. QED
    BY <1>1, <2>1 DEF TablesTypeOK, SwapKnown, NoSwap
<1>3. B \subseteq BookingIds /\ \A b \in B : b < serial.booking
  <2>1. B \subseteq BookingIds
    BY DEF GiveRow, WantRow, OwnedAt
  <2>2. \A b \in B : Live(b)
    BY <1>2, StoreAssumption
       DEF GiveRow, WantRow, OwnedAt, Mine, Live, NoBooking, SwapRow
  <2>3. QED
    BY <1>1, <2>1, <2>2 DEF Fresh
<1>4. /\ Free(p, L)
      /\ rows' = [rows EXCEPT ![p] = @ \cup B]
      /\ held' = [held EXCEPT ![p] = @ \cup L]
      /\ pc' = [pc EXCEPT ![p] = next]
      /\ UNCHANGED <<req, tables, setting, draft>>
  BY DEF LoadLocked, GoTo
<1>5. LocalsTypeOK'
  <2>1. L \subseteq Locks
    BY <1>3 DEF Locks
  <2>2. next \in Stages
    BY DEF SwapStages, Stages
  <2>3. QED
    BY <1>1, <1>3, <1>4, <2>1, <2>2 DEF LocalsTypeOK
<1>6. /\ Untouched({p}) /\ held'[p] = held[p] \cup L
      /\ pc'[p] = next /\ rows'[p] = rows[p] \cup B /\ req'[p] = req[p]
  BY <1>1, <1>4 DEF LocalsTypeOK, Untouched
<1>7. LocalStep({p})
  BY <1>4, <1>5, <1>6, LocksTaken
<1>8. TableStep({p}) /\ SettingTypeOK'
  BY <1>4, SameTables DEF IInv, TypeOK, SettingTypeOK, setting
<1>9. Asked(p)' /\ GiftKnown(p)' /\ DropKnown(p)'
  BY <1>1, <1>6 DEF Asked, GiftKnown, DropKnown, SwapStages, DropStages, Verdict
<1>10. Loaded(p)'
  BY <1>1, <1>3, <1>4, <1>6 DEF Loaded, tables
<1>11. SwapKnown(p)'
  <2>1. GiveRow(p)' = GiveRow(p) /\ WantRow(p)' = WantRow(p)
    BY <1>4, <1>6 DEF GiveRow, WantRow, OwnedAt, Mine, tables
  <2>2. /\ SwapLock(req[p].offer) \in held'[p]
        /\ swaps'[req[p].offer].status = "pending"
    BY <1>1, <1>4, <1>6 DEF SwapKnown, tables
  <2>3. \A b \in rows'[p] : RowLock(b) \in held'[p]
    BY <1>1, <1>6 DEF SwapKnown
  <2>4. rows'[p] \subseteq GiveRow(p) \cup WantRow(p)
    BY <1>1, <1>6 DEF SwapKnown
  <2>5. QED
    BY <1>6, <2>1, <2>2, <2>3, <2>4 DEF SwapKnown, SwapLock, RowLock
<1>12. QED
  BY <1>7, <1>8, <1>9, <1>10, <1>11, Preserved DEF Knows

\* Offers may get another status while nobody else has them locked.
LEMMA DecideStep ==
  ASSUME IInv, NEW P \in SUBSET Handlers, NEW S \in SUBSET SwapIds,
         \A o \in S : swaps[o] # NoSwap,
         \A q \in Handlers \ P, o \in S : SwapLock(o) \notin held[q],
         NEW verdict \in [S -> Decision],
         swaps' = [o \in SwapIds |->
                     IF o \in S THEN [swaps[o] EXCEPT !.status = verdict[o]]
                                ELSE swaps[o]]
  PROVE  /\ swaps' \in [SwapIds -> SwapRow \cup {NoSwap}]
         /\ \A o \in SwapIds : swaps'[o] # NoSwap => swaps[o] # NoSwap
         /\ \A q \in Handlers \ P, o \in SwapIds :
              SwapLock(o) \in held[q] => swaps'[o] = swaps[o]
<1>1. swaps \in [SwapIds -> SwapRow \cup {NoSwap}]
  BY DEF IInv, TypeOK, TablesTypeOK
<1>2. \A o \in S : [swaps[o] EXCEPT !.status = verdict[o]] \in SwapRow
  BY <1>1 DEF SwapRow
<1>3. QED
  BY <1>1, <1>2

\* SwapWrite keeps the invariant.
LEMMA SwapWriteKeeps ==
  ASSUME IInv, NEW p \in Handlers, SwapWrite(p)
  PROVE  IInv'
<1> DEFINE o == req[p].offer
           R == Rivals(o)
<1>1. /\ LocalsTypeOK /\ Asked(p) /\ SwapKnown(p) /\ Loaded(p)
      /\ TablesTypeOK /\ Fresh /\ SlotUnique /\ LockExclusive
  BY DEF IInv, TypeOK, HandlersOK, Knows
<1>2. pc[p] = "swapWrite" /\ UNCHANGED <<gifts, serial, setting>>
  BY DEF SwapWrite
<1>3. o \in SwapIds
  BY <1>1, <1>2, RequestFields DEF Asked, LocalsTypeOK, SwapStages
<1>4. /\ SwapLock(o) \in held[p] /\ swaps[o].status = "pending"
      /\ \A b \in rows[p] : RowLock(b) \in held[p]
      /\ rows[p] \subseteq GiveRow(p) \cup WantRow(p)
  BY <1>1, <1>2 DEF SwapKnown, SwapStages
<1>5. swaps[o] \in SwapRow /\ swaps[o] # NoSwap
  BY <1>1, <1>3, <1>4 DEF TablesTypeOK, NoSwap
<1>6. \A q \in Handlers \ {p} :
        SwapLock(o) \notin held[q] /\ \A b \in rows[p] : RowLock(b) \notin held[q]
  BY <1>1, <1>4 DEF LockExclusive
<1>7. LocalStep({p}) /\ Asked(p)' /\ Knows(p)'
  BY FinishStep DEF SwapWrite
<1>8. SettingTypeOK'
  BY <1>2 DEF IInv, TypeOK, SettingTypeOK, setting
<1>9. CASE ~Exchangeable(p)
  <2>1. /\ swaps' = [swaps EXCEPT ![o].status = "cancelled"]
        /\ UNCHANGED bookings
    BY <1>9 DEF SwapWrite
  <2>2. swaps' = [x \in SwapIds |->
                    IF x \in {o} THEN [swaps[x] EXCEPT !.status =
                                         [y \in {o} |-> "cancelled"][x]]
                    ELSE swaps[x]]
    BY <1>1, <1>3, <2>1 DEF TablesTypeOK
  <2>3. [y \in {o} |-> "cancelled"] \in [{o} -> Decision]
    BY DEF Decision
  <2>4. /\ swaps' \in [SwapIds -> SwapRow \cup {NoSwap}]
        /\ \A x \in SwapIds : swaps'[x] # NoSwap => swaps[x] # NoSwap
        /\ \A q \in Handlers \ {p}, x \in SwapIds :
             SwapLock(x) \in held[q] => swaps'[x] = swaps[x]
    <3>1. \A x \in {o} : swaps[x] # NoSwap
      BY <1>5
    <3>2. \A q \in Handlers \ {p}, x \in {o} : SwapLock(x) \notin held[q]
      BY <1>6
    <3> HIDE DEF o
    <3>3. QED
      BY <1>3, <2>2, <2>3, <3>1, <3>2, DecideStep
  <2>5. TablesTypeOK' /\ Fresh' /\ SlotUnique'
    BY <1>1, <1>2, <2>1, <2>4 DEF TablesTypeOK, Fresh, SlotUnique, Live
  <2>6. Steady({p})
    BY <1>1, <1>2, <2>1, <2>4 DEF Steady, TablesTypeOK
  <2>7. QED
    BY <1>7, <1>8, <2>5, <2>6, Preserved DEF TableStep
<1>10. CASE Exchangeable(p)
  <2>1. /\ Free(p, {SwapLock(x) : x \in R})
        /\ bookings' = [b \in BookingIds |->
                          IF b \in rows[p]
                          THEN [bookings[b] EXCEPT !.owner = OtherParty(o, @)]
                          ELSE bookings[b]]
        /\ swaps' = [x \in SwapIds |->
                       IF x = o THEN [swaps[x] EXCEPT !.status = "accepted"]
                       ELSE IF x \in R
                            THEN [swaps[x] EXCEPT !.status = "cancelled"]
                            ELSE swaps[x]]
    BY <1>10 DEF SwapWrite, Exchange
  <2> DEFINE verdict == [x \in {o} \cup R |->
                           IF x = o THEN "accepted" ELSE "cancelled"]
  <2>2. /\ swaps' \in [SwapIds -> SwapRow \cup {NoSwap}]
        /\ \A x \in SwapIds : swaps'[x] # NoSwap => swaps[x] # NoSwap
        /\ \A q \in Handlers \ {p}, x \in SwapIds :
             SwapLock(x) \in held[q] => swaps'[x] = swaps[x]
    <3>1. R \subseteq SwapIds /\ \A x \in R : swaps[x] # NoSwap
      BY DEF Rivals, NoSwap
    <3>2. \A x \in {o} \cup R : swaps[x] # NoSwap
      BY <1>5, <3>1
    <3>3. \A q \in Handlers \ {p}, x \in {o} \cup R : SwapLock(x) \notin held[q]
      BY <1>6, <2>1 DEF Free
    <3>4. verdict \in [{o} \cup R -> Decision]
      BY DEF Decision
    <3>5. swaps' = [x \in SwapIds |->
                      IF x \in {o} \cup R
                      THEN [swaps[x] EXCEPT !.status = verdict[x]]
                      ELSE swaps[x]]
      BY <2>1
    <3>6. {o} \cup R \in SUBSET SwapIds
      BY <1>3, <3>1
    <3> HIDE DEF o, R, verdict
    <3>7. QED
      BY <3>2, <3>3, <3>4, <3>5, <3>6, DecideStep
  <2>3. ASSUME NEW b \in rows[p]
        PROVE  /\ b \in BookingIds /\ bookings[b] \in BookingRow /\ Live(b)
               /\ bookings'[b] \in BookingRow
               /\ bookings'[b].slot = bookings[b].slot
    <3>1. b \in BookingIds /\ b \in GiveRow(p) \cup WantRow(p)
      BY <1>1, <1>4 DEF LocalsTypeOK
    <3>2. bookings[b].owner \in Users
      BY <1>5, <3>1 DEF GiveRow, WantRow, OwnedAt, Mine, SwapRow
    <3>3. Live(b)
      BY <3>2, StoreAssumption DEF Live, NoBooking
    <3>4. bookings[b] \in BookingRow
      BY <1>1, <3>1, <3>3 DEF TablesTypeOK, Live
    <3>5. OtherParty(o, bookings[b].owner) \in Users
      BY <1>5 DEF OtherParty, SwapRow
    <3>6. bookings'[b] = [slot |-> bookings[b].slot,
                          owner |-> OtherParty(o, bookings[b].owner)]
      BY <2>1, <3>1, <3>4 DEF BookingRow
    <3>7. QED
      BY <3>1, <3>3, <3>4, <3>5, <3>6 DEF BookingRow
  <2>4. \A b \in BookingIds \ rows[p] : bookings'[b] = bookings[b]
    BY <2>1
  <2>5. \A b \in BookingIds : /\ Live(b)' <=> Live(b)
                              /\ bookings'[b].slot = bookings[b].slot
    <3>1. NoBooking \notin BookingRow
      BY StoreAssumption DEF BookingRow, NoBooking
    <3>2. QED
      BY <2>3, <2>4, <3>1 DEF Live
  <2>6. TablesTypeOK'
    <3>1. bookings' \in [BookingIds -> BookingRow \cup {NoBooking}]
      <4>1. \A b \in BookingIds : bookings'[b] \in BookingRow \cup {NoBooking}
        BY <1>1, <2>3, <2>4 DEF TablesTypeOK
      <4>2. QED
        BY <2>1, <4>1
    <3>2. QED
      BY <1>1, <1>2, <2>2, <3>1 DEF TablesTypeOK
  <2>7. Fresh' /\ SlotUnique'
    BY <1>1, <1>2, <2>2, <2>5 DEF Fresh, SlotUnique
  <2>8. Steady({p})
    <3>1. serial.booking <= serial'.booking /\ serial.gift <= serial'.gift
      BY <1>1, <1>2 DEF TablesTypeOK
    <3>2. \A b \in BookingIds :
            bookings[b] = NoBooking => bookings'[b] = NoBooking
      BY <2>5 DEF Live
    <3>3. \A q \in Handlers \ {p}, b \in BookingIds :
            RowLock(b) \in held[q] => bookings'[b] = bookings[b]
      BY <1>6, <2>4
    <3>4. QED
      BY <1>2, <2>2, <3>1, <3>2, <3>3 DEF Steady
  <2>9. QED
    BY <1>7, <1>8, <2>6, <2>7, <2>8, Preserved DEF TableStep
<1>11. QED
  BY <1>9, <1>10

\* SwapDecline keeps the invariant.
LEMMA SwapDeclineKeeps ==
  ASSUME IInv, NEW p \in Handlers, SwapDecline(p)
  PROVE  IInv'
<1>1. PICK r \in Requests :
        /\ r.op = "swapDecline"
        /\ Free(p, {SwapLock(r.offer)})
        /\ swaps[r.offer].status = "pending"
        /\ swaps' = [swaps EXCEPT ![r.offer].status = "declined"]
        /\ AtOnce(p)
        /\ UNCHANGED <<bookings, gifts, serial, setting>>
  BY DEF SwapDecline
<1> DEFINE o == r.offer
<1>2. o \in SwapIds
  BY <1>1, RequestFields
<1>3. TablesTypeOK /\ Fresh /\ SlotUnique /\ LocalsTypeOK
  BY DEF IInv, TypeOK
<1>4. UNCHANGED locals /\ pc[p] = "idle"
  BY <1>1 DEF AtOnce
<1>5. \A q \in Handlers \ {p} : SwapLock(o) \notin held[q]
  BY <1>1 DEF Free
<1>6. /\ swaps' \in [SwapIds -> SwapRow \cup {NoSwap}]
      /\ \A x \in SwapIds : swaps'[x] # NoSwap => swaps[x] # NoSwap
      /\ \A q \in Handlers \ {p}, x \in SwapIds :
           SwapLock(x) \in held[q] => swaps'[x] = swaps[x]
  <2>1. swaps' = [x \in SwapIds |->
                    IF x \in {o} THEN [swaps[x] EXCEPT !.status =
                                         [y \in {o} |-> "declined"][x]]
                    ELSE swaps[x]]
    BY <1>1, <1>2, <1>3 DEF TablesTypeOK
  <2>2. [y \in {o} |-> "declined"] \in [{o} -> Decision]
    BY DEF Decision
  <2>3. \A x \in {o} : swaps[x] # NoSwap
    BY <1>1 DEF NoSwap
  <2>4. \A q \in Handlers \ {p}, x \in {o} : SwapLock(x) \notin held[q]
    BY <1>5
  <2> HIDE DEF o
  <2>5. QED
    BY <1>2, <2>1, <2>2, <2>3, <2>4, DecideStep, ZenonT(60)
<1>7. TablesTypeOK' /\ Fresh' /\ SlotUnique'
  BY <1>1, <1>3, <1>6 DEF TablesTypeOK, Fresh, SlotUnique, Live
<1>8. Steady({p})
  BY <1>1, <1>3, <1>6 DEF Steady, TablesTypeOK
<1>9. SettingTypeOK'
  BY <1>1 DEF IInv, TypeOK, SettingTypeOK, setting
<1>10. LocalStep({p})
  BY <1>3, <1>4 DEF IInv, LocalStep, LocalsTypeOK, LockExclusive, Untouched, locals
<1>11. Asked(p)' /\ Knows(p)'
  BY <1>1, <1>4
     DEF IInv, HandlersOK, Asked, Knows, Loaded, GiftKnown, SwapKnown, DropKnown,
         SwapStages, DropStages, Verdict, locals
<1>12. QED
  BY <1>7, <1>8, <1>9, <1>10, <1>11, Preserved DEF TableStep

-----------------------------------------------------------------------------
(* Deleting a member *)

\* DeleteUserStart keeps the invariant.
LEMMA DeleteUserStartKeeps ==
  ASSUME IInv, NEW p \in Handlers, DeleteUserStart(p)
  PROVE  IInv'
<1>1. PICK r \in Requests : /\ r.op = "deleteUser"
                            /\ Begin(p, r, {}, "dropOffers")
                            /\ UNCHANGED <<tables, setting, draft, held>>
  BY DEF DeleteUserStart
<1>2. LocalStep({p}) /\ pc'[p] = "dropOffers" /\ req'[p] = r /\ rows'[p] = {}
  BY <1>1, BeginStep DEF Stages
<1>3. TableStep({p}) /\ SettingTypeOK'
  BY <1>1, SameTables DEF IInv, TypeOK, SettingTypeOK, setting
<1>4. Asked(p)' /\ Knows(p)'
  BY <1>1, <1>2
     DEF Asked, Knows, Loaded, GiftKnown, SwapKnown, DropKnown, SwapStages,
         DropStages, Verdict
<1>5. QED
  BY <1>2, <1>3, <1>4, Preserved

\* DropOffers keeps the invariant.
LEMMA DropOffersKeeps ==
  ASSUME IInv, NEW p \in Handlers, DropOffers(p)
  PROVE  IInv'
<1> DEFINE L == OfferLocks(req[p].user)
<1>1. /\ LocalsTypeOK /\ Asked(p) /\ DropKnown(p) /\ pc[p] = "dropOffers"
  BY DEF DropOffers, IInv, TypeOK, HandlersOK, Knows
<1>2. /\ Free(p, L)
      /\ held' = [held EXCEPT ![p] = L]
      /\ pc' = [pc EXCEPT ![p] = "dropBookings"]
      /\ UNCHANGED <<tables, setting, req, rows, draft>>
  BY DEF DropOffers, GoTo
<1>3. L \subseteq Locks
  BY DEF OfferLocks, OffersOf, Locks
<1>4. LocalsTypeOK'
  BY <1>1, <1>2, <1>3 DEF LocalsTypeOK, Stages
<1>5. /\ Untouched({p}) /\ held'[p] = L
      /\ pc'[p] = "dropBookings" /\ req'[p] = req[p] /\ rows'[p] = rows[p]
  BY <1>1, <1>2 DEF LocalsTypeOK, Untouched
<1>6. LocalStep({p})
  BY <1>2, <1>4, <1>5, LocksTaken
<1>7. TableStep({p}) /\ SettingTypeOK'
  BY <1>2, SameTables DEF IInv, TypeOK, SettingTypeOK, setting
<1>8. Asked(p)' /\ Knows(p)'
  BY <1>1, <1>5
     DEF Asked, Knows, Loaded, GiftKnown, SwapKnown, DropKnown, SwapStages,
         DropStages, Verdict
<1>9. QED
  BY <1>6, <1>7, <1>8, Preserved

\* DropBookings keeps the invariant.
LEMMA DropBookingsKeeps ==
  ASSUME IInv, NEW p \in Handlers, DropBookings(p)
  PROVE  IInv'
<1> DEFINE u == req[p].user
           B == BookingsOf(u)
           L == {RowLock(b) : b \in B}
<1>1. /\ LocalsTypeOK /\ Asked(p) /\ DropKnown(p) /\ Fresh
      /\ pc[p] = "dropBookings"
  BY DEF DropBookings, IInv, TypeOK, HandlersOK, Knows
<1>2. /\ Free(p, L)
      /\ rows' = [rows EXCEPT ![p] = @ \cup B]
      /\ held' = [held EXCEPT ![p] = @ \cup L]
      /\ pc' = [pc EXCEPT ![p] = "dropMember"]
      /\ UNCHANGED <<req, tables, setting, draft>>
  BY DEF DropBookings, LoadLocked, GoTo
<1>3. u \in Users
  BY <1>1, RequestFields DEF Asked, DropStages, LocalsTypeOK
<1>4. B \subseteq BookingIds /\ \A b \in B : bookings[b].owner = u /\ Live(b)
  BY <1>3, StoreAssumption DEF BookingsOf, Live, NoBooking
<1>5. L \subseteq Locks
  BY <1>4 DEF Locks
<1>6. LocalsTypeOK'
  BY <1>1, <1>2, <1>4, <1>5 DEF LocalsTypeOK, Stages
<1>7. /\ Untouched({p}) /\ held'[p] = held[p] \cup L
      /\ pc'[p] = "dropMember" /\ req'[p] = req[p] /\ rows'[p] = B
  BY <1>1, <1>2 DEF LocalsTypeOK, Untouched, DropKnown
<1>8. LocalStep({p})
  BY <1>2, <1>6, <1>7, LocksTaken
<1>9. TableStep({p}) /\ SettingTypeOK'
  BY <1>2, SameTables DEF IInv, TypeOK, SettingTypeOK, setting
<1>10. Asked(p)' /\ GiftKnown(p)' /\ SwapKnown(p)'
  BY <1>1, <1>7
     DEF Asked, GiftKnown, SwapKnown, SwapStages, DropStages, Verdict
<1>11. Loaded(p)'
  BY <1>1, <1>2, <1>4, <1>7 DEF Loaded, Fresh, tables
<1>12. DropKnown(p)'
  BY <1>2, <1>4, <1>7 DEF DropKnown, RowLock, tables
<1>13. QED
  BY <1>8, <1>9, <1>10, <1>11, <1>12, Preserved DEF Knows

\* DropMember keeps the invariant.
LEMMA DropMemberKeeps ==
  ASSUME IInv, NEW p \in Handlers, DropMember(p)
  PROVE  IInv'
<1> DEFINE u == req[p].user
<1>1. /\ LocalsTypeOK /\ DropKnown(p) /\ pc[p] = "dropMember"
      /\ TablesTypeOK /\ Fresh /\ SlotUnique /\ LockExclusive
      /\ rows[p] \in SUBSET BookingIds
  BY DEF DropMember, IInv, TypeOK, LocalsTypeOK, HandlersOK, Knows
<1>2. LocalStep({p}) /\ Asked(p)' /\ Knows(p)'
  BY FinishStep DEF DropMember
<1>3. SettingTypeOK'
  BY DEF DropMember, IInv, TypeOK, SettingTypeOK
<1>4. CASE UNCHANGED <<bookings, gifts, swaps>>
  <2>1. UNCHANGED tables
    BY <1>4 DEF DropMember, tables
  <2>2. QED
    BY <1>2, <1>3, <2>1, SameTables, Preserved
<1>5. ASSUME NEW G \in SUBSET GiftIds,
             Free(p, OfferLocks(u)),
             bookings' = [b \in BookingIds |-> IF b \in rows[p]
                                               THEN NoBooking ELSE bookings[b]],
             gifts' = [g \in GiftIds |-> IF g \in G THEN NoGift ELSE gifts[g]],
             swaps' = [o \in SwapIds |-> IF o \in OffersOf(u)
                                         THEN NoSwap ELSE swaps[o]]
      PROVE  IInv'
  <2>1. serial' = serial
    BY DEF DropMember
  <2>2. TablesTypeOK'
    BY <1>1, <1>5, <2>1 DEF TablesTypeOK
  <2>3. Fresh' /\ SlotUnique'
    BY <1>1, <1>5, <2>1 DEF Fresh, SlotUnique, Live
  <2>4. Steady({p})
    <3>1. serial.booking <= serial'.booking /\ serial.gift <= serial'.gift
      BY <1>1, <2>1 DEF TablesTypeOK
    <3>2. \A q \in Handlers \ {p}, b \in BookingIds :
            RowLock(b) \in held[q] => bookings'[b] = bookings[b]
      <4>1. \A q \in Handlers \ {p}, b \in rows[p] : RowLock(b) \notin held[q]
        BY <1>1 DEF DropKnown, LockExclusive
      <4>2. QED
        BY <1>5, <4>1
    <3>3. \A q \in Handlers \ {p}, o \in SwapIds :
            SwapLock(o) \in held[q] => swaps'[o] = swaps[o]
      BY <1>5 DEF Free, OfferLocks
    <3>4. QED
      BY <1>5, <3>1, <3>2, <3>3 DEF Steady
  <2>5. QED
    BY <1>2, <1>3, <2>2, <2>3, <2>4, Preserved DEF TableStep
<1>6. QED
  <2> DEFINE gone == GiftsOf(u) \cup {g \in GiftIds : gifts[g].booking \in rows[p]}
  <2>1. gone \in SUBSET GiftIds
    BY DEF GiftsOf
  <2>2. CASE /\ Free(p, OfferLocks(u))
             /\ bookings' = [b \in BookingIds |-> IF b \in rows[p]
                                                  THEN NoBooking ELSE bookings[b]]
             /\ gifts' = [g \in GiftIds |-> IF g \in gone THEN NoGift ELSE gifts[g]]
             /\ swaps' = [o \in SwapIds |-> IF o \in OffersOf(u)
                                            THEN NoSwap ELSE swaps[o]]
    BY <1>5, <2>1, <2>2
  <2>3. QED
    BY <1>4, <2>2 DEF DropMember

-----------------------------------------------------------------------------
(* The invariant of the specification *)

\* The empty database satisfies the invariant.
LEMMA InitHolds ==
  ASSUME Init
  PROVE  IInv
<1> USE DEF Init, StoreInit
<1>1. TypeOK
  BY StoreAssumption
     DEF TypeOK, TablesTypeOK, SettingTypeOK, LocalsTypeOK, Stages
<1>2. Fresh /\ SlotUnique
  BY DEF Fresh, SlotUnique, Live
<1>3. LockExclusive
  BY DEF LockExclusive
<1>4. HandlersOK
  BY DEF HandlersOK, Asked, Knows, Loaded, GiftKnown, SwapKnown, DropKnown, SwapStages, DropStages, Verdict
<1>5. QED
  BY <1>1, <1>2, <1>3, <1>4 DEF IInv

\* Every step keeps the invariant.
LEMMA StepHolds ==
  ASSUME IInv, [Next]_vars
  PROVE  IInv'
<1>1. ASSUME NEW p \in Handlers, Start(p)
      PROVE  IInv'
  BY <1>1, BookStartKeeps, DeleteStartKeeps, ReserveKeeps, SettingKeeps,
     GiftStartKeeps, GiftDecideStartKeeps, SwapStartKeeps, SwapAcceptStartKeeps,
     SwapDeclineKeeps, DeleteUserStartKeeps DEF Start
<1>2. ASSUME NEW p \in Handlers, Work(p)
      PROVE  IInv'
  <2>1. CASE Close(p)
    BY <2>1, CloseKeeps DEF Close
  <2>2. CASE SwapGive(p)
    BY <2>2, LoadLockedKeeps DEF SwapGive, SwapStages
  <2>3. CASE SwapWant(p)
    BY <2>3, LoadLockedKeeps DEF SwapWant, SwapStages
  <2>4. QED
    BY <1>2, <2>1, <2>2, <2>3, BookLimitKeeps, BookInsertKeeps, DeleteKeeps,
       WarnKeeps, ClearConflictKeeps, GiftInsertKeeps, GiftLimitKeeps, GiftWriteKeeps,
       GiftCloseKeeps, SwapInsertKeeps, SwapWriteKeeps, DropOffersKeeps,
       DropBookingsKeeps, DropMemberKeeps DEF Work
<1>3. ASSUME NEW p \in Handlers, DeadlockVictim(p) \/ Fail(p)
      PROVE  IInv'
  BY <1>3, CloseKeeps DEF DeadlockVictim, Fail
<1>4. CASE UNCHANGED vars
  BY <1>4, SettingStepKeeps
     DEF vars, setting, IInv, TypeOK, SettingTypeOK
<1>5. QED
  BY <1>1, <1>2, <1>3, <1>4, WeeklyResetKeeps, TickKeeps DEF Next

(***************************************************************************)
(* The inductive invariant holds in every reachable state.                 *)
(***************************************************************************)
THEOREM Invariant == Spec => []IInv
<1>1. Init => IInv
  BY InitHolds
<1>2. IInv /\ [Next]_vars => IInv'
  BY StepHolds
<1>3. QED
  BY <1>1, <1>2, PTL DEF Spec

(***************************************************************************)
(* Every variable keeps its type: no statement of a handler ever writes    *)
(* through a row that has been deleted under it, because the flush checks  *)
(* the row (gifts) or the row is locked (swaps).                           *)
(***************************************************************************)
THEOREM TypeCorrect == Spec => []TypeOK
<1>1. IInv => TypeOK
  BY DEF IInv
<1>2. QED
  BY <1>1, Invariant, PTL

(***************************************************************************)
(* No two bookings are for the same slot, however many handlers insert,    *)
(* delete, give and swap at once (uq_booking_date_hour).                   *)
(***************************************************************************)
THEOREM NoDoubleBooking == Spec => []SlotUnique
<1>1. IInv => SlotUnique
  BY DEF IInv
<1>2. QED
  BY <1>1, Invariant, PTL

(***************************************************************************)
(* No lock is held by two transactions: every acquisition waits for it.    *)
(***************************************************************************)
THEOREM LocksExclusive == Spec => []LockExclusive
<1>1. IInv => LockExclusive
  BY DEF IInv
<1>2. QED
  BY <1>1, Invariant, PTL

(***************************************************************************)
(* The rows accept_swap_offer has loaded FOR UPDATE stay those of the two  *)
(* parties at the two slots until it has written them.                     *)
(***************************************************************************)
THEOREM SwapRowsHeld == Spec => []SwapRowsStable
<1>1. IInv => SwapRowsStable
  BY DEF IInv, HandlersOK, Knows, SwapKnown, SwapStages, SwapRowsStable
<1>2. QED
  BY <1>1, Invariant, PTL

-----------------------------------------------------------------------------
(* The statements that write a table *)

(***************************************************************************)
(* Taking up a request writes no booking and no gift offer, and declining  *)
(* is the only request that writes a swap offer at once.                   *)
(***************************************************************************)
LEMMA StartReads ==
  ASSUME NEW p \in Handlers, Start(p)
  PROVE  /\ UNCHANGED <<bookings, gifts>>
         /\ UNCHANGED swaps \/ SwapDecline(p)
<1>1. CASE BookStart(p) \/ CancelStart(p) \/ RemoveStart(p) \/ Reserve(p)
             \/ Unreserve(p) \/ Skip(p) \/ ChangeAccess(p) \/ DeleteUserStart(p)
  BY <1>1 DEF BookStart, CancelStart, RemoveStart, Reserve, Unreserve, Skip,
              ChangeAccess, DeleteUserStart, tables
<1>2. CASE GiftStart(p) \/ GiftAcceptStart(p) \/ GiftDeclineStart(p)
             \/ SwapStart(p) \/ SwapAcceptStart(p)
  BY <1>2 DEF GiftStart, GiftAcceptStart, GiftDeclineStart, SwapStart,
              SwapAcceptStart, tables
<1>3. CASE SwapDecline(p)
  BY <1>3 DEF SwapDecline
<1>4. QED
  BY <1>1, <1>2, <1>3 DEF Start

(***************************************************************************)
(* Only seven operations write a booking.                                  *)
(***************************************************************************)
LEMMA WhoWrites ==
  ASSUME [Next]_vars
  PROVE  \/ UNCHANGED bookings
         \/ WeeklyReset
         \/ \E p \in Handlers :
              \/ BookInsert(p) \/ Delete(p) \/ ClearConflict(p)
              \/ GiftWrite(p) \/ SwapWrite(p) \/ DropMember(p)
<1>1. ASSUME NEW p \in Handlers, Start(p)
      PROVE  UNCHANGED bookings
  BY <1>1, StartReads
<1>2. ASSUME NEW p \in Handlers, Work(p),
             ~(BookInsert(p) \/ Delete(p) \/ ClearConflict(p)
                 \/ GiftWrite(p) \/ SwapWrite(p) \/ DropMember(p))
      PROVE  UNCHANGED bookings
  <2>1. CASE SwapGive(p) \/ SwapWant(p) \/ DropOffers(p) \/ DropBookings(p)
    BY <2>1 DEF SwapGive, SwapWant, DropOffers, DropBookings, LoadLocked, tables
  <2>2. CASE BookLimit(p) \/ Close(p) \/ Warn(p) \/ GiftInsert(p)
               \/ GiftLimit(p) \/ GiftClose(p) \/ SwapInsert(p)
    BY <2>2 DEF BookLimit, Close, Warn, GiftInsert, GiftLimit, GiftClose,
                SwapInsert, tables
  <2>3. QED
    BY <1>2, <2>1, <2>2 DEF Work
<1>3. ASSUME NEW p \in Handlers, DeadlockVictim(p) \/ Fail(p)
      PROVE  UNCHANGED bookings
  BY <1>3 DEF DeadlockVictim, Fail, tables
<1>4. CASE Tick \/ UNCHANGED vars
  BY <1>4 DEF Tick, vars, tables
<1>5. QED
  BY <1>1, <1>2, <1>3, <1>4 DEF Next

(***************************************************************************)
(* Only four operations write a swap offer.                                *)
(***************************************************************************)
LEMMA WhoDecides ==
  ASSUME [Next]_vars
  PROVE  \/ UNCHANGED swaps
         \/ \E p \in Handlers : \/ SwapInsert(p) \/ SwapWrite(p)
                                \/ SwapDecline(p) \/ DropMember(p)
<1>1. ASSUME NEW p \in Handlers, Start(p), ~SwapDecline(p)
      PROVE  UNCHANGED swaps
  BY <1>1, StartReads
<1>2. ASSUME NEW p \in Handlers, Work(p),
             ~(SwapInsert(p) \/ SwapWrite(p) \/ DropMember(p))
      PROVE  UNCHANGED swaps
  <2>1. CASE SwapGive(p) \/ SwapWant(p) \/ DropOffers(p) \/ DropBookings(p)
    BY <2>1 DEF SwapGive, SwapWant, DropOffers, DropBookings, LoadLocked, tables
  <2>2. CASE BookLimit(p) \/ Close(p) \/ Warn(p) \/ GiftInsert(p)
               \/ GiftLimit(p) \/ GiftClose(p)
    BY <2>2 DEF BookLimit, Close, Warn, GiftInsert, GiftLimit, GiftClose, tables
  <2>3. CASE BookInsert(p) \/ Delete(p) \/ ClearConflict(p) \/ GiftWrite(p)
    BY <2>3 DEF BookInsert, Delete, ClearConflict, GiftWrite
  <2>4. QED
    BY <1>2, <2>1, <2>2, <2>3 DEF Work
<1>3. ASSUME NEW p \in Handlers, DeadlockVictim(p) \/ Fail(p)
      PROVE  UNCHANGED swaps
  BY <1>3 DEF DeadlockVictim, Fail, tables
<1>4. CASE Tick \/ WeeklyReset \/ UNCHANGED vars
  BY <1>4 DEF Tick, WeeklyReset, vars, tables
<1>5. QED
  BY <1>1, <1>2, <1>3, <1>4 DEF Next

(***************************************************************************)
(* Only seven operations write a gift offer, three of them by deleting the *)
(* booking and one by deleting a member.                                   *)
(***************************************************************************)
LEMMA WhoOffers ==
  ASSUME [Next]_vars
  PROVE  \/ UNCHANGED gifts
         \/ WeeklyReset
         \/ \E p \in Handlers :
              \/ Delete(p) \/ ClearConflict(p)
              \/ GiftInsert(p) \/ GiftWrite(p) \/ GiftClose(p) \/ DropMember(p)
<1>1. ASSUME NEW p \in Handlers, Start(p)
      PROVE  UNCHANGED gifts
  BY <1>1, StartReads
<1>2. ASSUME NEW p \in Handlers, Work(p),
             ~(Delete(p) \/ ClearConflict(p) \/ GiftInsert(p) \/ GiftWrite(p)
                 \/ GiftClose(p) \/ DropMember(p))
      PROVE  UNCHANGED gifts
  <2>1. CASE SwapGive(p) \/ SwapWant(p) \/ DropOffers(p) \/ DropBookings(p)
    BY <2>1 DEF SwapGive, SwapWant, DropOffers, DropBookings, LoadLocked, tables
  <2>2. CASE BookLimit(p) \/ Close(p) \/ Warn(p) \/ GiftLimit(p)
    BY <2>2 DEF BookLimit, Close, Warn, GiftLimit, tables
  <2>3. CASE BookInsert(p) \/ SwapInsert(p) \/ SwapWrite(p)
    BY <2>3 DEF BookInsert, SwapInsert, SwapWrite
  <2>4. QED
    BY <1>2, <2>1, <2>2, <2>3 DEF Work
<1>3. ASSUME NEW p \in Handlers, DeadlockVictim(p) \/ Fail(p)
      PROVE  UNCHANGED gifts
  BY <1>3 DEF DeadlockVictim, Fail, tables
<1>4. CASE Tick \/ UNCHANGED vars
  BY <1>4 DEF Tick, vars, tables
<1>5. QED
  BY <1>1, <1>2, <1>3, <1>4 DEF Next

-----------------------------------------------------------------------------
(* What deciding a swap offer does *)

(***************************************************************************)
(* A step that decides swap offers finds each of them pending.             *)
(***************************************************************************)
LEMMA PendingDecided ==
  ASSUME IInv, NEW p \in Handlers,
         SwapInsert(p) \/ SwapWrite(p) \/ SwapDecline(p),
         NEW o \in SwapIds, swaps'[o] # swaps[o]
  PROVE  swaps[o].status \in {"absent", "pending"}
<1>1. /\ TablesTypeOK /\ LocalsTypeOK /\ Fresh /\ Asked(p) /\ SwapKnown(p)
  BY DEF IInv, TypeOK, HandlersOK, Knows
<1>2. CASE SwapInsert(p)
  <2>1. o = serial.swap
    BY <1>1, <1>2 DEF SwapInsert, TablesTypeOK
  <2>2. swaps[o] = NoSwap
    BY <1>1, <2>1 DEF Fresh, TablesTypeOK
  <2>3. QED
    BY <2>2 DEF NoSwap
<1>3. CASE SwapDecline(p)
  BY <1>1, <1>3 DEF SwapDecline, TablesTypeOK
<1>4. CASE SwapWrite(p)
  <2>1. swaps[req[p].offer].status = "pending"
    BY <1>1, <1>4 DEF SwapWrite, SwapKnown, SwapStages
  <2>2. o = req[p].offer \/ o \in Rivals(req[p].offer)
    BY <1>1, <1>4 DEF SwapWrite, Exchange, TablesTypeOK
  <2>3. QED
    BY <2>1, <2>2 DEF Rivals
<1>5. QED
  BY <1>2, <1>3, <1>4

(***************************************************************************)
(* A swap offer is decided once: declining, accepting and the cancelling   *)
(* of its rivals all find the offer pending, because whoever decides holds *)
(* its lock. It goes with a member who is deleted.                         *)
(***************************************************************************)
THEOREM DecidedOnce == Spec => SwapDecidedOnce
<1>1. IInv /\ [Next]_vars =>
        [\A o \in SwapIds :
           swaps[o].status \notin {"absent", "pending"} =>
             \/ swaps'[o] = swaps[o]
             \/ /\ swaps'[o] = NoSwap
                /\ ~ {swaps[o].giver, swaps[o].receiver} \subseteq members']_vars
  <2>1. ASSUME NEW p \in Handlers, DropMember(p), NEW o \in SwapIds
        PROVE  \/ swaps'[o] = swaps[o]
               \/ /\ swaps'[o] = NoSwap
                  /\ ~ {swaps[o].giver, swaps[o].receiver} \subseteq members'
    BY <2>1 DEF DropMember, OffersOf
  <2>2. QED
    BY <2>1, WhoDecides, PendingDecided
<1>2. QED
  BY <1>1, Invariant, PTL DEF Spec, SwapDecidedOnce

\* OwnerAt, for any table of bookings.
OwnerIn(T, s) ==
  IF \E b \in BookingIds : T[b].slot = s
  THEN T[CHOOSE b \in BookingIds : T[b].slot = s].owner
  ELSE Nobody

(***************************************************************************)
(* No two bookings being for one slot, the owner of a slot is the owner of *)
(* any booking of it, and nobody when there is none.                       *)
(***************************************************************************)
LEMMA OwnerFound ==
  ASSUME NEW T \in [BookingIds -> BookingRow \cup {NoBooking}],
         \A x, y \in BookingIds :
           /\ T[x] # NoBooking /\ T[y] # NoBooking
           /\ T[x].slot = T[y].slot
           => x = y,
         NEW s \in Slots
  PROVE  /\ \A b \in BookingIds : T[b].slot = s => OwnerIn(T, s) = T[b].owner
         /\ (\A b \in BookingIds : T[b].slot # s) => OwnerIn(T, s) = Nobody
<1> SUFFICES ASSUME NEW b \in BookingIds, T[b].slot = s
             PROVE  OwnerIn(T, s) = T[b].owner
  BY DEF OwnerIn
<1> DEFINE c == CHOOSE x \in BookingIds : T[x].slot = s
<1>1. c \in BookingIds /\ T[c].slot = s
  OBVIOUS
<1>2. s # 0
  BY CalendarAssumption
<1>3. T[b] # NoBooking /\ T[c] # NoBooking
  BY <1>1, <1>2 DEF NoBooking
<1>4. c = b
  BY <1>1, <1>3
<1>5. QED
  BY <1>4 DEF OwnerIn

(***************************************************************************)
(* accept_swap_offer exchanges the bookings of the two slots: one is the   *)
(* giver's, one the receiver's, and both are found.                        *)
(***************************************************************************)
LEMMA Exchanged ==
  ASSUME IInv, NEW p \in Handlers, pc[p] = "swapWrite",
         Exchangeable(p), Exchange(p)
  PROVE  LET o == req[p].offer
             G == swaps[o].giver
             R == swaps[o].receiver
         IN  /\ o \in SwapIds /\ swaps[o] \in SwapRow
             /\ \E g, h \in BookingIds :
                  /\ bookings[g] = [slot |-> swaps[o].give, owner |-> G]
                  /\ bookings[h] = [slot |-> swaps[o].want, owner |-> R]
                  /\ bookings'[g] = [slot |-> swaps[o].give, owner |-> R]
                  /\ bookings'[h] = [slot |-> swaps[o].want, owner |-> G]
                  /\ \A b \in BookingIds \ {g, h} : bookings'[b] = bookings[b]
                  /\ g # h
<1> DEFINE o == req[p].offer
           G == swaps[o].giver
           R == swaps[o].receiver
<1>1. /\ TablesTypeOK /\ LocalsTypeOK /\ SlotUnique /\ Asked(p)
      /\ swaps[o].status = "pending"
      /\ rows[p] \subseteq GiveRow(p) \cup WantRow(p)
  BY DEF IInv, TypeOK, HandlersOK, Knows, SwapKnown, SwapStages
<1>2. o \in SwapIds /\ swaps[o] \in SwapRow
  <2>1. o \in SwapIds
    BY <1>1, RequestFields DEF Asked, SwapStages, LocalsTypeOK
  <2>2. QED
    BY <1>1, <2>1 DEF TablesTypeOK, NoSwap
<1>3. G \in Users /\ R \in Users
  BY <1>2 DEF SwapRow
<1>4. rows[p] \subseteq BookingIds /\ \A b \in rows[p] : Live(b)
  BY <1>1, <1>3, StoreAssumption
     DEF LocalsTypeOK, GiveRow, WantRow, OwnedAt, Mine, Live, NoBooking
<1>5. PICK x \in rows[p], y \in rows[p] : x # y
  <2>1. rows[p] # {}
    BY FS_EmptySet DEF Exchangeable
  <2>2. PICK x \in rows[p] : TRUE
    BY <2>1
  <2>3. Cardinality({x}) = 1
    BY FS_Singleton
  <2>4. rows[p] # {x}
    BY <2>3 DEF Exchangeable
  <2>5. QED
    BY <2>2, <2>4
<1>6. \A b, c \in rows[p] : bookings[b].slot = bookings[c].slot => b = c
  BY <1>1, <1>4 DEF SlotUnique
<1>7. PICK g \in rows[p], h \in rows[p] :
        /\ bookings[g] = [slot |-> swaps[o].give, owner |-> G]
        /\ bookings[h] = [slot |-> swaps[o].want, owner |-> R]
        /\ rows[p] = {g, h} /\ g # h
  <2>1. \A b \in rows[p] : \/ bookings[b] = [slot |-> swaps[o].give, owner |-> G]
                           \/ bookings[b] = [slot |-> swaps[o].want, owner |-> R]
    BY <1>1 DEF GiveRow, WantRow, OwnedAt, Mine
  <2>2. \A b \in rows[p] : bookings[b].slot \in {swaps[o].give, swaps[o].want}
    BY <2>1
  <2>3. bookings[x].slot # bookings[y].slot
    BY <1>5, <1>6
  <2>4. \A b \in rows[p] : b = x \/ b = y
    BY <1>6, <2>2, <2>3
  <2>5. QED
    BY <1>5, <2>1, <2>3, <2>4
<1>8. /\ bookings'[g] = [slot |-> swaps[o].give, owner |-> R]
      /\ bookings'[h] = [slot |-> swaps[o].want, owner |-> G]
      /\ \A b \in BookingIds \ {g, h} : bookings'[b] = bookings[b]
  <2>1. bookings' = [b \in BookingIds |->
                      IF b \in rows[p]
                      THEN [bookings[b] EXCEPT !.owner = OtherParty(o, @)]
                      ELSE bookings[b]]
    BY DEF Exchange
  <2>2. OtherParty(o, G) = R /\ OtherParty(o, R) = G
    BY DEF OtherParty
  <2>3. QED
    BY <1>4, <1>7, <2>1, <2>2
<1>9. QED
  BY <1>2, <1>4, <1>7, <1>8

(***************************************************************************)
(* A step that accepts a swap offer exchanges its two slots.               *)
(***************************************************************************)
LEMMA AcceptedExchanges ==
  ASSUME IInv, IInv', NEW p \in Handlers,
         SwapInsert(p) \/ SwapWrite(p) \/ SwapDecline(p),
         NEW o \in SwapIds,
         swaps[o].status = "pending", swaps'[o].status = "accepted"
  PROVE  /\ OwnerAt(swaps[o].give) = swaps[o].giver
         /\ OwnerAt(swaps[o].want) = swaps[o].receiver
         /\ OwnerAt(swaps[o].give)' = swaps[o].receiver
         /\ OwnerAt(swaps[o].want)' = swaps[o].giver
<1>1. /\ TablesTypeOK /\ LocalsTypeOK /\ Fresh /\ SlotUnique
      /\ TablesTypeOK' /\ SlotUnique'
  BY DEF IInv, TypeOK
<1>2. ~SwapInsert(p)
  <2>1. ASSUME SwapInsert(p)
        PROVE  swaps[o] = NoSwap
    <3>1. o = serial.swap
      BY <1>1, <2>1 DEF SwapInsert, TablesTypeOK
    <3>2. QED
      BY <1>1, <3>1 DEF Fresh, TablesTypeOK
  <2>2. QED
    BY <2>1 DEF NoSwap
<1>3. swaps \in [SwapIds -> SwapRow \cup {NoSwap}] /\ swaps[o] \in SwapRow
  BY <1>1 DEF TablesTypeOK, NoSwap
<1>4. ASSUME NEW x, NEW st, st # "accepted"
      PROVE  swaps' # [swaps EXCEPT ![x].status = st]
  <2>1. CASE o = x
    BY <1>3, <1>4, <2>1 DEF SwapRow
  <2>2. CASE o # x
    BY <1>3, <1>4, <2>2
  <2>3. QED
    BY <2>1, <2>2
<1>5. /\ pc[p] = "swapWrite" /\ Exchangeable(p) /\ Exchange(p)
      /\ o = req[p].offer
  <2>1. ~SwapDecline(p)
    <3>1. \A r \in Requests : swaps' # [swaps EXCEPT ![r.offer].status = "declined"]
      BY <1>4
    <3>2. QED
      BY <3>1 DEF SwapDecline
  <2>2. pc[p] = "swapWrite" /\ Exchangeable(p) /\ Exchange(p)
    BY <1>2, <1>4, <2>1 DEF SwapWrite
  <2>3. o = req[p].offer
    BY <1>3, <2>2 DEF Exchange, SwapRow
  <2>4. QED
    BY <2>2, <2>3
<1>6. PICK g \in BookingIds, h \in BookingIds :
        /\ bookings[g] = [slot |-> swaps[o].give, owner |-> swaps[o].giver]
        /\ bookings[h] = [slot |-> swaps[o].want, owner |-> swaps[o].receiver]
        /\ bookings'[g] = [slot |-> swaps[o].give, owner |-> swaps[o].receiver]
        /\ bookings'[h] = [slot |-> swaps[o].want, owner |-> swaps[o].giver]
  BY <1>5, Exchanged
<1>7. swaps[o].give \in Slots /\ swaps[o].want \in Slots
  BY <1>3 DEF SwapRow
<1>8. swaps'[o].give = swaps[o].give /\ swaps'[o].want = swaps[o].want
  BY <1>3, <1>5 DEF Exchange, SwapRow
<1>9. /\ OwnerAt(swaps[o].give) = OwnerIn(bookings, swaps[o].give)
      /\ OwnerAt(swaps[o].want) = OwnerIn(bookings, swaps[o].want)
      /\ OwnerAt(swaps[o].give)' = OwnerIn(bookings', swaps'[o].give)
      /\ OwnerAt(swaps[o].want)' = OwnerIn(bookings', swaps'[o].want)
  BY DEF OwnerAt, OwnerIn
<1>10. ASSUME NEW b \in BookingIds, NEW s \in Slots
       PROVE  /\ bookings[b].slot = s => OwnerIn(bookings, s) = bookings[b].owner
              /\ bookings'[b].slot = s => OwnerIn(bookings', s) = bookings'[b].owner
  BY <1>1, OwnerFound DEF TablesTypeOK, SlotUnique, Live
<1>11. QED
  BY <1>6, <1>7, <1>8, <1>9, <1>10

(***************************************************************************)
(* A swap is accepted only in the step in which both slots change hands    *)
(* between its two parties, and from the parties the offer names.          *)
(***************************************************************************)
THEOREM BothExchanged == Spec => SwapExchanges
<1>1. IInv /\ IInv' /\ [Next]_vars =>
        [\A o \in SwapIds :
           swaps[o].status = "pending" /\ swaps'[o].status = "accepted" =>
             /\ OwnerAt(swaps[o].give) = swaps[o].giver
             /\ OwnerAt(swaps[o].want) = swaps[o].receiver
             /\ OwnerAt(swaps[o].give)' = swaps[o].receiver
             /\ OwnerAt(swaps[o].want)' = swaps[o].giver]_vars
  <2> SUFFICES ASSUME IInv, IInv', [Next]_vars, NEW o \in SwapIds,
                      swaps[o].status = "pending",
                      swaps'[o].status = "accepted"
               PROVE  /\ OwnerAt(swaps[o].give) = swaps[o].giver
                      /\ OwnerAt(swaps[o].want) = swaps[o].receiver
                      /\ OwnerAt(swaps[o].give)' = swaps[o].receiver
                      /\ OwnerAt(swaps[o].want)' = swaps[o].giver
    OBVIOUS
  <2>1. ~UNCHANGED swaps
    OBVIOUS
  <2>2. ASSUME NEW p \in Handlers, DropMember(p)
        PROVE  FALSE
    <3>1. swaps'[o] = swaps[o] \/ swaps'[o] = NoSwap
      BY <2>2 DEF DropMember
    <3>2. QED
      BY <3>1 DEF NoSwap
  <2>3. QED
    BY <2>1, <2>2, WhoDecides, AcceptedExchanges
<1>2. QED
  BY <1>1, Invariant, PTL DEF Spec, SwapExchanges

-----------------------------------------------------------------------------
(* Removing and giving bookings *)

\* The working hours of a week are over when a later week becomes the bookable
\* one (Sunday 22:00), as with the default working hours.
HoursOverAtSwitch ==
  \A s \in Slots, w \in Weeks : WeekOf[s] < w => s <= WeekOpens[w]

\* Why a handler may remove or give the bookings it has loaded: it deletes the
\* booking it was asked to delete, clears the hour it was asked to reserve, or
\* accepts an offer made to the member who accepts.
CauseKnown(p) ==
  /\ Deleting(p) => rows[p] = {req[p].booking}
  /\ pc[p] = "clearing" =>
       \A b \in rows[p] : Live(b) => KeyOf[bookings[b].slot] = req[p].key
  /\ pc[p] \in {"giftLimit", "giftWrite"} =>
       \/ gifts[req[p].offer] = NoGift
       \/ gifts[req[p].offer].recipient = req[p].user

CauseInv == \A p \in Handlers : CauseKnown(p)

(***************************************************************************)
(* A finite set of numbers has a greatest one: of the parts without one    *)
(* take the smallest; without one of its members it has a greatest.        *)
(***************************************************************************)
LEMMA Greatest ==
  ASSUME NEW W \in SUBSET Nat, IsFiniteSet(W), W # {}
  PROVE  \E m \in W : \A x \in W : x <= m
<1> DEFINE Unbounded(X) == X # {} /\ ~ \E m \in X : \A x \in X : x <= m
           T == {X \in SUBSET W : Unbounded(X)}
<1>1. SUFFICES ASSUME T # {}
               PROVE  FALSE
  OBVIOUS
<1>2. IsWellFoundedOn(StrictSubsetOrdering(W), SUBSET W)
  BY FS_StrictSubsetOrderingWellFounded, FS_FiniteSubsetsOfFinite
<1>3. PICK X \in T : \A Y \in T : <<Y, X>> \notin StrictSubsetOrdering(W)
  <2>1. T \subseteq SUBSET W
    OBVIOUS
  <2> HIDE DEF T
  <2>2. QED
    BY <1>1, <1>2, <2>1, WFMin
<1>4. PICK x \in X : TRUE
  BY <1>3
<1> DEFINE Y == X \ {x}
<1>5. <<Y, X>> \in StrictSubsetOrdering(W)
  BY <1>3, <1>4 DEF StrictSubsetOrdering
<1>6. ~Unbounded(Y)
  BY <1>3, <1>5
<1>7. CASE Y = {}
  <2>1. \A y \in X : y <= x
    BY <1>3, <1>4, <1>7
  <2>2. QED
    BY <1>3, <1>4, <2>1
<1>8. CASE Y # {}
  <2>1. PICK m \in Y : \A y \in Y : y <= m
    BY <1>6, <1>8
  <2>2. x \in Nat /\ m \in Nat /\ X \subseteq Nat
    BY <1>3, <1>4
  <2>3. m <= x \/ x <= m
    BY <2>2
  <2>4. (\A y \in X : y <= m) \/ (\A y \in X : y <= x)
    BY <1>4, <2>1, <2>2, <2>3
  <2>5. QED
    BY <1>3, <1>4, <2>1, <2>4
<1>9. QED
  BY <1>7, <1>8

(***************************************************************************)
(* The bookable week is the last one that has opened.                      *)
(***************************************************************************)
LEMMA BookableWeek ==
  ASSUME now \in Nat
  PROVE  /\ CurrentWeek \in Weeks
         /\ WeekOpens[CurrentWeek] <= now
<1> DEFINE W == {w \in Weeks : WeekOpens[w] <= now}
<1>1. W \in SUBSET Nat /\ IsFiniteSet(W)
  BY CalendarAssumption, FS_Subset
<1>2. W # {}
  BY CalendarAssumption
<1>3. \E m \in W : \A x \in W : x <= m
  <2> HIDE DEF W
  <2>1. QED
    BY <1>1, <1>2, Greatest
<1>4. \E w \in Weeks : /\ WeekOpens[w] <= now
                       /\ \A v \in Weeks : WeekOpens[v] <= now => v <= w
  BY <1>3
<1>5. QED
  BY <1>4 DEF CurrentWeek

(***************************************************************************)
(* Accepting a gift or a swap changes owners and nothing else.             *)
(***************************************************************************)
LEMMA OwnersMove ==
  ASSUME IInv, NEW p \in Handlers, GiftWrite(p) \/ SwapWrite(p),
         NEW b \in BookingIds
  PROVE  /\ Live(b)' <=> Live(b)
         /\ bookings'[b].slot = bookings[b].slot
<1>1. TablesTypeOK
  BY DEF IInv, TypeOK
<1>2. CASE UNCHANGED bookings
  BY <1>2 DEF Live
<1>3. ASSUME NEW c \in rows[p], Live(c),
             bookings' = [bookings EXCEPT ![c].owner = req[p].user]
      PROVE  /\ Live(b)' <=> Live(b)
             /\ bookings'[b].slot = bookings[b].slot
  <2>1. CASE b = c
    <3>1. Live(b) /\ bookings[b] \in BookingRow
      BY <1>1, <1>3, <2>1 DEF TablesTypeOK, Live
    <3>2. bookings'[b].slot = bookings[b].slot /\ bookings[b].slot \in Slots
      BY <1>1, <1>3, <2>1, <3>1 DEF TablesTypeOK, BookingRow
    <3>3. bookings'[b].slot # 0
      BY <3>2, CalendarAssumption
    <3>4. QED
      BY <3>1, <3>2, <3>3 DEF Live, NoBooking
  <2>2. CASE b # c
    BY <1>1, <1>3, <2>2 DEF TablesTypeOK, Live
  <2>3. QED
    BY <2>1, <2>2
<1>4. CASE pc[p] = "swapWrite" /\ Exchangeable(p) /\ Exchange(p)
  <2> DEFINE o == req[p].offer
  <2>1. PICK g \in BookingIds, h \in BookingIds :
          /\ bookings[g] = [slot |-> swaps[o].give, owner |-> swaps[o].giver]
          /\ bookings[h] = [slot |-> swaps[o].want, owner |-> swaps[o].receiver]
          /\ bookings'[g] = [slot |-> swaps[o].give, owner |-> swaps[o].receiver]
          /\ bookings'[h] = [slot |-> swaps[o].want, owner |-> swaps[o].giver]
          /\ \A x \in BookingIds \ {g, h} : bookings'[x] = bookings[x]
    BY <1>4, Exchanged
  <2>2. swaps[o] \in SwapRow
    BY <1>4, Exchanged
  <2>3. swaps[o].give # 0 /\ swaps[o].want # 0
    BY <2>2, CalendarAssumption DEF SwapRow
  <2> HIDE DEF o
  <2>4. QED
    BY <2>1, <2>3 DEF Live, NoBooking
<1>5. QED
  BY <1>2, <1>3, <1>4 DEF GiftWrite, SwapWrite

(***************************************************************************)
(* A booking keeps its slot and a gift offer its recipient for as long as  *)
(* they are there: ids are not used twice.                                 *)
(***************************************************************************)
LEMMA RowsKeep ==
  ASSUME IInv, [Next]_vars
  PROVE  /\ \A b \in BookingIds :
              b < serial.booking /\ Live(b)' =>
                Live(b) /\ bookings'[b].slot = bookings[b].slot
         /\ \A g \in GiftIds :
              g < serial.gift /\ gifts'[g] # NoGift =>
                gifts[g] # NoGift /\ gifts'[g].recipient = gifts[g].recipient
<1>1. TablesTypeOK /\ Fresh /\ LocalsTypeOK
  BY DEF IInv, TypeOK
<1>2. ASSUME NEW b \in BookingIds, b < serial.booking, Live(b)'
      PROVE  Live(b) /\ bookings'[b].slot = bookings[b].slot
  <2>1. CASE UNCHANGED bookings
    BY <1>2, <2>1 DEF Live
  <2>2. ASSUME NEW B, DeleteBookings(B)
        PROVE  Live(b) /\ bookings'[b].slot = bookings[b].slot
    BY <1>2, <2>2 DEF DeleteBookings, Live
  <2>3. ASSUME NEW p \in Handlers, BookInsert(p)
        PROVE  Live(b) /\ bookings'[b].slot = bookings[b].slot
    <3>1. b # serial.booking
      BY <1>1, <1>2 DEF TablesTypeOK
    <3>2. bookings'[b] = bookings[b]
      BY <1>1, <2>3, <3>1 DEF BookInsert, TablesTypeOK
    <3>3. QED
      BY <1>2, <3>2 DEF Live
  <2>4. ASSUME NEW p \in Handlers, DropMember(p)
        PROVE  Live(b) /\ bookings'[b].slot = bookings[b].slot
    BY <1>2, <2>4 DEF DropMember, Live
  <2>5. QED
    BY <1>2, <2>1, <2>2, <2>3, <2>4, OwnersMove, WhoWrites
       DEF WeeklyReset, Delete, ClearConflict
<1>3. ASSUME NEW g \in GiftIds, g < serial.gift, gifts'[g] # NoGift
      PROVE  gifts[g] # NoGift /\ gifts'[g].recipient = gifts[g].recipient
  <2>1. gifts \in [GiftIds -> GiftRow \cup {NoGift}] /\ serial.gift \in Nat
    BY <1>1 DEF TablesTypeOK
  <2>2. ASSUME NEW B, DeleteBookings(B)
        PROVE  gifts'[g] = gifts[g]
    BY <1>3, <2>2 DEF DeleteBookings
  <2>3. ASSUME NEW x \in GiftIds, gifts[x] # NoGift, NEW st,
               gifts' = [gifts EXCEPT ![x].status = st]
        PROVE  gifts[g] # NoGift /\ gifts'[g].recipient = gifts[g].recipient
    <3>1. CASE g = x
      BY <2>1, <2>3, <3>1 DEF GiftRow
    <3>2. CASE g # x
      BY <1>3, <2>1, <2>3, <3>2
    <3>3. QED
      BY <3>1, <3>2
  <2>4. ASSUME NEW p \in Handlers, GiftInsert(p)
        PROVE  gifts'[g] = gifts[g]
    <3>1. g # serial.gift
      BY <1>3, <2>1
    <3>2. QED
      BY <2>1, <2>4, <3>1 DEF GiftInsert
  <2>5. ASSUME NEW p \in Handlers, DropMember(p)
        PROVE  gifts'[g] = gifts[g]
    BY <1>3, <2>5 DEF DropMember
  <2>6. ASSUME NEW p \in Handlers, GiftWrite(p) \/ GiftClose(p)
        PROVE  gifts[g] # NoGift /\ gifts'[g].recipient = gifts[g].recipient
    <3>1. req[p].offer \in GiftIds
      BY <1>1, <2>6, RequestFields
         DEF IInv, HandlersOK, Asked, LocalsTypeOK, GiftWrite, GiftClose
    <3>2. UNCHANGED gifts \/ /\ gifts[req[p].offer] # NoGift
                             /\ \E st : gifts' = [gifts EXCEPT
                                                  ![req[p].offer].status = st]
      BY <2>6 DEF GiftWrite, GiftClose
    <3>3. QED
      BY <1>3, <2>3, <3>1, <3>2
  <2>7. CASE gifts'[g] = gifts[g]
    BY <1>3, <2>7
  <2>8. CASE UNCHANGED gifts
    BY <2>7, <2>8
  <2>9. WeeklyReset => gifts'[g] = gifts[g]
    BY <2>2 DEF WeeklyReset
  <2>10. \A p \in Handlers :
           Delete(p) \/ ClearConflict(p) => gifts'[g] = gifts[g]
    BY <2>2 DEF Delete, ClearConflict
  <2>11. QED
    BY <2>4, <2>5, <2>6, <2>7, <2>8, <2>9, <2>10, WhoOffers
<1>4. QED
  BY <1>2, <1>3

\* What a handler knows stays true while others work.
LEMMA OthersCause ==
  ASSUME IInv, CauseInv, [Next]_vars, NEW P \in SUBSET Handlers, Untouched(P),
         \A p \in P : CauseKnown(p)'
  PROVE  CauseInv'
<1> SUFFICES ASSUME NEW q \in Handlers \ P
             PROVE  CauseKnown(q)'
  BY DEF CauseInv
<1>1. /\ pc'[q] = pc[q] /\ req'[q] = req[q] /\ rows'[q] = rows[q]
      /\ CauseKnown(q) /\ Loaded(q) /\ GiftKnown(q) /\ Asked(q)
      /\ rows[q] \subseteq BookingIds /\ req[q] \in Requests \cup {NoRequest}
  BY DEF Untouched, CauseInv, IInv, HandlersOK, Knows, TypeOK, LocalsTypeOK
<1>2. \A b \in rows[q] :
        Live(b)' => Live(b) /\ bookings'[b].slot = bookings[b].slot
  BY <1>1, RowsKeep DEF Loaded
<1>3. ASSUME pc[q] \in {"giftLimit", "giftWrite"}, gifts'[req[q].offer] # NoGift
      PROVE  gifts'[req[q].offer].recipient = req[q].user
  <2>1. req[q].offer \in GiftIds /\ req[q].offer < serial.gift
    BY <1>1, <1>3, RequestFields DEF Asked, GiftKnown
  <2>2. /\ gifts[req[q].offer] # NoGift
        /\ gifts'[req[q].offer].recipient = gifts[req[q].offer].recipient
    BY <1>3, <2>1, RowsKeep
  <2>3. QED
    BY <1>1, <1>3, <2>2 DEF CauseKnown
<1>4. QED
  BY <1>1, <1>2, <1>3 DEF CauseKnown, Deleting

\* A handler that is not about to remove or give anything.
LEMMA NothingCaused ==
  ASSUME IInv, CauseInv, [Next]_vars, NEW P \in SUBSET Handlers, Untouched(P),
         \A p \in P : pc'[p] \notin {"delete", "lateDelete", "clearing",
                                    "giftLimit", "giftWrite"}
  PROVE  CauseInv'
BY OthersCause DEF CauseKnown, Deleting

\* A step that no handler takes.
LEMMA StillCaused ==
  ASSUME IInv, CauseInv, [Next]_vars, UNCHANGED locals
  PROVE  CauseInv'
<1>1. Untouched({})
  BY DEF Untouched, locals
<1>2. QED
  BY <1>1, NothingCaused

\* Taking up a request, a handler loads the bookings it was asked about.
LEMMA StartCaused ==
  ASSUME IInv, CauseInv, [Next]_vars, NEW p \in Handlers, Start(p)
  PROVE  CauseInv'
<1>1. ASSUME NEW r, NEW B, NEW stage, Begin(p, r, B, stage),
             stage \notin {"delete", "lateDelete", "clearing", "giftLimit",
                           "giftWrite"},
             UNCHANGED <<draft, held>>
      PROVE  CauseInv'
  BY <1>1, BeginLocals, NothingCaused, ZenonT(60)
<1>2. ASSUME NEW r, NEW B, NEW stage, Begin(p, r, B, stage),
             UNCHANGED <<draft, held>>
      PROVE  /\ Untouched({p})
             /\ pc'[p] = stage /\ req'[p] = r /\ rows'[p] = B
  BY <1>2 DEF IInv, TypeOK, LocalsTypeOK, Begin, Untouched
<1>3. CASE UNCHANGED locals
  BY <1>3, StillCaused
<1>4. CASE BookStart(p) \/ GiftStart(p) \/ GiftDeclineStart(p)
             \/ DeleteUserStart(p)
  BY <1>1, <1>4 DEF BookStart, GiftStart, GiftDeclineStart, DeleteUserStart
<1>5. CASE CancelStart(p) \/ RemoveStart(p)
  <2>1. PICK r \in Requests, stage \in {"delete", "lateDelete"} :
          Begin(p, r, {r.booking}, stage) /\ UNCHANGED <<draft, held>>
    BY <1>5 DEF CancelStart, RemoveStart
  <2>2. /\ Untouched({p}) /\ pc'[p] = stage /\ req'[p] = r
        /\ rows'[p] = {r.booking}
    BY <1>2, <2>1
  <2>3. CauseKnown(p)'
    BY <2>2 DEF CauseKnown
  <2>4. QED
    BY <2>2, <2>3, OthersCause
<1>6. CASE Reserve(p)
  <2>1. PICK r \in Requests :
          /\ \/ UNCHANGED locals
             \/ /\ Begin(p, r, Conflicts(r), "clearing")
                /\ UNCHANGED <<draft, held>>
          /\ UNCHANGED tables
    BY <1>6 DEF Reserve, AtOnce
  <2>2. CASE Begin(p, r, Conflicts(r), "clearing") /\ UNCHANGED <<draft, held>>
    <3>1. /\ Untouched({p}) /\ pc'[p] = "clearing" /\ req'[p] = r
          /\ rows'[p] = Conflicts(r)
      BY <1>2, <2>2
    <3>2. \A b \in Conflicts(r) : KeyOf[bookings[b].slot] = r.key
      BY DEF Conflicts
    <3>3. CauseKnown(p)'
      BY <2>1, <3>1, <3>2 DEF CauseKnown, Deleting, tables
    <3>4. QED
      BY <3>1, <3>3, OthersCause
  <2>3. QED
    BY <1>3, <2>1, <2>2
<1>7. CASE Unreserve(p) \/ Skip(p) \/ ChangeAccess(p) \/ SwapDecline(p)
  BY <1>3, <1>7 DEF Unreserve, Skip, ChangeAccess, SwapDecline, AtOnce
<1>8. CASE GiftAcceptStart(p)
  <2>1. PICK r \in Requests :
          /\ gifts[r.offer].recipient = r.user
          /\ \/ Begin(p, r, {}, "giftCancelled")
             \/ Begin(p, r, {gifts[r.offer].booking}, "giftExpired")
             \/ Begin(p, r, {gifts[r.offer].booking}, "giftLimit")
          /\ UNCHANGED <<tables, draft, held>>
    BY <1>8 DEF GiftAcceptStart
  <2>2. CASE Begin(p, r, {gifts[r.offer].booking}, "giftLimit")
    <3>1. /\ Untouched({p}) /\ pc'[p] = "giftLimit" /\ req'[p] = r
      BY <1>2, <2>1, <2>2
    <3>2. CauseKnown(p)'
      BY <2>1, <3>1 DEF CauseKnown, Deleting, tables
    <3>3. QED
      BY <3>1, <3>2, OthersCause
  <2>3. QED
    BY <1>1, <2>1, <2>2
<1>9. CASE SwapStart(p) \/ SwapAcceptStart(p)
  <2>1. Untouched({p}) /\ pc'[p] \in {"swapInsert", "swapGive"}
    BY <1>9 DEF IInv, TypeOK, LocalsTypeOK, Begin, Untouched, SwapStart,
                SwapAcceptStart
  <2>2. QED
    BY <2>1, NothingCaused
<1>10. QED
  BY <1>4, <1>5, <1>6, <1>7, <1>8, <1>9 DEF Start

\* At work, a handler keeps what it has loaded.
LEMMA WorkCaused ==
  ASSUME IInv, CauseInv, [Next]_vars, NEW p \in Handlers, Work(p)
  PROVE  CauseInv'
<1>1. CASE Finish(p)
  BY <1>1, FinishLocals, NothingCaused
<1>2. ASSUME NEW stage \in {"closing", "bookInsert", "warning", "swapWant",
                            "swapWrite", "dropBookings", "dropMember"},
             pc' = [pc EXCEPT ![p] = stage], UNCHANGED <<req, draft>>,
             \A q \in Handlers \ {p} : rows'[q] = rows[q] /\ held'[q] = held[q]
      PROVE  CauseInv'
  <2>1. Untouched({p}) /\ pc'[p] = stage
    BY <1>2 DEF IInv, TypeOK, LocalsTypeOK, Untouched
  <2>2. QED
    BY <2>1, NothingCaused
<1>3. \A q \in Handlers \ {p} :
        /\ \A B : rows' = [rows EXCEPT ![p] = B] => rows'[q] = rows[q]
        /\ \A L : held' = [held EXCEPT ![p] = L] => held'[q] = held[q]
  BY DEF IInv, TypeOK, LocalsTypeOK
<1>4. CASE BookLimit(p)
  BY <1>2, <1>3, <1>4 DEF BookLimit, LimitCheck, GoTo
<1>5. CASE SwapGive(p) \/ SwapWant(p) \/ DropOffers(p) \/ DropBookings(p)
  BY <1>2, <1>3, <1>5 DEF SwapGive, SwapWant, DropOffers, DropBookings,
                          LoadLocked, GoTo
<1>6. CASE Delete(p)
  BY <1>1, <1>2, <1>6 DEF Delete, GoTo
<1>7. CASE ClearConflict(p)
  <2>1. ASSUME NEW b \in rows[p], rows' = [rows EXCEPT ![p] = @ \ {b}],
               UNCHANGED <<pc, req, draft, held>>
        PROVE  CauseInv'
    <3>1. /\ Untouched({p}) /\ pc'[p] = "clearing" /\ req'[p] = req[p]
          /\ rows'[p] = rows[p] \ {b}
      BY <1>7, <2>1 DEF ClearConflict, IInv, TypeOK, LocalsTypeOK, Untouched
    <3>2. /\ CauseKnown(p) /\ Loaded(p) /\ rows[p] \subseteq BookingIds
          /\ pc[p] = "clearing"
      BY <1>7 DEF ClearConflict, CauseInv, IInv, HandlersOK, Knows, TypeOK,
                  LocalsTypeOK
    <3>3. \A c \in rows[p] :
            Live(c)' => Live(c) /\ bookings'[c].slot = bookings[c].slot
      BY <3>2, RowsKeep DEF Loaded
    <3>4. CauseKnown(p)'
      BY <3>1, <3>2, <3>3 DEF CauseKnown, Deleting
    <3>5. QED
      BY <3>1, <3>4, OthersCause
  <2>2. QED
    BY <1>1, <1>7, <2>1 DEF ClearConflict
<1>8. CASE GiftLimit(p)
  <2>1. ASSUME NEW b \in rows[p], LimitCheck(p, bookings[b].slot, "giftWrite"),
               UNCHANGED <<tables, rows, draft>>
        PROVE  CauseInv'
    <3>1. CASE pc' = [pc EXCEPT ![p] = "closing"]
      BY <1>2, <1>3, <2>1, <3>1 DEF LimitCheck, GoTo
    <3>2. CASE pc' = [pc EXCEPT ![p] = "giftWrite"]
      <4>1. /\ Untouched({p}) /\ pc'[p] = "giftWrite" /\ req'[p] = req[p]
            /\ rows'[p] = rows[p]
        BY <1>3, <2>1, <3>2
           DEF LimitCheck, GoTo, IInv, TypeOK, LocalsTypeOK, Untouched
      <4>2. CauseKnown(p) /\ pc[p] = "giftLimit"
        BY <1>8 DEF GiftLimit, CauseInv
      <4>3. CauseKnown(p)'
        BY <2>1, <4>1, <4>2 DEF CauseKnown, Deleting, Live, tables
      <4>4. QED
        BY <4>1, <4>3, OthersCause
    <3>3. QED
      BY <2>1, <3>1, <3>2 DEF LimitCheck, GoTo
  <2>2. QED
    BY <1>1, <1>8, <2>1 DEF GiftLimit
<1>9. CASE Close(p) \/ Warn(p) \/ BookInsert(p) \/ GiftInsert(p) \/ GiftWrite(p)
             \/ GiftClose(p) \/ SwapInsert(p) \/ SwapWrite(p) \/ DropMember(p)
  BY <1>1, <1>9 DEF Close, Warn, BookInsert, GiftInsert, GiftWrite, GiftClose,
                    SwapInsert, SwapWrite, DropMember
<1>10. QED
  BY <1>4, <1>5, <1>6, <1>7, <1>8, <1>9 DEF Work

\* A handler always knows why it removes or gives a booking.
LEMMA CauseStep ==
  ASSUME IInv, CauseInv, [Next]_vars
  PROVE  CauseInv'
<1>1. ASSUME NEW p \in Handlers, DeadlockVictim(p) \/ Fail(p)
      PROVE  CauseInv'
  BY <1>1, FinishLocals, NothingCaused DEF DeadlockVictim, Fail
<1>2. CASE WeeklyReset \/ Tick \/ UNCHANGED vars
  BY <1>2, StillCaused DEF WeeklyReset, Tick, vars
<1>3. QED
  BY <1>1, <1>2, StartCaused, WorkCaused DEF Next

(***************************************************************************)
(* In every reachable state a handler that removes or gives bookings knows *)
(* why it does.                                                            *)
(***************************************************************************)
LEMMA CauseInvariant == Spec => []CauseInv
<1>1. Init => CauseInv
  BY DEF Init, StoreInit, CauseInv, CauseKnown, Deleting
<1>2. IInv /\ CauseInv /\ [Next]_vars => CauseInv'
  BY CauseStep
<1>3. QED
  BY <1>1, <1>2, Invariant, PTL DEF Spec

(***************************************************************************)
(* A step that removes a booking whose hour has not begun has its cause.   *)
(***************************************************************************)
LEMMA RemovalCaused ==
  ASSUME HoursOverAtSwitch, IInv, CauseInv, [Next]_vars, NEW b \in BookingIds,
         Live(b), ~Live(b)', ~Past(bookings[b].slot)
  PROVE  \E p \in Handlers :
           /\ b \in rows[p]
           /\ \/ Deleting(p) /\ req[p].booking = b
              \/ pc[p] = "clearing" /\ req[p].key = KeyOf[bookings[b].slot]
              \/ /\ pc[p] = "dropMember" /\ req[p].user = bookings[b].owner
                 /\ req[p].user \notin members'
<1>1. /\ TablesTypeOK /\ Fresh /\ now \in Nat /\ bookings[b] \in BookingRow
  BY DEF IInv, TypeOK, TablesTypeOK, SettingTypeOK, Live
<1>2. ASSUME NEW B, DeleteBookings(B)
      PROVE  b \in B
  BY <1>2 DEF DeleteBookings, Live
<1>3. ASSUME WeeklyReset
      PROVE  FALSE
  <2> DEFINE s == bookings[b].slot
  <2>1. WeekOf[s] < CurrentWeek
    BY <1>2, <1>3 DEF WeeklyReset, ResetRows
  <2>2. s \in Slots /\ s \in Nat
    BY <1>1, CalendarAssumption DEF BookingRow
  <2>3. CurrentWeek \in Weeks /\ WeekOpens[CurrentWeek] <= now
    BY <1>1, BookableWeek
  <2>4. s <= WeekOpens[CurrentWeek]
    BY <2>1, <2>2, <2>3 DEF HoursOverAtSwitch
  <2>5. WeekOpens[CurrentWeek] \in Nat
    BY <2>3, CalendarAssumption
  <2>6. QED
    BY <1>1, <2>2, <2>3, <2>4, <2>5 DEF Past
<1>4. ASSUME NEW p \in Handlers, BookInsert(p)
      PROVE  FALSE
  <2>1. b # serial.booking
    BY <1>1 DEF Fresh, TablesTypeOK
  <2>2. QED
    BY <1>1, <1>4, <2>1 DEF BookInsert, TablesTypeOK, Live
<1>5. ASSUME NEW p \in Handlers, Delete(p)
      PROVE  b \in rows[p] /\ Deleting(p) /\ req[p].booking = b
  BY <1>2, <1>5 DEF Delete, Deleting, CauseInv, CauseKnown
<1>6. ASSUME NEW p \in Handlers, ClearConflict(p)
      PROVE  /\ b \in rows[p] /\ pc[p] = "clearing"
             /\ req[p].key = KeyOf[bookings[b].slot]
  BY <1>2, <1>6 DEF ClearConflict, CauseInv, CauseKnown
<1>7. ASSUME NEW p \in Handlers, DropMember(p)
      PROVE  /\ b \in rows[p] /\ pc[p] = "dropMember"
             /\ req[p].user = bookings[b].owner
             /\ req[p].user \notin members'
  <2>1. pc[p] = "dropMember" /\ DropKnown(p)
    BY <1>7 DEF DropMember, IInv, HandlersOK, Knows
  <2>2. bookings'[b] # bookings[b]
    BY DEF Live
  <2>3. b \in rows[p] /\ members' = members \ {req[p].user}
    BY <1>7, <2>2 DEF DropMember
  <2>4. QED
    BY <2>1, <2>3 DEF DropKnown
<1>8. QED
  BY <1>3, <1>4, <1>5, <1>6, <1>7, OwnersMove, WhoWrites DEF Live

(***************************************************************************)
(* When the working hours of a week end before the next one becomes        *)
(* bookable, a booking that lies ahead is only removed by the cancellation *)
(* that named it, by the weekly slot that needs its hour, or with the      *)
(* member who is deleted and whose booking it still is: the deletion       *)
(* removes the rows it has locked, and no swap or gift can have moved one. *)
(***************************************************************************)
THEOREM RemovedOnlyForCause ==
  ASSUME HoursOverAtSwitch
  PROVE  Spec => RemovedForCause
<1>1. IInv /\ CauseInv /\ [Next]_vars =>
        [\A b \in BookingIds :
           Live(b) /\ ~Live(b)' /\ ~Past(bookings[b].slot) =>
             \E p \in Handlers :
               /\ b \in rows[p]
               /\ \/ Deleting(p) /\ req[p].booking = b
                  \/ pc[p] = "clearing" /\ req[p].key = KeyOf[bookings[b].slot]
                  \/ /\ pc[p] = "dropMember" /\ req[p].user = bookings[b].owner
                     /\ req[p].user \notin members']_vars
  BY RemovalCaused
<1>2. QED
  BY <1>1, Invariant, CauseInvariant, PTL DEF Spec, RemovedForCause

\* The gift offer that handler p accepts is pending still, and its booking the
\* giver's: what accept_gift_offer has read and does not read again.
GiftStands(p) ==
  \A b \in rows[p] :
    Live(b) => /\ gifts[req[p].offer].status = "pending"
               /\ bookings[b].owner = gifts[req[p].offer].giver

(***************************************************************************)
(* A step that gives a booking to another member follows an offer.         *)
(***************************************************************************)
LEMMA MoveOffered ==
  ASSUME IInv, CauseInv, [Next]_vars,
         \A p \in Handlers : GiftWrite(p) => GiftStands(p),
         NEW b \in BookingIds, Live(b), Live(b)',
         bookings'[b].owner # bookings[b].owner
  PROVE  Offered(b, bookings[b].owner, bookings'[b].owner)
<1>1. TablesTypeOK /\ Fresh /\ bookings[b] \in BookingRow
  BY DEF IInv, TypeOK, TablesTypeOK, Live
<1>2. ASSUME NEW B, DeleteBookings(B)
      PROVE  FALSE
  BY <1>2 DEF DeleteBookings, Live
<1>3. ASSUME NEW p \in Handlers, BookInsert(p)
      PROVE  FALSE
  <2>1. b # serial.booking
    BY <1>1 DEF Fresh, TablesTypeOK
  <2>2. QED
    BY <1>1, <1>3, <2>1 DEF BookInsert, TablesTypeOK
<1>4. ASSUME NEW p \in Handlers, GiftWrite(p)
      PROVE  Offered(b, bookings[b].owner, bookings'[b].owner)
  <2> DEFINE g == req[p].offer
  <2>1. b \in rows[p] /\ bookings'[b].owner = req[p].user
    BY <1>1, <1>4 DEF GiftWrite, TablesTypeOK, BookingRow
  <2>2. /\ pc[p] = "giftWrite" /\ GiftKnown(p) /\ CauseKnown(p) /\ Asked(p)
        /\ req[p] \in Requests \cup {NoRequest} /\ GiftStands(p)
    BY <1>4 DEF GiftWrite, IInv, HandlersOK, Knows, CauseInv, TypeOK, LocalsTypeOK
  <2>3. g \in GiftIds
    BY <2>2, RequestFields DEF Asked
  <2>4. /\ gifts[g].booking = b /\ gifts[g].recipient = req[p].user
        /\ gifts[g].giver = bookings[b].owner /\ gifts[g].status = "pending"
    <3>1. gifts[g] # NoGift
      BY <1>4 DEF GiftWrite
    <3>2. QED
      BY <2>1, <2>2, <3>1 DEF GiftKnown, CauseKnown, GiftStands
  <2>5. gifts[g] \in GiftRow
    BY <1>1, <2>3, <2>4 DEF TablesTypeOK, NoGift
  <2>6. gifts[g] = [booking |-> b, giver |-> bookings[b].owner,
                    recipient |-> bookings'[b].owner, status |-> "pending"]
    BY <2>1, <2>4, <2>5 DEF GiftRow
  <2>7. QED
    BY <2>3, <2>6 DEF Offered
<1>5. ASSUME NEW p \in Handlers, SwapWrite(p)
      PROVE  Offered(b, bookings[b].owner, bookings'[b].owner)
  <2> DEFINE o == req[p].offer
  <2>1. /\ pc[p] = "swapWrite" /\ Exchangeable(p) /\ Exchange(p)
    BY <1>5 DEF SwapWrite
  <2>2. PICK g \in BookingIds, h \in BookingIds :
          /\ bookings[g] = [slot |-> swaps[o].give, owner |-> swaps[o].giver]
          /\ bookings[h] = [slot |-> swaps[o].want, owner |-> swaps[o].receiver]
          /\ bookings'[g] = [slot |-> swaps[o].give, owner |-> swaps[o].receiver]
          /\ bookings'[h] = [slot |-> swaps[o].want, owner |-> swaps[o].giver]
          /\ \A x \in BookingIds \ {g, h} : bookings'[x] = bookings[x]
    BY <2>1, Exchanged
  <2>3. o \in SwapIds /\ swaps[o].status = "pending"
    BY <2>1, Exchanged DEF IInv, HandlersOK, Knows, SwapKnown, SwapStages
  <2>4. b = g \/ b = h
    BY <2>2
  <2>5. \/ /\ swaps[o].giver = bookings[b].owner
           /\ swaps[o].receiver = bookings'[b].owner
           /\ swaps[o].give = bookings[b].slot
        \/ /\ swaps[o].receiver = bookings[b].owner
           /\ swaps[o].giver = bookings'[b].owner
           /\ swaps[o].want = bookings[b].slot
    BY <2>2, <2>4
  <2> HIDE DEF o
  <2>6. QED
    BY <2>3, <2>5 DEF Offered
<1>6. ASSUME NEW p \in Handlers, DropMember(p)
      PROVE  FALSE
  BY <1>6 DEF DropMember, Live
<1>7. ~UNCHANGED bookings
  OBVIOUS
<1>8. QED
  BY <1>2, <1>3, <1>4, <1>5, <1>6, <1>7, WhoWrites
     DEF WeeklyReset, Delete, ClearConflict

(***************************************************************************)
(* A booking changes hands only along a pending offer of its owner of that *)
(* moment, provided that whatever accept_gift_offer has read still stands  *)
(* when it writes. Nothing in the code makes sure of that: it is the one   *)
(* way to move a booking without consent. Swaps need no such proviso.      *)
(***************************************************************************)
THEOREM MovedWithConsent ==
  Spec /\ [][\A p \in Handlers : GiftWrite(p) => GiftStands(p)]_vars
    => ConsentedMove
<1>1. IInv /\ CauseInv /\ [Next]_vars
        /\ [\A p \in Handlers : GiftWrite(p) => GiftStands(p)]_vars
      => [\A b \in BookingIds :
            Live(b) /\ Live(b)' /\ bookings'[b].owner # bookings[b].owner =>
              Offered(b, bookings[b].owner, bookings'[b].owner)]_vars
  <2> SUFFICES ASSUME IInv, CauseInv, [Next]_vars,
                      \A p \in Handlers : GiftWrite(p) => GiftStands(p)
               PROVE  \A b \in BookingIds :
                        Live(b) /\ Live(b)' /\ bookings'[b].owner # bookings[b].owner
                          => Offered(b, bookings[b].owner, bookings'[b].owner)
    OBVIOUS
  <2>1. QED
    BY MoveOffered
<1>2. QED
  BY <1>1, Invariant, CauseInvariant, PTL DEF Spec, ConsentedMove

-----------------------------------------------------------------------------
(* The weekly limit *)

\* It holds exactly as far as the advisory lock reaches: bookings and gifts
\* count under the lock of the member and week they add to. A swap counts
\* nothing, so the theorems assume that every swap offer stays in a week;
\* without that assumption the limit does not hold.
SwapsInWeek ==
  \A o \in SwapIds :
    swaps[o] # NoSwap => WeekOf[swaps[o].give] = WeekOf[swaps[o].want]

\* The lock that protects what a handler has counted.
AddingLocked ==
  \A p \in Handlers, u \in Users, w \in Weeks :
    Adding(p, u, w) => LimitLock(u, w) \in held[p]

\* A gift is one booking.
OneRow(p) ==
  pc[p] \in {"giftLimit", "giftWrite"} => \A b, c \in rows[p] : b = c

LimitInv ==
  /\ CountHolds /\ WeeklyLimit /\ AddingLocked
  /\ \A p \in Handlers : OneRow(p)

-----------------------------------------------------------------------------
(* Counting *)

(***************************************************************************)
(* The number of bookings in a part of a set of bookings, in a set with    *)
(* one more, and in a set where one has been exchanged.                    *)
(***************************************************************************)
LEMMA CountBookings ==
  ASSUME NEW S \in SUBSET BookingIds, NEW T \in SUBSET BookingIds
  PROVE  /\ Cardinality(S) \in Nat
         /\ S \subseteq T => Cardinality(S) <= Cardinality(T)
         /\ \A x \in BookingIds :
              S \subseteq T \cup {x} => Cardinality(S) <= Cardinality(T) + 1
         /\ \A x \in T, y \in BookingIds :
              S \subseteq (T \ {x}) \cup {y} => Cardinality(S) <= Cardinality(T)
<1>1. IsFiniteSet(BookingIds)
  BY FS_Interval, StoreAssumption DEF BookingIds
<1>2. IsFiniteSet(S) /\ IsFiniteSet(T)
  BY <1>1, FS_Subset
<1>3. Cardinality(S) \in Nat /\ Cardinality(T) \in Nat
  BY <1>2, FS_CardinalityType
<1>4. S \subseteq T => Cardinality(S) <= Cardinality(T)
  BY <1>2, FS_Subset
<1>5. ASSUME NEW x \in BookingIds, S \subseteq T \cup {x}
      PROVE  Cardinality(S) <= Cardinality(T) + 1
  <2>1. /\ IsFiniteSet(T \cup {x})
        /\ Cardinality(T \cup {x}) \in {Cardinality(T), Cardinality(T) + 1}
    BY <1>2, FS_AddElement
  <2>2. Cardinality(S) <= Cardinality(T \cup {x})
    BY <1>5, <2>1, FS_Subset
  <2>3. QED
    BY <1>3, <2>1, <2>2
<1>6. ASSUME NEW x \in T, NEW y \in BookingIds, S \subseteq (T \ {x}) \cup {y}
      PROVE  Cardinality(S) <= Cardinality(T)
  <2> DEFINE U == T \ {x}
  <2>1. IsFiniteSet(U) /\ Cardinality(U) = Cardinality(T) - 1
    BY <1>2, FS_RemoveElement
  <2> HIDE DEF U
  <2>2. /\ IsFiniteSet(U \cup {y})
        /\ Cardinality(U \cup {y}) \in {Cardinality(U), Cardinality(U) + 1}
    BY <2>1, FS_AddElement
  <2>3. Cardinality(S) <= Cardinality(U \cup {y})
    BY <1>6, <2>2, FS_Subset DEF U
  <2>4. QED
    BY <1>3, <2>1, <2>2, <2>3
<1>7. QED
  BY <1>3, <1>4, <1>5, <1>6

-----------------------------------------------------------------------------
(* One step *)

\* A step by handlers P keeps the slots of the bookings that were there, and
\* gives a member one more only where one of P has counted.
CountStep(P) ==
  /\ \A b \in BookingIds :
       b < serial.booking /\ Live(b)' =>
         Live(b) /\ bookings'[b].slot = bookings[b].slot
  /\ \A u \in Users, w \in Weeks :
       \/ Count(u, w)' <= Count(u, w)
       \/ /\ Count(u, w)' <= Count(u, w) + 1
          /\ \E p \in P : Adding(p, u, w)

(***************************************************************************)
(* What the others have counted stays true, because whoever adds to the    *)
(* same member and week holds the same lock.                               *)
(***************************************************************************)
LEMMA LimitPreserved ==
  ASSUME IInv, LimitInv, NEW P \in SUBSET Handlers, Untouched(P), CountStep(P),
         \A p \in P : OneRow(p)',
         \A p \in P, u \in Users, w \in Weeks :
           Adding(p, u, w)' =>
             LimitLock(u, w) \in held'[p] /\ Count(u, w)' < Limit
  PROVE  LimitInv'
<1>1. \A u \in Users, w \in Weeks : Count(u, w) \in Nat /\ Count(u, w)' \in Nat
  <2>1. \A u \in Users, w \in Weeks :
          Holdings(u, w) \in SUBSET BookingIds /\ Holdings(u, w)' \in SUBSET BookingIds
    BY DEF Holdings
  <2>2. QED
    BY <2>1, CountBookings DEF Count
<1>2. Limit \in Nat
  BY StoreAssumption
<1>3. WeeklyLimit'
  <2> SUFFICES ASSUME NEW u \in Users, NEW w \in Weeks
               PROVE  Count(u, w)' <= Limit
    BY DEF WeeklyLimit
  <2>1. CASE Count(u, w)' <= Count(u, w)
    BY <1>1, <1>2, <2>1 DEF LimitInv, WeeklyLimit
  <2>2. CASE Count(u, w)' <= Count(u, w) + 1 /\ \E p \in P : Adding(p, u, w)
    <3>1. Count(u, w) < Limit
      BY <2>2 DEF LimitInv, CountHolds
    <3>2. QED
      BY <1>1, <1>2, <2>2, <3>1
  <2>3. QED
    BY <2>1, <2>2 DEF CountStep
<1>4. ASSUME NEW q \in Handlers \ P
      PROVE  OneRow(q)'
  BY <1>4 DEF LimitInv, OneRow, Untouched
<1>5. ASSUME NEW q \in Handlers \ P, NEW u \in Users, NEW w \in Weeks,
             Adding(q, u, w)'
      PROVE  LimitLock(u, w) \in held'[q] /\ Count(u, w)' < Limit
  <2>1. pc'[q] = pc[q] /\ req'[q] = req[q] /\ rows'[q] = rows[q] /\ held'[q] = held[q]
    BY DEF Untouched
  <2>2. Loaded(q) /\ rows[q] \subseteq BookingIds
    BY DEF IInv, HandlersOK, Knows, TypeOK, LocalsTypeOK
  <2>3. Adding(q, u, w)
    <3>1. \A b \in rows[q] :
            Live(b)' => Live(b) /\ bookings'[b].slot = bookings[b].slot
      BY <2>2 DEF CountStep, Loaded
    <3>2. QED
      BY <1>5, <2>1, <3>1 DEF Adding
  <2>4. LimitLock(u, w) \in held[q] /\ Count(u, w) < Limit
    BY <2>3 DEF LimitInv, AddingLocked, CountHolds
  <2>5. \A p \in P : ~Adding(p, u, w)
    BY <2>4 DEF LimitInv, AddingLocked, IInv, LockExclusive
  <2>6. Count(u, w)' <= Count(u, w)
    BY <2>5 DEF CountStep
  <2>7. LimitLock(u, w)' = LimitLock(u, w)
    BY DEF LimitLock
  <2>8. QED
    BY <1>1, <1>2, <2>1, <2>4, <2>6
<1>6. CountHolds' /\ AddingLocked'
  BY <1>5 DEF CountHolds, AddingLocked, LimitLock
<1>7. QED
  BY <1>3, <1>4, <1>6 DEF LimitInv

-----------------------------------------------------------------------------
(* Steps that add nothing *)

(***************************************************************************)
(* When bookings only go, or stay, nobody has more of them.                *)
(***************************************************************************)
LEMMA FewerBookings ==
  ASSUME NEW P, NEW B,
         \A b \in BookingIds :
           bookings'[b] = IF b \in B THEN NoBooking ELSE bookings[b]
  PROVE  CountStep(P)
<1>1. \A b \in BookingIds : Live(b)' => Live(b) /\ bookings'[b] = bookings[b]
  BY DEF Live
<1>2. ASSUME NEW u \in Users, NEW w \in Weeks
      PROVE  Count(u, w)' <= Count(u, w)
  <2>1. Holdings(u, w)' \subseteq Holdings(u, w)
    BY StoreAssumption DEF Holdings, NoBooking
  <2>2. Holdings(u, w)' \in SUBSET BookingIds /\ Holdings(u, w) \in SUBSET BookingIds
    BY DEF Holdings
  <2>3. QED
    BY <2>1, <2>2, CountBookings DEF Count
<1>3. QED
  BY <1>1, <1>2 DEF CountStep

\* Leaving the bookings alone adds to nobody's count.
LEMMA SameBookings ==
  ASSUME NEW P, UNCHANGED bookings
  PROVE  CountStep(P)
<1> DEFINE gone == {}
<1>1. \A b \in BookingIds :
        bookings'[b] = IF b \in gone THEN NoBooking ELSE bookings[b]
  OBVIOUS
<1> HIDE DEF gone
<1>2. QED
  BY <1>1, FewerBookings

\* A step after which no handler of P is about to add a booking.
LEMMA NothingAdded ==
  ASSUME IInv, LimitInv, NEW P \in SUBSET Handlers, Untouched(P), CountStep(P),
         \A p \in P : pc'[p] \notin {"bookInsert", "giftLimit", "giftWrite"}
  PROVE  LimitInv'
<1>1. \A p \in P : OneRow(p)'
  BY DEF OneRow
<1>2. \A p \in P, u \in Users, w \in Weeks : ~Adding(p, u, w)'
  BY DEF Adding
<1>3. QED
  BY <1>1, <1>2, LimitPreserved

\* A step that leaves every handler where it was, and the bookings too.
LEMMA StillLimited ==
  ASSUME IInv, LimitInv, UNCHANGED <<bookings, locals>>
  PROVE  LimitInv'
<1>1. Untouched({}) /\ CountStep({})
  BY SameBookings DEF Untouched, locals
<1>2. QED
  BY <1>1, NothingAdded

\* A step that ends a request and leaves the bookings alone.
LEMMA FinishLimited ==
  ASSUME IInv, LimitInv, NEW p \in Handlers, Finish(p), CountStep({p})
  PROVE  LimitInv'
BY FinishLocals, NothingAdded

\* Taking up a request keeps the counts within the limit.
LEMMA StartLimited ==
  ASSUME IInv, LimitInv, NEW p \in Handlers, Start(p)
  PROVE  LimitInv'
<1>1. ASSUME NEW r, NEW B, NEW stage, Begin(p, r, B, stage),
             stage \notin {"bookInsert", "giftLimit", "giftWrite"},
             UNCHANGED <<bookings, draft, held>>
      PROVE  LimitInv'
  BY <1>1, BeginLocals, SameBookings, NothingAdded
<1>2. CASE BookStart(p) \/ CancelStart(p) \/ RemoveStart(p)
  <2>1. \E r \in Requests :
          /\ \/ Begin(p, r, {}, "bookLimit")
             \/ Begin(p, r, {r.booking}, "delete")
             \/ Begin(p, r, {r.booking}, "lateDelete")
          /\ UNCHANGED <<bookings, draft, held>>
    BY <1>2 DEF BookStart, CancelStart, RemoveStart, tables
  <2>2. QED
    BY <1>1, <2>1
<1>3. CASE GiftStart(p) \/ GiftDeclineStart(p) \/ DeleteUserStart(p)
  <2>1. \E r \in Requests :
          /\ \/ Begin(p, r, {r.booking}, "giftInsert")
             \/ Begin(p, r, {}, "giftDeclined")
             \/ Begin(p, r, {}, "dropOffers")
          /\ UNCHANGED <<bookings, draft, held>>
    BY <1>3 DEF GiftStart, GiftDeclineStart, DeleteUserStart, tables
  <2>2. QED
    BY <1>1, <2>1
<1>4. CASE Reserve(p)
  BY <1>1, <1>4, StillLimited DEF Reserve, AtOnce, tables
<1>5. CASE Unreserve(p) \/ Skip(p) \/ ChangeAccess(p) \/ SwapDecline(p)
  BY <1>5, StillLimited
     DEF Unreserve, Skip, ChangeAccess, SwapDecline, AtOnce, tables
<1>6. CASE GiftAcceptStart(p)
  <2>1. PICK r \in Requests :
          /\ \/ Begin(p, r, {}, "giftCancelled")
             \/ Begin(p, r, {gifts[r.offer].booking}, "giftExpired")
             \/ Begin(p, r, {gifts[r.offer].booking}, "giftLimit")
          /\ UNCHANGED <<bookings, draft, held>>
    BY <1>6 DEF GiftAcceptStart, tables
  <2>2. CASE Begin(p, r, {gifts[r.offer].booking}, "giftLimit")
    <3>1. /\ Untouched({p}) /\ pc'[p] = "giftLimit"
          /\ rows'[p] = {gifts[r.offer].booking}
      BY <2>1, <2>2, BeginLocals
    <3>2. OneRow(p)'
      BY <3>1 DEF OneRow
    <3>3. \A u \in Users, w \in Weeks : ~Adding(p, u, w)'
      BY <3>1 DEF Adding
    <3>4. CountStep({p})
      BY <2>1, SameBookings
    <3>5. QED
      BY <3>1, <3>2, <3>3, <3>4, LimitPreserved
  <2>3. QED
    BY <1>1, <2>1, <2>2
<1>7. CASE SwapStart(p)
  <2>1. PICK r \in Requests :
          /\ Begin(p, r, {r.mine, r.theirs}, "swapInsert")
          /\ \E d : draft' = [draft EXCEPT ![p] = d]
          /\ UNCHANGED <<bookings, held>>
    BY <1>7 DEF SwapStart, tables
  <2>2. Untouched({p}) /\ pc'[p] = "swapInsert"
    BY <2>1 DEF IInv, TypeOK, LocalsTypeOK, Begin, Untouched
  <2>3. QED
    BY <2>1, <2>2, SameBookings, NothingAdded
<1>8. CASE SwapAcceptStart(p)
  <2>1. PICK r \in Requests :
          /\ Begin(p, r, {}, "swapGive")
          /\ held' = [held EXCEPT ![p] = {SwapLock(r.offer)}]
          /\ UNCHANGED <<bookings, draft>>
    BY <1>8 DEF SwapAcceptStart, tables
  <2>2. Untouched({p}) /\ pc'[p] = "swapGive"
    BY <2>1 DEF IInv, TypeOK, LocalsTypeOK, Begin, Untouched
  <2>3. QED
    BY <2>1, <2>2, SameBookings, NothingAdded
<1>9. QED
  BY <1>2, <1>3, <1>4, <1>5, <1>6, <1>7, <1>8 DEF Start

-----------------------------------------------------------------------------
(* Steps that count, add and exchange *)

\* What the limit check of slot s leaves behind.
LEMMA CheckedLimit ==
  ASSUME IInv, NEW p \in Handlers, NEW s, NEW next,
         LimitCheck(p, s, next)
  PROVE  LET u == req[p].user
             w == WeekOf[s]
         IN  /\ held'[p] = held[p] \cup {LimitLock(u, w)}
             /\ req' = req
             /\ \A q \in Handlers \ {p} : pc'[q] = pc[q] /\ held'[q] = held[q]
             /\ \/ pc'[p] = "closing"
                \/ pc'[p] = next /\ ~(Count(u, w) >= Limit)
BY DEF LimitCheck, GoTo, IInv, TypeOK, LocalsTypeOK

\* BookLimit leaves its handler with a true count and the lock on it.
LEMMA BookLimitLimited ==
  ASSUME IInv, LimitInv, NEW p \in Handlers, BookLimit(p)
  PROVE  LimitInv'
<1> DEFINE u == req[p].user
           w == WeekOf[req[p].slot]
<1>1. /\ held'[p] = held[p] \cup {LimitLock(u, w)} /\ req' = req
      /\ \A q \in Handlers \ {p} : pc'[q] = pc[q] /\ held'[q] = held[q]
      /\ \/ pc'[p] = "closing"
         \/ pc'[p] = "bookInsert" /\ ~(Count(u, w) >= Limit)
      /\ UNCHANGED <<tables, rows, draft>>
  BY CheckedLimit DEF BookLimit
<1>2. Untouched({p}) /\ OneRow(p)' /\ CountStep({p})
  BY <1>1, SameBookings DEF Untouched, OneRow, tables
<1>3. ASSUME NEW v \in Users, NEW x \in Weeks, Adding(p, v, x)'
      PROVE  LimitLock(v, x) \in held'[p] /\ Count(v, x)' < Limit
  <2>1. v = u /\ x = w /\ ~(Count(v, x) >= Limit)
    BY <1>1, <1>3 DEF Adding
  <2>2. Count(v, x)' = Count(v, x)
    BY <1>1 DEF Count, Holdings, tables
  <2>3. Count(v, x) \in Nat /\ Limit \in Nat
    BY CountBookings, StoreAssumption DEF Count, Holdings
  <2>4. QED
    BY <1>1, <2>1, <2>2, <2>3
<1>4. QED
  BY <1>2, <1>3, LimitPreserved DEF LimitLock

\* GiftLimit leaves its handler with a true count and the lock on it.
LEMMA GiftLimitLimited ==
  ASSUME IInv, LimitInv, NEW p \in Handlers, GiftLimit(p)
  PROVE  LimitInv'
<1>1. pc[p] = "giftLimit" /\ OneRow(p) /\ UNCHANGED tables
  BY DEF GiftLimit, LimitInv
<1>2. CountStep({p})
  BY <1>1, SameBookings DEF tables
<1>3. CASE Finish(p)
  BY <1>2, <1>3, FinishLimited
<1>4. ASSUME NEW b \in rows[p], LimitCheck(p, bookings[b].slot, "giftWrite"),
             UNCHANGED <<rows, draft>>
      PROVE  LimitInv'
  <2> DEFINE u == req[p].user
             w == WeekOf[bookings[b].slot]
  <2>1. /\ held'[p] = held[p] \cup {LimitLock(u, w)} /\ req' = req
        /\ \A q \in Handlers \ {p} : pc'[q] = pc[q] /\ held'[q] = held[q]
        /\ \/ pc'[p] = "closing"
           \/ pc'[p] = "giftWrite" /\ ~(Count(u, w) >= Limit)
    BY <1>4, CheckedLimit
  <2>2. Untouched({p}) /\ OneRow(p)'
    BY <1>1, <1>4, <2>1 DEF Untouched, OneRow
  <2>3. ASSUME NEW v \in Users, NEW x \in Weeks, Adding(p, v, x)'
        PROVE  LimitLock(v, x) \in held'[p] /\ Count(v, x)' < Limit
    <3>1. rows[p] = {b}
      BY <1>1 DEF OneRow
    <3>2. v = u /\ x = w /\ ~(Count(v, x) >= Limit)
      BY <1>1, <1>4, <2>1, <2>3, <3>1 DEF Adding, tables
    <3>3. Count(v, x)' = Count(v, x)
      BY <1>1 DEF Count, Holdings, tables
    <3>4. Count(v, x) \in Nat /\ Limit \in Nat
      BY CountBookings, StoreAssumption DEF Count, Holdings
    <3>5. QED
      BY <2>1, <3>2, <3>3, <3>4
  <2>4. QED
    BY <1>2, <2>2, <2>3, LimitPreserved DEF LimitLock
<1>5. QED
  BY <1>3, <1>4 DEF GiftLimit

\* One booking gets a new owner, or is made, in a week its owner has counted.
LEMMA OneMore ==
  ASSUME IInv, LimitInv, NEW p \in Handlers, NEW n \in BookingIds,
         NEW u \in Users, NEW s \in Slots, Adding(p, u, WeekOf[s]),
         \A b \in BookingIds \ {n} : bookings'[b] = bookings[b],
         bookings'[n] = [slot |-> s, owner |-> u],
         n < serial.booking => Live(n) /\ bookings[n].slot = s
  PROVE  CountStep({p})
<1>1. \A b \in BookingIds :
        b < serial.booking /\ Live(b)' =>
          Live(b) /\ bookings'[b].slot = bookings[b].slot
  BY DEF Live
<1>2. ASSUME NEW v \in Users, NEW w \in Weeks
      PROVE  \/ Count(v, w)' <= Count(v, w)
             \/ Count(v, w)' <= Count(v, w) + 1 /\ Adding(p, v, w)
  <2>1. Holdings(v, w)' \in SUBSET BookingIds /\ Holdings(v, w) \in SUBSET BookingIds
    BY DEF Holdings
  <2>2. CASE v = u /\ w = WeekOf[s]
    <3>1. Holdings(v, w)' \subseteq Holdings(v, w) \cup {n}
      BY DEF Holdings
    <3>2. QED
      BY <2>1, <2>2, <3>1, CountBookings DEF Count
  <2>3. CASE ~(v = u /\ w = WeekOf[s])
    <3>1. Holdings(v, w)' \subseteq Holdings(v, w)
      BY <2>3 DEF Holdings
    <3>2. QED
      BY <2>1, <3>1, CountBookings DEF Count
  <2>4. QED
    BY <2>2, <2>3
<1>3. QED
  BY <1>1, <1>2 DEF CountStep

\* BookInsert uses up the room its handler has locked.
LEMMA BookInsertLimited ==
  ASSUME IInv, LimitInv, NEW p \in Handlers, BookInsert(p)
  PROVE  LimitInv'
<1> DEFINE n == serial.booking
<1>1. /\ pc[p] = "bookInsert" /\ Asked(p) /\ TablesTypeOK
      /\ req[p] \in Requests \cup {NoRequest}
  BY DEF BookInsert, IInv, HandlersOK, TypeOK, LocalsTypeOK
<1>2. req[p].user \in Users /\ req[p].slot \in Slots
  BY <1>1, RequestFields DEF Asked
<1>3. CountStep({p})
  <2>1. CASE UNCHANGED bookings
    BY <2>1, SameBookings
  <2>2. CASE bookings' = [bookings EXCEPT ![n] =
                            [slot |-> req[p].slot, owner |-> req[p].user]]
    <3>1. CASE n \in BookingIds
      <4>1. /\ bookings'[n] = [slot |-> req[p].slot, owner |-> req[p].user]
            /\ \A b \in BookingIds \ {n} : bookings'[b] = bookings[b]
        BY <1>1, <2>2, <3>1 DEF TablesTypeOK
      <4>2. Adding(p, req[p].user, WeekOf[req[p].slot])
        BY <1>1 DEF Adding
      <4>3. ~(n < n)
        BY <1>1 DEF TablesTypeOK
      <4>4. QED
        BY <1>2, <3>1, <4>1, <4>2, <4>3, OneMore
    <3>2. CASE n \notin BookingIds
      <4>1. UNCHANGED bookings
        BY <1>1, <2>2, <3>2 DEF TablesTypeOK
      <4>2. QED
        BY <4>1, SameBookings
    <3>3. QED
      BY <3>1, <3>2
  <2>3. QED
    BY <2>1, <2>2 DEF BookInsert
<1>4. QED
  BY <1>3, FinishLimited DEF BookInsert

\* GiftWrite uses up the room its handler has locked.
LEMMA GiftWriteLimited ==
  ASSUME IInv, LimitInv, NEW p \in Handlers, GiftWrite(p)
  PROVE  LimitInv'
<1>1. /\ pc[p] = "giftWrite" /\ Asked(p) /\ TablesTypeOK
      /\ rows[p] \subseteq BookingIds /\ req[p] \in Requests \cup {NoRequest}
  BY DEF GiftWrite, IInv, HandlersOK, TypeOK, LocalsTypeOK
<1>2. req[p].user \in Users
  BY <1>1, RequestFields DEF Asked
<1>3. PICK b \in rows[p] :
        \/ /\ Live(b)
           /\ bookings' = [bookings EXCEPT ![b].owner = req[p].user]
        \/ UNCHANGED bookings
  BY DEF GiftWrite
<1>4. CASE UNCHANGED bookings
  BY <1>4, SameBookings, FinishLimited DEF GiftWrite
<1>5. CASE Live(b) /\ bookings' = [bookings EXCEPT ![b].owner = req[p].user]
  <2>1. b \in BookingIds /\ bookings[b] \in BookingRow
    BY <1>1, <1>5 DEF TablesTypeOK, Live
  <2> DEFINE s == bookings[b].slot
  <2>2. /\ bookings'[b] = [slot |-> s, owner |-> req[p].user]
        /\ \A x \in BookingIds \ {b} : bookings'[x] = bookings[x]
        /\ s \in Slots
    BY <1>1, <1>5, <2>1 DEF TablesTypeOK, BookingRow
  <2>3. Adding(p, req[p].user, WeekOf[s])
    BY <1>1, <1>5 DEF Adding
  <2> HIDE DEF s
  <2>4. CountStep({p})
    BY <1>2, <1>5, <2>1, <2>2, <2>3, OneMore DEF s
  <2>5. QED
    BY <2>4, FinishLimited DEF GiftWrite
<1>6. QED
  BY <1>3, <1>4, <1>5

(***************************************************************************)
(* A swap within a week gives each party one booking of that week and      *)
(* takes one of it.                                                        *)
(***************************************************************************)
LEMMA ExchangeCounts ==
  ASSUME IInv, SwapsInWeek, NEW p \in Handlers, pc[p] = "swapWrite",
         Exchangeable(p), Exchange(p)
  PROVE  CountStep({p})
<1> DEFINE o == req[p].offer
           G == swaps[o].giver
           R == swaps[o].receiver
<1>1. o \in SwapIds /\ swaps[o] \in SwapRow
  BY Exchanged
<1>2. G \in Users /\ R \in Users /\ WeekOf[swaps[o].give] = WeekOf[swaps[o].want]
  BY <1>1, StoreAssumption DEF SwapRow, SwapsInWeek, NoSwap
<1>3. PICK g \in BookingIds, h \in BookingIds :
        /\ bookings[g] = [slot |-> swaps[o].give, owner |-> G]
        /\ bookings[h] = [slot |-> swaps[o].want, owner |-> R]
        /\ bookings'[g] = [slot |-> swaps[o].give, owner |-> R]
        /\ bookings'[h] = [slot |-> swaps[o].want, owner |-> G]
        /\ \A b \in BookingIds \ {g, h} : bookings'[b] = bookings[b]
        /\ g # h
  BY Exchanged
<1>4. ASSUME NEW u \in Users, NEW w \in Weeks
      PROVE  Count(u, w)' <= Count(u, w)
  <2> DEFINE H == Holdings(u, w)
  <2>1. H' \in SUBSET BookingIds /\ H \in SUBSET BookingIds
    BY DEF Holdings
  <2>2. CASE w # WeekOf[swaps[o].give] \/ u \notin {G, R} \/ G = R
    <3>1. H' \subseteq H
      BY <1>2, <1>3, <2>2 DEF Holdings
    <3>2. QED
      BY <2>1, <3>1, CountBookings DEF Count
  <2>3. CASE w = WeekOf[swaps[o].give] /\ u = G /\ G # R
    <3>1. g \in H /\ H' \subseteq (H \ {g}) \cup {h}
      BY <1>2, <1>3, <2>3 DEF Holdings
    <3>2. QED
      BY <2>1, <3>1, CountBookings DEF Count
  <2>4. CASE w = WeekOf[swaps[o].give] /\ u = R /\ G # R
    <3>1. h \in H /\ H' \subseteq (H \ {h}) \cup {g}
      BY <1>2, <1>3, <2>4 DEF Holdings
    <3>2. QED
      BY <2>1, <3>1, CountBookings DEF Count
  <2>5. QED
    BY <2>2, <2>3, <2>4
<1>5. \A b \in BookingIds :
        Live(b)' => Live(b) /\ bookings'[b].slot = bookings[b].slot
  <2>1. swaps[o].give # 0 /\ swaps[o].want # 0
    BY <1>1, CalendarAssumption DEF SwapRow
  <2> HIDE DEF G, R
  <2>2. QED
    BY <1>3, <2>1 DEF Live, NoBooking
<1>6. QED
  BY <1>4, <1>5 DEF CountStep

\* Every statement of a handler at work keeps the counts within the limit.
LEMMA WorkLimited ==
  ASSUME IInv, LimitInv, SwapsInWeek, NEW p \in Handlers, Work(p)
  PROVE  LimitInv'
<1>1. CASE Close(p) \/ Warn(p) \/ GiftInsert(p) \/ GiftClose(p) \/ SwapInsert(p)
  <2>1. Finish(p) /\ UNCHANGED bookings
    BY <1>1 DEF Close, Warn, GiftInsert, GiftClose, SwapInsert, tables
  <2>2. QED
    BY <2>1, SameBookings, FinishLimited
<1>2. CASE Delete(p)
  <2>1. CountStep({p})
    BY <1>2, FewerBookings DEF Delete, DeleteBookings
  <2>2. CASE Finish(p)
    BY <2>1, <2>2, FinishLimited
  <2>3. CASE GoTo(p, "warning") /\ UNCHANGED <<rows, draft, held>>
    <3>1. Untouched({p}) /\ pc'[p] = "warning"
      BY <2>3 DEF IInv, TypeOK, LocalsTypeOK, GoTo, Untouched
    <3>2. QED
      BY <2>1, <3>1, NothingAdded
  <2>4. QED
    BY <1>2, <2>2, <2>3 DEF Delete
<1>3. CASE ClearConflict(p)
  <2>1. PICK b \in rows[p] :
          /\ DeleteBookings({b})
          /\ \/ Finish(p)
             \/ /\ rows' = [rows EXCEPT ![p] = @ \ {b}]
                /\ UNCHANGED <<pc, req, draft, held>>
    BY <1>3 DEF ClearConflict
  <2>2. CountStep({p})
    <3> DEFINE B == {b}
    <3>1. DeleteBookings(B)
      BY <2>1
    <3> HIDE DEF B
    <3>2. QED
      BY <3>1, FewerBookings DEF DeleteBookings
  <2>3. CASE Finish(p)
    BY <2>2, <2>3, FinishLimited
  <2>4. CASE /\ rows' = [rows EXCEPT ![p] = @ \ {b}]
             /\ UNCHANGED <<pc, req, draft, held>>
    <3>1. Untouched({p}) /\ pc'[p] = "clearing"
      BY <1>3, <2>4 DEF IInv, TypeOK, LocalsTypeOK, Untouched, ClearConflict
    <3>2. QED
      BY <2>2, <3>1, NothingAdded
  <2>5. QED
    BY <2>1, <2>3, <2>4
<1>4. CASE SwapGive(p) \/ SwapWant(p) \/ DropBookings(p)
  <2>1. ASSUME NEW B, NEW next \in {"swapWant", "swapWrite", "dropMember"},
               LoadLocked(p, B, next)
        PROVE  LimitInv'
    <3>1. Untouched({p}) /\ pc'[p] = next /\ UNCHANGED bookings
      BY <2>1 DEF IInv, TypeOK, LocalsTypeOK, LoadLocked, GoTo, Untouched, tables
    <3>2. QED
      BY <3>1, SameBookings, NothingAdded
  <2>2. QED
    BY <1>4, <2>1 DEF SwapGive, SwapWant, DropBookings
<1>5. CASE SwapWrite(p)
  <2>1. CountStep({p})
    BY <1>5, ExchangeCounts, SameBookings DEF SwapWrite
  <2>2. QED
    BY <1>5, <2>1, FinishLimited DEF SwapWrite
<1>6. CASE DropOffers(p)
  <2>1. Untouched({p}) /\ pc'[p] = "dropBookings" /\ UNCHANGED bookings
    BY <1>6 DEF IInv, TypeOK, LocalsTypeOK, DropOffers, GoTo, Untouched, tables
  <2>2. QED
    BY <2>1, SameBookings, NothingAdded
<1>7. CASE DropMember(p)
  <2>1. CountStep({p})
    BY <1>7, FewerBookings, SameBookings DEF DropMember
  <2>2. QED
    BY <1>7, <2>1, FinishLimited DEF DropMember
<1>8. QED
  BY <1>1, <1>2, <1>3, <1>4, <1>5, <1>6, <1>7, BookLimitLimited,
     BookInsertLimited, GiftLimitLimited, GiftWriteLimited DEF Work

\* Every step keeps the counts within the limit, if swaps stay in a week.
LEMMA StepLimited ==
  ASSUME IInv, LimitInv, SwapsInWeek, [Next]_vars
  PROVE  LimitInv'
<1>1. ASSUME NEW p \in Handlers, DeadlockVictim(p) \/ Fail(p)
      PROVE  LimitInv'
  BY <1>1, SameBookings, FinishLimited DEF DeadlockVictim, Fail, tables
<1>2. CASE WeeklyReset
  <2>1. CountStep({}) /\ Untouched({})
    BY <1>2, FewerBookings DEF WeeklyReset, DeleteBookings, Untouched, locals
  <2>2. QED
    BY <2>1, NothingAdded
<1>3. CASE Tick \/ UNCHANGED vars
  BY <1>3, StillLimited DEF Tick, vars, tables
<1>4. QED
  BY <1>1, <1>2, <1>3, StartLimited, WorkLimited DEF Next

-----------------------------------------------------------------------------
(* The limit *)

\* The empty database is within every limit.
LEMMA InitLimited ==
  ASSUME Init
  PROVE  LimitInv
<1> USE DEF Init, StoreInit
<1>1. \A u \in Users, w \in Weeks : Holdings(u, w) = {}
  BY StoreAssumption DEF Holdings, NoBooking
<1>2. WeeklyLimit
  <2>1. \A u \in Users, w \in Weeks : Count(u, w) = 0
    BY <1>1, FS_EmptySet DEF Count
  <2>2. QED
    BY <2>1, StoreAssumption DEF WeeklyLimit
<1>3. CountHolds /\ AddingLocked
  BY DEF CountHolds, AddingLocked, Adding
<1>4. \A p \in Handlers : OneRow(p)
  BY DEF OneRow
<1>5. QED
  BY <1>2, <1>3, <1>4 DEF LimitInv

(***************************************************************************)
(* As long as no swap offer crosses a week, nobody ever has more bookings  *)
(* in a week than weekly_limit, however many bookings, gifts and swaps of  *)
(* that member are decided at once.                                        *)
(***************************************************************************)
THEOREM WithinLimit == Spec /\ []SwapsInWeek => []WeeklyLimit
<1>1. Init => LimitInv
  BY InitLimited
<1>2. IInv /\ LimitInv /\ SwapsInWeek /\ [Next]_vars => LimitInv'
  BY StepLimited
<1>3. LimitInv => WeeklyLimit
  BY DEF LimitInv
<1>4. QED
  BY <1>1, <1>2, <1>3, Invariant, PTL DEF Spec

(***************************************************************************)
(* Under the same assumption, what a booking or an accepted gift counted   *)
(* under the advisory lock is still true when it writes.                   *)
(***************************************************************************)
THEOREM CountStaysTrue == Spec /\ []SwapsInWeek => []CountHolds
<1>1. Init => LimitInv
  BY InitLimited
<1>2. IInv /\ LimitInv /\ SwapsInWeek /\ [Next]_vars => LimitInv'
  BY StepLimited
<1>3. LimitInv => CountHolds
  BY DEF LimitInv
<1>4. QED
  BY <1>1, <1>2, <1>3, Invariant, PTL DEF Spec

-----------------------------------------------------------------------------
(* The tables implement the ledger *)

(***************************************************************************)
(* The owner of a slot before and after a step, from the bookings of it.   *)
(***************************************************************************)
LEMMA SlotOwners ==
  ASSUME IInv, IInv'
  PROVE  \A s \in Slots :
           /\ \A b \in BookingIds :
                bookings[b].slot = s => OwnerAt(s) = bookings[b].owner
           /\ (\A b \in BookingIds : bookings[b].slot # s) => OwnerAt(s) = Nobody
           /\ \A b \in BookingIds :
                bookings'[b].slot = s => OwnerAt(s)' = bookings'[b].owner
           /\ (\A b \in BookingIds : bookings'[b].slot # s) => OwnerAt(s)' = Nobody
<1>1. TablesTypeOK /\ SlotUnique /\ TablesTypeOK' /\ SlotUnique'
  BY DEF IInv, TypeOK
<1>2. \A s \in Slots : /\ OwnerAt(s) = OwnerIn(bookings, s)
                       /\ OwnerAt(s)' = OwnerIn(bookings', s)
  BY DEF OwnerAt, OwnerIn
<1>3. ASSUME NEW s \in Slots
      PROVE  /\ \A b \in BookingIds :
                  bookings[b].slot = s => OwnerIn(bookings, s) = bookings[b].owner
             /\ (\A b \in BookingIds : bookings[b].slot # s)
                  => OwnerIn(bookings, s) = Nobody
  BY <1>1, OwnerFound DEF TablesTypeOK, SlotUnique, Live
<1>4. ASSUME NEW s \in Slots
      PROVE  /\ \A b \in BookingIds :
                  bookings'[b].slot = s => OwnerIn(bookings', s) = bookings'[b].owner
             /\ (\A b \in BookingIds : bookings'[b].slot # s)
                  => OwnerIn(bookings', s) = Nobody
  BY <1>1, OwnerFound DEF TablesTypeOK, SlotUnique, Live
<1>5. QED
  BY <1>2, <1>3, <1>4

(***************************************************************************)
(* A member owns no more slots of a week than the rows of that week count: *)
(* each slot has a row of its own.                                         *)
(***************************************************************************)
LEMMA OwnedCounted ==
  ASSUME IInv, NEW u \in Users, NEW w \in Weeks
  PROVE  /\ IsFiniteSet(Ledger!Owned(u, w))
         /\ Cardinality(Ledger!Owned(u, w)) <= Count(u, w)
<1> DEFINE S == Ledger!Owned(u, w)
           H == Holdings(u, w)
<1>1. TablesTypeOK /\ SlotUnique
  BY DEF IInv, TypeOK
<1>2. \A s \in Slots : OwnerAt(s) = OwnerIn(bookings, s)
  BY DEF OwnerAt, OwnerIn
<1>3. ASSUME NEW s \in S
      PROVE  \E b \in H : bookings[b].slot = s
  <2>1. s \in Slots /\ OwnerAt(s) = u /\ WeekOf[s] = w
    BY <1>3 DEF Ledger!Owned
  <2>2. PICK b \in BookingIds : bookings[b].slot = s
    BY <2>1, StoreAssumption DEF OwnerAt
  <2>3. OwnerIn(bookings, s) = bookings[b].owner
    BY <1>1, <2>1, <2>2, OwnerFound DEF TablesTypeOK, SlotUnique, Live
  <2>4. QED
    BY <1>2, <2>1, <2>2, <2>3 DEF Holdings
<1> DEFINE row == [s \in S |-> CHOOSE b \in H : bookings[b].slot = s]
<1>4. row \in [S -> H] /\ \A s \in S : bookings[row[s]].slot = s
  BY <1>3
<1> HIDE DEF S, row
<1>5. row \in Injection(S, H)
  BY <1>4 DEF Injection, IsInjective
<1>6. H \subseteq BookingIds /\ IsFiniteSet(BookingIds)
  BY FS_Interval, StoreAssumption DEF BookingIds, Holdings
<1>7. IsFiniteSet(H)
  BY <1>6, FS_Subset
<1>8. IsFiniteSet(S) /\ Cardinality(S) <= Cardinality(H)
  BY <1>5, <1>7, FS_Injection
<1>9. QED
  BY <1>8 DEF Count, S

\* Whoever has room for one more row has room for one more slot.
LEMMA RoomCounted ==
  ASSUME IInv, NEW u \in Users, NEW w \in Weeks, Count(u, w) < Limit
  PROVE  Ledger!HasRoom(u, w)
<1>1. Cardinality(Ledger!Owned(u, w)) <= Count(u, w)
  BY OwnedCounted
<1>2. Count(u, w) \in Nat
  BY CountBookings DEF Count, Holdings
<1>3. Cardinality(Ledger!Owned(u, w)) \in Nat
  <2>1. IsFiniteSet(Ledger!Owned(u, w))
    BY OwnedCounted
  <2>2. QED
    BY <2>1, FS_CardinalityType
<1>4. Ledger!Cardinality(Ledger!Owned(u, w)) = Cardinality(Ledger!Owned(u, w))
  BY DEF Cardinality, Ledger!Cardinality, IsFiniteSet, Ledger!IsFiniteSet
<1>5. QED
  BY <1>1, <1>2, <1>3, <1>4, StoreAssumption DEF Ledger!HasRoom

(***************************************************************************)
(* Deleting bookings releases their slots.                                 *)
(***************************************************************************)
LEMMA DeleteReleases ==
  ASSUME IInv, IInv', NEW B,
         bookings' = [b \in BookingIds |-> IF b \in B THEN NoBooking
                                                      ELSE bookings[b]]
  PROVE  Ledger!LedgerNext
<1> DEFINE S == {s \in Slots : \A b \in BookingIds : bookings'[b].slot # s}
<1>1. ASSUME NEW s \in Slots
      PROVE  OwnerAt(s)' = IF s \in S THEN Nobody ELSE OwnerAt(s)
  <2>1. CASE s \in S
    BY <2>1, SlotOwners
  <2>2. CASE s \notin S
    <3>1. PICK b \in BookingIds : bookings'[b].slot = s
      BY <2>2
    <3>2. s # 0
      BY CalendarAssumption
    <3>3. bookings'[b] = bookings[b]
      BY <3>1, <3>2 DEF NoBooking
    <3>4. QED
      BY <2>2, <3>1, <3>3, SlotOwners
  <2>3. QED
    BY <2>1, <2>2
<1>2. S \in SUBSET Slots
  OBVIOUS
<1> HIDE DEF S
<1>3. Ledger!Release(S)
  BY <1>1 DEF Ledger!Release
<1>4. QED
  BY <1>2, <1>3 DEF Ledger!LedgerNext

(***************************************************************************)
(* Inserting a booking, where the slot was free, books it for a member who *)
(* has counted.                                                            *)
(***************************************************************************)
LEMMA InsertBooks ==
  ASSUME IInv, IInv', LimitInv, NEW p \in Handlers, BookInsert(p),
         ~UNCHANGED bookings
  PROVE  Ledger!LedgerNext
<1> DEFINE n == serial.booking
           s == req[p].slot
           u == req[p].user
<1>1. /\ pc[p] = "bookInsert" /\ Asked(p) /\ TablesTypeOK /\ Fresh
      /\ req[p] \in Requests \cup {NoRequest}
  BY DEF BookInsert, IInv, HandlersOK, TypeOK, LocalsTypeOK
<1>2. u \in Users /\ s \in Slots
  BY <1>1, RequestFields DEF Asked
<1>3. ~SlotTaken(s) /\ bookings' = [bookings EXCEPT ![n] = [slot |-> s, owner |-> u]]
  BY DEF BookInsert
<1>4. n \in BookingIds
  BY <1>1, <1>3 DEF TablesTypeOK
<1>5. /\ bookings'[n].slot = s /\ bookings'[n].owner = u
      /\ \A b \in BookingIds \ {n} : bookings'[b] = bookings[b]
  BY <1>1, <1>3, <1>4 DEF TablesTypeOK
<1>6. bookings[n] = NoBooking
  BY <1>1, <1>4 DEF Fresh, Live, TablesTypeOK
<1>7. ASSUME NEW t \in Slots
      PROVE  OwnerAt(t)' = IF t = s THEN u ELSE OwnerAt(t)
  <2>1. CASE t = s
    BY <1>4, <1>5, <2>1, SlotOwners
  <2>2. CASE t # s /\ \E b \in BookingIds : bookings[b].slot = t
    <3>1. PICK b \in BookingIds : bookings[b].slot = t
      BY <2>2
    <3>2. t # 0
      BY CalendarAssumption
    <3>3. b # n
      BY <1>6, <3>1, <3>2 DEF NoBooking
    <3>4. QED
      BY <1>5, <2>2, <3>1, <3>3, SlotOwners
  <2>3. CASE t # s /\ \A b \in BookingIds : bookings[b].slot # t
    <3>1. \A b \in BookingIds : bookings'[b].slot # t
      BY <1>5, <2>3
    <3>2. QED
      BY <2>3, <3>1, SlotOwners
  <2>4. QED
    BY <2>1, <2>2, <2>3
<1>8. OwnerAt(s) = Nobody
  BY <1>2, <1>3, SlotOwners DEF SlotTaken
<1>9. Ledger!HasRoom(u, WeekOf[s])
  <2>1. WeekOf[s] \in Weeks /\ Adding(p, u, WeekOf[s])
    BY <1>1, <1>2, CalendarAssumption DEF Adding
  <2>2. Count(u, WeekOf[s]) < Limit
    BY <1>2, <2>1 DEF LimitInv, CountHolds
  <2>3. QED
    BY <1>2, <2>1, <2>2, RoomCounted
<1> HIDE DEF s, u
<1>10. Ledger!Book(u, s)
  BY <1>2, <1>7, <1>8, <1>9 DEF Ledger!Book
<1>11. QED
  BY <1>2, <1>10 DEF Ledger!LedgerNext

(***************************************************************************)
(* An accepted gift gives the slot to a member who has counted, or changes *)
(* nothing when the member has it already.                                 *)
(***************************************************************************)
LEMMA GiftGives ==
  ASSUME IInv, IInv', LimitInv, NEW p \in Handlers, GiftWrite(p),
         ~UNCHANGED bookings
  PROVE  Ledger!LedgerNext
<1> DEFINE u == req[p].user
<1>1. /\ pc[p] = "giftWrite" /\ Asked(p) /\ TablesTypeOK /\ SlotUnique
      /\ rows[p] \subseteq BookingIds /\ req[p] \in Requests \cup {NoRequest}
  BY DEF GiftWrite, IInv, HandlersOK, TypeOK, LocalsTypeOK
<1>2. u \in Users
  BY <1>1, RequestFields DEF Asked
<1>3. PICK b \in rows[p] :
        Live(b) /\ bookings' = [bookings EXCEPT ![b].owner = u]
  BY DEF GiftWrite
<1>4. b \in BookingIds /\ bookings[b] \in BookingRow
  BY <1>1, <1>3 DEF TablesTypeOK, Live
<1> DEFINE s == bookings[b].slot
           v == bookings[b].owner
<1>5. s \in Slots /\ v \in Users
  BY <1>4 DEF BookingRow
<1>6. /\ bookings'[b].slot = s /\ bookings'[b].owner = u
      /\ \A x \in BookingIds \ {b} : bookings'[x] = bookings[x]
  BY <1>1, <1>3, <1>4 DEF TablesTypeOK, BookingRow
<1>7. OwnerAt(s) = v
  BY <1>4, <1>5, SlotOwners
<1>8. u # v
  BY <1>1, <1>3, <1>4 DEF TablesTypeOK, BookingRow
<1>9. ASSUME NEW t \in Slots
      PROVE  OwnerAt(t)' = IF t = s THEN u ELSE OwnerAt(t)
  <2>1. CASE t = s
    BY <1>4, <1>6, <2>1, SlotOwners
  <2>2. CASE t # s /\ \E x \in BookingIds : bookings[x].slot = t
    <3>1. PICK x \in BookingIds : bookings[x].slot = t
      BY <2>2
    <3>2. x # b
      BY <2>2, <3>1
    <3>3. QED
      BY <1>6, <2>2, <3>1, <3>2, SlotOwners
  <2>3. CASE t # s /\ \A x \in BookingIds : bookings[x].slot # t
    <3>1. \A x \in BookingIds : bookings'[x].slot # t
      BY <1>6, <2>3
    <3>2. QED
      BY <2>3, <3>1, SlotOwners
  <2>4. QED
    BY <2>1, <2>2, <2>3
<1>10. Ledger!HasRoom(u, WeekOf[s])
  <2>1. WeekOf[s] \in Weeks /\ Adding(p, u, WeekOf[s])
    BY <1>1, <1>3, <1>5, CalendarAssumption DEF Adding
  <2>2. Count(u, WeekOf[s]) < Limit
    BY <1>2, <2>1 DEF LimitInv, CountHolds
  <2>3. QED
    BY <1>2, <2>1, <2>2, RoomCounted
<1> HIDE DEF s, u, v
<1>11. Ledger!Give(s, u)
  BY <1>2, <1>5, <1>7, <1>8, <1>9, <1>10 DEF Ledger!Give
<1>12. QED
  BY <1>2, <1>5, <1>11 DEF Ledger!LedgerNext

(***************************************************************************)
(* An accepted swap trades the two slots.                                  *)
(***************************************************************************)
LEMMA SwapTrades ==
  ASSUME IInv, IInv', SwapsInWeek, NEW p \in Handlers, SwapWrite(p),
         ~UNCHANGED bookings
  PROVE  Ledger!LedgerNext
<1> DEFINE o == req[p].offer
           s == swaps[o].give
           t == swaps[o].want
           G == swaps[o].giver
           R == swaps[o].receiver
<1>1. pc[p] = "swapWrite" /\ Exchangeable(p) /\ Exchange(p)
  BY DEF SwapWrite
<1>2. o \in SwapIds /\ swaps[o] \in SwapRow
  BY <1>1, Exchanged
<1>3. /\ s \in Slots /\ t \in Slots /\ G \in Users /\ R \in Users
      /\ WeekOf[s] = WeekOf[t]
  BY <1>2, StoreAssumption DEF SwapRow, SwapsInWeek, NoSwap
<1>4. PICK g \in BookingIds, h \in BookingIds :
        /\ bookings[g] = [slot |-> s, owner |-> G]
        /\ bookings[h] = [slot |-> t, owner |-> R]
        /\ bookings'[g] = [slot |-> s, owner |-> R]
        /\ bookings'[h] = [slot |-> t, owner |-> G]
        /\ \A b \in BookingIds \ {g, h} : bookings'[b] = bookings[b]
        /\ g # h
  BY <1>1, Exchanged
<1> HIDE DEF s, t, G, R
<1>5. OwnerAt(s) = G /\ OwnerAt(t) = R
  BY <1>3, <1>4, SlotOwners
<1>6. ASSUME NEW x \in Slots
      PROVE  OwnerAt(x)' = IF x = t THEN G ELSE IF x = s THEN R ELSE OwnerAt(x)
  <2>1. CASE x = t
    BY <1>4, <2>1, SlotOwners
  <2>2. CASE x = s /\ x # t
    BY <1>4, <2>2, SlotOwners
  <2>3. CASE x \notin {s, t} /\ \E b \in BookingIds : bookings[b].slot = x
    <3>1. PICK b \in BookingIds : bookings[b].slot = x
      BY <2>3
    <3>2. b \notin {g, h}
      BY <1>4, <2>3, <3>1
    <3>3. QED
      BY <1>4, <2>3, <3>1, <3>2, SlotOwners
  <2>4. CASE x \notin {s, t} /\ \A b \in BookingIds : bookings[b].slot # x
    <3>1. \A b \in BookingIds : bookings'[b].slot # x
      BY <1>4, <2>4
    <3>2. QED
      BY <2>4, <3>1, SlotOwners
  <2>5. QED
    BY <2>1, <2>2, <2>3, <2>4
<1>7. Ledger!Trade(s, t)
  BY <1>3, <1>5, <1>6 DEF Ledger!Trade
<1>8. QED
  BY <1>3, <1>7 DEF Ledger!LedgerNext

(***************************************************************************)
(* Every step of the tables is a step of the ledger, or leaves it alone.   *)
(***************************************************************************)
LEMMA StepMaps ==
  ASSUME IInv, IInv', LimitInv, SwapsInWeek, [Next]_vars
  PROVE  [Ledger!LedgerNext]_([s \in Slots |-> OwnerAt(s)])
<1>1. CASE UNCHANGED bookings
  BY <1>1 DEF OwnerAt
<1>2. CASE ~UNCHANGED bookings
  <2>1. ASSUME NEW p \in Handlers, DropMember(p)
        PROVE  Ledger!LedgerNext
    BY <1>2, <2>1, DeleteReleases DEF DropMember
  <2>2. ASSUME NEW B, DeleteBookings(B)
        PROVE  Ledger!LedgerNext
    BY <2>2, DeleteReleases DEF DeleteBookings
  <2>3. QED
    BY <1>2, <2>1, <2>2, WhoWrites, InsertBooks, GiftGives, SwapTrades
       DEF WeeklyReset, Delete, ClearConflict
<1>3. QED
  BY <1>1, <1>2

(***************************************************************************)
(* As long as no swap offer crosses a week, the three tables and their     *)
(* concurrent handlers implement the ledger: seen through the owner of     *)
(* each slot, every step books, gives or trades within the weekly limit,   *)
(* releases slots, or changes nothing.                                     *)
(***************************************************************************)
THEOREM LedgerImplemented == Spec /\ []SwapsInWeek => ImplementsLedger
<1>1. Init => Ledger!LedgerInit
  BY CalendarAssumption
     DEF Init, StoreInit, Ledger!LedgerInit, OwnerAt, NoBooking
<1>2. IInv /\ IInv' /\ LimitInv /\ SwapsInWeek /\ [Next]_vars
        => [Ledger!LedgerNext]_([s \in Slots |-> OwnerAt(s)])
  BY StepMaps
<1>3. Init => LimitInv
  BY InitLimited
<1>4. IInv /\ LimitInv /\ SwapsInWeek /\ [Next]_vars => LimitInv'
  BY StepLimited
<1>5. QED
  BY <1>1, <1>2, <1>3, <1>4, Invariant, PTL
     DEF Spec, ImplementsLedger, Ledger!LedgerSpec

-----------------------------------------------------------------------------
(* The ledger keeps the limit *)

\* The slots of week w that L gives to u.
OwnedIn(L, u, w) == {s \in Slots : L[s] = u /\ WeekOf[s] = w}

Few(S) == IsFiniteSet(S) /\ Cardinality(S) <= Limit

FewEach(L) == \A u \in Users, w \in Weeks : Few(OwnedIn(L, u, w))

\* Fewer slots are still few; one more is, where there was room.
LEMMA StillFew ==
  ASSUME NEW S, NEW T, NEW s, IsFiniteSet(S),
         \/ T \subseteq S /\ Cardinality(S) <= Limit
         \/ T \subseteq S \cup {s} /\ Cardinality(S) < Limit
  PROVE  Few(T)
<1> DEFINE U == S \cup {s}
<1>1. Cardinality(S) \in Nat
  BY FS_CardinalityType
<1>2. IsFiniteSet(U) /\ Cardinality(U) \in Nat /\ Cardinality(U) <= Cardinality(S) + 1
  <2>1. IsFiniteSet(U) /\ (Cardinality(U) = Cardinality(S) \/ Cardinality(U) = Cardinality(S) + 1)
    BY FS_AddElement
  <2>2. QED
    BY <1>1, <2>1
<1> HIDE DEF U
<1>3. CASE T \subseteq S /\ Cardinality(S) <= Limit
  <2>1. IsFiniteSet(T) /\ Cardinality(T) <= Cardinality(S) /\ Cardinality(T) \in Nat
    BY <1>3, FS_Subset, FS_CardinalityType
  <2>2. QED
    BY <1>1, <1>3, <2>1, StoreAssumption DEF Few
<1>4. CASE T \subseteq S \cup {s} /\ Cardinality(S) < Limit
  <2>1. T \subseteq U
    BY <1>4 DEF U
  <2>2. IsFiniteSet(T) /\ Cardinality(T) <= Cardinality(U) /\ Cardinality(T) \in Nat
    BY <1>2, <2>1, FS_Subset, FS_CardinalityType
  <2>3. QED
    BY <1>1, <1>2, <1>4, <2>2, StoreAssumption DEF Few
<1>5. QED
  BY <1>3, <1>4

\* A slot given to a member with room in its week, whoever had it.
LEMMA GivenStillFew ==
  ASSUME NEW L, NEW M, FewEach(L), NEW s \in Slots, NEW u \in Users,
         Cardinality(OwnedIn(L, u, WeekOf[s])) < Limit,
         \A t \in Slots : M[t] = IF t = s THEN u ELSE L[t]
  PROVE  FewEach(M)
<1>1. SUFFICES ASSUME NEW v \in Users, NEW w \in Weeks
               PROVE  Few(OwnedIn(M, v, w))
  BY DEF FewEach
<1> DEFINE S == OwnedIn(L, v, w)
           T == OwnedIn(M, v, w)
<1>2. IsFiniteSet(S) /\ Cardinality(S) <= Limit
  BY DEF FewEach, Few
<1>3. CASE v = u /\ w = WeekOf[s]
  <2>1. T \subseteq S \cup {s}
    BY DEF OwnedIn
  <2>2. Cardinality(S) < Limit
    BY <1>3
  <2>3. QED
    BY <1>2, <2>1, <2>2, StillFew
<1>4. CASE ~(v = u /\ w = WeekOf[s])
  <2>1. T \subseteq S
    BY <1>4 DEF OwnedIn
  <2>2. QED
    BY <1>2, <2>1, StillFew
<1>5. QED
  BY <1>3, <1>4

\* Two slots of a week that change hands: whoever loses one gets the other.
LEMMA TradedStillFew ==
  ASSUME NEW L, NEW M, FewEach(L), NEW s \in Slots, NEW t \in Slots,
         WeekOf[s] = WeekOf[t],
         \A x \in Slots : M[x] = IF x = t THEN L[s] ELSE IF x = s THEN L[t] ELSE L[x]
  PROVE  FewEach(M)
<1>1. SUFFICES ASSUME NEW v \in Users, NEW w \in Weeks
               PROVE  Few(OwnedIn(M, v, w))
  BY DEF FewEach
<1> DEFINE S == OwnedIn(L, v, w)
           T == OwnedIn(M, v, w)
           Lost(a, b) == a \in S /\ b \notin S /\ T \subseteq (S \ {a}) \cup {b}
<1>2. IsFiniteSet(S) /\ Cardinality(S) <= Limit
  BY DEF FewEach, Few
<1>3. T \subseteq S \/ Lost(s, t) \/ Lost(t, s)
  BY DEF OwnedIn
<1>4. ASSUME NEW a, NEW b, Lost(a, b)
      PROVE  Few(T)
  <2>1. /\ IsFiniteSet(S \ {a})
        /\ Cardinality(S \ {a}) = Cardinality(S) - 1
    BY <1>2, <1>4, FS_RemoveElement
  <2>2. Cardinality(S) \in Nat
    BY <1>2, FS_CardinalityType
  <2>3. Cardinality(S \ {a}) < Limit
    BY <1>2, <2>1, <2>2, StoreAssumption
  <2>4. T \subseteq (S \ {a}) \cup {b}
    BY <1>4
  <2> HIDE DEF S, T
  <2>5. QED
    BY <2>1, <2>3, <2>4, StillFew
<1>5. CASE T \subseteq S
  BY <1>2, <1>5, StillFew
<1>6. QED
  BY <1>3, <1>4, <1>5

\* The slots the ledger shows, and the count of them.
LEMMA LedgerOwned ==
  ASSUME NEW u, NEW w
  PROVE  /\ Ledger!Owned(u, w) = OwnedIn([s \in Slots |-> OwnerAt(s)], u, w)
         /\ Ledger!Cardinality(Ledger!Owned(u, w)) = Cardinality(Ledger!Owned(u, w))
BY DEF Ledger!Owned, OwnedIn, Cardinality, Ledger!Cardinality, IsFiniteSet, Ledger!IsFiniteSet

LEMMA LedgerStepFew ==
  ASSUME FewEach([s \in Slots |-> OwnerAt(s)]), Ledger!LedgerNext
  PROVE  FewEach([s \in Slots |-> OwnerAt(s)])'
<1> DEFINE L == [s \in Slots |-> OwnerAt(s)]
           M == [s \in Slots |-> OwnerAt(s)']
<1>1. M = L'
  OBVIOUS
<1>2. SUFFICES FewEach(M)
  BY <1>1 DEF FewEach, OwnedIn, Few
<1>3. ASSUME NEW u \in Users, NEW s \in Slots, Ledger!Book(u, s) \/ Ledger!Give(s, u)
      PROVE  FewEach(M)
  <2>1. Cardinality(OwnedIn(L, u, WeekOf[s])) < Limit
    BY <1>3, LedgerOwned DEF Ledger!Book, Ledger!Give, Ledger!HasRoom
  <2>2. L' = [L EXCEPT ![s] = u]
    BY <1>3 DEF Ledger!Book, Ledger!Give
  <2>3. \A t \in Slots : M[t] = IF t = s THEN u ELSE L[t]
    BY <1>1, <2>2
  <2> HIDE DEF L, M
  <2>4. QED
    BY <2>1, <2>3, GivenStillFew DEF L
<1>4. ASSUME NEW S \in SUBSET Slots, Ledger!Release(S)
      PROVE  FewEach(M)
  <2>1. L' = [s \in Slots |-> IF s \in S THEN Nobody ELSE L[s]]
    BY <1>4 DEF Ledger!Release
  <2>2. \A u \in Users, w \in Weeks : OwnedIn(M, u, w) \subseteq OwnedIn(L, u, w)
    BY <1>1, <2>1, StoreAssumption DEF OwnedIn
  <2> HIDE DEF L, M
  <2>3. QED
    BY <2>2, StillFew DEF FewEach, Few, L
<1>5. ASSUME NEW s \in Slots, NEW t \in Slots, Ledger!Trade(s, t)
      PROVE  FewEach(M)
  <2>1. L' = [L EXCEPT ![s] = L[t], ![t] = L[s]] /\ WeekOf[s] = WeekOf[t]
    BY <1>5 DEF Ledger!Trade
  <2>2. \A x \in Slots : M[x] = IF x = t THEN L[s] ELSE IF x = s THEN L[t] ELSE L[x]
    BY <1>1, <2>1
  <2> HIDE DEF L, M
  <2>3. QED
    BY <2>1, <2>2, TradedStillFew DEF L
<1>6. QED
  BY <1>3, <1>4, <1>5 DEF Ledger!LedgerNext

(***************************************************************************)
(* The ledger's own promise: whatever it allows, nobody owns more slots of *)
(* a week than the weekly limit. Nothing of the tables is used: this is    *)
(* the specification the handlers are measured against.                    *)
(***************************************************************************)
THEOREM LedgerKeepsLimit == Ledger!LedgerSpec => []Ledger!LedgerWithinLimit
<1> DEFINE L == [s \in Slots |-> OwnerAt(s)]
<1>1. Ledger!LedgerInit => FewEach(L)
  <2>1. SUFFICES ASSUME Ledger!LedgerInit, NEW u \in Users, NEW w \in Weeks
                 PROVE  Few(OwnedIn(L, u, w))
    BY DEF FewEach
  <2>2. OwnedIn(L, u, w) = {}
    BY <2>1, StoreAssumption DEF Ledger!LedgerInit, OwnedIn
  <2>3. QED
    BY <2>2, FS_EmptySet, StoreAssumption DEF Few
<1>2. FewEach(L) /\ [Ledger!LedgerNext]_L => FewEach(L)'
  <2>1. CASE Ledger!LedgerNext
    BY <2>1, LedgerStepFew
  <2>2. CASE UNCHANGED L
    BY <2>2 DEF FewEach, OwnedIn, Few
  <2>3. QED
    BY <2>1, <2>2
<1>3. FewEach(L) => Ledger!LedgerWithinLimit
  BY LedgerOwned DEF FewEach, Few, Ledger!LedgerWithinLimit
<1>4. QED
  BY <1>1, <1>2, <1>3, PTL DEF Ledger!LedgerSpec

\* What the tables inherit from the ledger they implement.
COROLLARY PromiseKept == Spec /\ []SwapsInWeek => []Ledger!LedgerWithinLimit
BY LedgerImplemented, LedgerKeepsLimit, PTL DEF ImplementsLedger

-----------------------------------------------------------------------------
(* Who takes part in an offer *)

\* Both parties of an offer are known to differ before it is inserted, and a
\* gift is one booking.
PartiesOf(p) ==
  /\ pc[p] = "giftInsert" => req[p].user # req[p].to
  /\ draft[p] # NoSwap => draft[p].giver # draft[p].receiver
  /\ OneRow(p)

OffersApart ==
  /\ \A g \in GiftIds : gifts[g] # NoGift => gifts[g].giver # gifts[g].recipient
  /\ \A o \in SwapIds : swaps[o] # NoSwap => swaps[o].giver # swaps[o].receiver

PartiesInv ==
  /\ OffersApart
  /\ \A p \in Handlers : PartiesOf(p)
  /\ serial.booking # 0

\* A handler goes on, but neither to a gift nor with another swap to insert.
Plain(p) ==
  /\ pc'[p] \notin {"giftInsert", "giftLimit", "giftWrite"}
  /\ draft'[p] \in {draft[p], NoSwap}

(***************************************************************************)
(* A handler moves alone, and only four operations take it to a gift or    *)
(* give it a swap to insert.                                               *)
(***************************************************************************)
LEMMA HandlerMoves ==
  ASSUME IInv, NEW p \in Handlers, Start(p) \/ Work(p) \/ Fail(p)
  PROVE  /\ Untouched({p})
         /\ \/ Plain(p)
            \/ GiftStart(p) \/ GiftAcceptStart(p) \/ GiftLimit(p)
            \/ SwapStart(p)
<1> DEFINE Goal == Untouched({p}) /\ Plain(p)
<1>1. LocalsTypeOK
  BY DEF IInv, TypeOK
<1>2. CASE Finish(p)
  BY <1>1, <1>2 DEF Finish, LocalsTypeOK, Untouched, Plain
<1>3. CASE AtOnce(p)
  BY <1>3 DEF AtOnce, locals, Untouched, Plain
<1>4. ASSUME NEW r, NEW B, NEW stage, Begin(p, r, B, stage), UNCHANGED held,
             \E d : draft' = [draft EXCEPT ![p] = d] \/ draft' = draft
      PROVE  Untouched({p}) /\ pc'[p] = stage
  BY <1>1, <1>4 DEF Begin, LocalsTypeOK, Untouched
<1>5. ASSUME NEW r, NEW B, NEW stage, Begin(p, r, B, stage),
             stage \notin {"giftInsert", "giftLimit", "giftWrite"},
             UNCHANGED <<draft, held>>
      PROVE  Goal
  BY <1>4, <1>5 DEF Plain
<1>6. CASE BookStart(p) \/ CancelStart(p) \/ RemoveStart(p) \/ GiftDeclineStart(p)
             \/ DeleteUserStart(p)
  <2>1. \E r \in Requests :
          /\ \/ Begin(p, r, {}, "bookLimit") \/ Begin(p, r, {}, "giftDeclined")
             \/ Begin(p, r, {}, "dropOffers")
             \/ Begin(p, r, {r.booking}, "delete")
             \/ Begin(p, r, {r.booking}, "lateDelete")
          /\ UNCHANGED <<draft, held>>
    BY <1>6 DEF BookStart, CancelStart, RemoveStart, GiftDeclineStart,
                DeleteUserStart
  <2>2. QED
    BY <1>5, <2>1
<1>7. CASE Reserve(p) \/ Unreserve(p) \/ Skip(p) \/ ChangeAccess(p)
             \/ SwapDecline(p)
  BY <1>3, <1>5, <1>7
     DEF Reserve, Unreserve, Skip, ChangeAccess, SwapDecline
<1>8. ASSUME GiftStart(p) \/ GiftAcceptStart(p) \/ SwapStart(p)
      PROVE  Untouched({p})
  <2>1. \E r, B, stage : /\ Begin(p, r, B, stage) /\ UNCHANGED held
                         /\ \E d : \/ draft' = [draft EXCEPT ![p] = d]
                                   \/ draft' = draft
    BY <1>8 DEF GiftStart, GiftAcceptStart, SwapStart
  <2>2. QED
    BY <1>4, <2>1, SMTT(60)
<1>9. CASE SwapAcceptStart(p)
  <2>1. PICK r \in Requests :
          /\ Begin(p, r, {}, "swapGive")
          /\ held' = [held EXCEPT ![p] = {SwapLock(r.offer)}]
          /\ UNCHANGED draft
    BY <1>9 DEF SwapAcceptStart
  <2>2. QED
    BY <1>1, <2>1 DEF Begin, LocalsTypeOK, Untouched, Plain
<1>10. ASSUME NEW stage \in Stages, pc' = [pc EXCEPT ![p] = stage],
              UNCHANGED <<req, draft>>,
              \E B : rows' = [rows EXCEPT ![p] = B],
              \E L : held' = [held EXCEPT ![p] = L]
       PROVE  Untouched({p}) /\ pc'[p] = stage /\ draft'[p] = draft[p]
  BY <1>1, <1>10 DEF LocalsTypeOK, Untouched
<1>11. /\ UNCHANGED rows => \E B : rows' = [rows EXCEPT ![p] = B]
       /\ UNCHANGED held => \E L : held' = [held EXCEPT ![p] = L]
  <2>1. /\ rows = [rows EXCEPT ![p] = rows[p]]
        /\ held = [held EXCEPT ![p] = held[p]]
    BY <1>1 DEF LocalsTypeOK
  <2>2. QED
    BY <2>1
<1>12. ASSUME NEW stage \in Stages, pc' = [pc EXCEPT ![p] = stage],
              stage \notin {"giftInsert", "giftLimit", "giftWrite"},
              UNCHANGED <<req, draft>>,
              \E B : rows' = [rows EXCEPT ![p] = B],
              \E L : held' = [held EXCEPT ![p] = L]
       PROVE  Goal
  BY <1>10, <1>12 DEF Plain
<1>13. {"closing", "bookInsert", "warning", "swapWant", "swapWrite", "clearing",
        "giftWrite", "dropBookings", "dropMember"} \subseteq Stages
  BY DEF Stages
<1>14. CASE BookLimit(p)
  BY <1>11, <1>12, <1>13, <1>14 DEF BookLimit, LimitCheck, GoTo
<1>15. CASE Delete(p)
  BY <1>2, <1>11, <1>12, <1>13, <1>15 DEF Delete, GoTo
<1>16. CASE ClearConflict(p)
  <2>1. CASE Finish(p)
    BY <1>2, <2>1
  <2>2. CASE /\ \E b \in rows[p] : rows' = [rows EXCEPT ![p] = @ \ {b}]
             /\ UNCHANGED <<pc, req, draft, held>>
    BY <1>1, <1>16, <2>2 DEF ClearConflict, LocalsTypeOK, Untouched, Plain
  <2>3. QED
    BY <1>16, <2>1, <2>2 DEF ClearConflict
<1>17. CASE SwapGive(p) \/ SwapWant(p) \/ DropOffers(p) \/ DropBookings(p)
  <2>1. CASE DropOffers(p)
    BY <1>11, <1>12, <1>13, <2>1 DEF DropOffers, GoTo
  <2>2. QED
    BY <1>12, <1>13, <1>17, <2>1
       DEF SwapGive, SwapWant, DropBookings, LoadLocked, GoTo
<1>18. CASE GiftLimit(p)
  <2>1. CASE Finish(p)
    BY <1>2, <2>1
  <2>2. CASE \E b \in rows[p] : /\ LimitCheck(p, bookings[b].slot, "giftWrite")
                                /\ UNCHANGED <<rows, draft>>
    <3>1. PICK b \in rows[p] : /\ LimitCheck(p, bookings[b].slot, "giftWrite")
                               /\ UNCHANGED <<rows, draft>>
      BY <2>2
    <3>2. PICK stage \in {"closing", "giftWrite"} :
            pc' = [pc EXCEPT ![p] = stage] /\ UNCHANGED req
      BY <3>1 DEF LimitCheck, GoTo
    <3>3. \E L : held' = [held EXCEPT ![p] = L]
      BY <3>1 DEF LimitCheck
    <3>4. stage \in Stages
      BY <1>13
    <3>5. QED
      BY <1>10, <1>11, <1>18, <3>1, <3>2, <3>3, <3>4
  <2>3. QED
    BY <1>18, <2>1, <2>2 DEF GiftLimit
<1>19. CASE Close(p) \/ Warn(p) \/ BookInsert(p) \/ GiftInsert(p) \/ GiftWrite(p)
              \/ GiftClose(p) \/ SwapInsert(p) \/ SwapWrite(p) \/ DropMember(p)
              \/ Fail(p)
  BY <1>2, <1>19 DEF Close, Warn, BookInsert, GiftInsert, GiftWrite, GiftClose,
                     SwapInsert, SwapWrite, DropMember, Fail
<1>20. CASE Start(p)
  BY <1>6, <1>7, <1>8, <1>9, <1>20 DEF Start
<1>21. CASE Work(p)
  BY <1>14, <1>15, <1>16, <1>17, <1>18, <1>19, <1>21 DEF Work
<1>22. QED
  BY <1>19, <1>20, <1>21

\* What the handlers know of the two parties stays true.
LEMMA PartiesKnown ==
  ASSUME IInv, PartiesInv, [Next]_vars
  PROVE  \A p \in Handlers : PartiesOf(p)'
<1>1. LocalsTypeOK
  BY DEF IInv, TypeOK
<1>2. ASSUME NEW P \in SUBSET Handlers, Untouched(P), NEW q \in Handlers \ P
      PROVE  PartiesOf(q)'
  BY <1>2 DEF Untouched, PartiesInv, PartiesOf, OneRow
<1>3. ASSUME UNCHANGED locals, NEW q \in Handlers
      PROVE  PartiesOf(q)'
  BY <1>3 DEF locals, PartiesInv, PartiesOf, OneRow
<1>4. ASSUME NEW p \in Handlers, Start(p) \/ Work(p) \/ Fail(p)
      PROVE  PartiesOf(p)'
  <2>1. PartiesOf(p)
    BY DEF PartiesInv
  <2>2. CASE Plain(p)
    BY <2>1, <2>2 DEF Plain, PartiesOf, OneRow
  <2>3. CASE GiftStart(p)
    <3>1. PICK r \in Requests :
            /\ r.to # r.user /\ Begin(p, r, {r.booking}, "giftInsert")
            /\ UNCHANGED draft
      BY <2>3 DEF GiftStart
    <3>2. pc'[p] = "giftInsert" /\ req'[p] = r
      BY <1>1, <3>1 DEF Begin, LocalsTypeOK
    <3>3. QED
      BY <2>1, <3>1, <3>2 DEF PartiesOf, OneRow
  <2>4. CASE GiftAcceptStart(p)
    <3>1. PICK r, B, stage :
            /\ Begin(p, r, B, stage) /\ UNCHANGED draft
            /\ stage # "giftInsert" /\ \A b, c \in B : b = c
      BY <2>4 DEF GiftAcceptStart
    <3>2. pc'[p] = stage /\ rows'[p] = B
      BY <1>1, <3>1 DEF Begin, LocalsTypeOK
    <3>3. QED
      BY <2>1, <3>1, <3>2 DEF PartiesOf, OneRow
  <2>5. CASE GiftLimit(p) /\ ~Plain(p)
    <3>1. pc[p] = "giftLimit" /\ OneRow(p)
      BY <2>1, <2>5 DEF GiftLimit, PartiesOf
    <3>2. ~Finish(p)
      BY <1>1, <2>5 DEF Finish, LocalsTypeOK, Plain
    <3>3. PICK b \in rows[p] : /\ LimitCheck(p, bookings[b].slot, "giftWrite")
                               /\ UNCHANGED <<rows, draft>>
      BY <2>5, <3>2 DEF GiftLimit
    <3>4. pc'[p] # "giftInsert"
      BY <1>1, <3>3 DEF LimitCheck, GoTo, LocalsTypeOK
    <3>5. QED
      BY <2>1, <3>1, <3>3, <3>4 DEF PartiesOf, OneRow
  <2>6. CASE SwapStart(p)
    <3>1. PICK r \in Requests :
            /\ bookings[r.theirs].owner # r.user
            /\ draft' = [draft EXCEPT ![p] =
                           [giver |-> r.user,
                            receiver |-> bookings[r.theirs].owner,
                            give |-> bookings[r.mine].slot,
                            want |-> bookings[r.theirs].slot,
                            status |-> "pending"]]
            /\ Begin(p, r, {r.mine, r.theirs}, "swapInsert")
      BY <2>6 DEF SwapStart
    <3>2. /\ draft'[p].giver = r.user
          /\ draft'[p].receiver = bookings[r.theirs].owner
          /\ pc'[p] = "swapInsert"
      BY <1>1, <3>1 DEF Begin, LocalsTypeOK
    <3>3. QED
      BY <3>1, <3>2 DEF PartiesOf, OneRow
  <2>7. QED
    BY <1>4, <2>2, <2>3, <2>4, <2>5, <2>6, HandlerMoves
<1>5. ASSUME NEW p \in Handlers, Start(p) \/ Work(p) \/ Fail(p),
             NEW q \in Handlers
      PROVE  PartiesOf(q)'
  <2>1. Untouched({p})
    BY <1>5, HandlerMoves
  <2>2. QED
    BY <1>2, <1>4, <1>5, <2>1
<1>6. CASE WeeklyReset \/ Tick \/ UNCHANGED vars
  BY <1>3, <1>6 DEF WeeklyReset, Tick, vars
<1>7. QED
  BY <1>5, <1>6 DEF Next, DeadlockVictim

\* Offers are made between two members and keep their parties.
LEMMA PartiesDiffer ==
  ASSUME IInv, PartiesInv, [Next]_vars
  PROVE  OffersApart'
<1>1. TablesTypeOK /\ LocalsTypeOK /\ OffersApart
  BY DEF IInv, TypeOK, PartiesInv
<1>2. ASSUME NEW g \in GiftIds, gifts'[g] # NoGift
      PROVE  gifts'[g].giver # gifts'[g].recipient
  <2>1. CASE UNCHANGED gifts
    BY <1>1, <1>2, <2>1 DEF OffersApart
  <2>2. ASSUME NEW B, DeleteBookings(B)
        PROVE  gifts'[g].giver # gifts'[g].recipient
    BY <1>1, <1>2, <2>2 DEF DeleteBookings, OffersApart
  <2>3. ASSUME NEW x, NEW st, gifts' = [gifts EXCEPT ![x].status = st],
               gifts[x] # NoGift
        PROVE  gifts'[g].giver # gifts'[g].recipient
    <3>1. CASE g = x
      <4>1. gifts[g] \in GiftRow
        BY <1>1, <2>3, <3>1 DEF TablesTypeOK
      <4>2. /\ gifts'[g].giver = gifts[g].giver
            /\ gifts'[g].recipient = gifts[g].recipient
        BY <1>1, <2>3, <3>1, <4>1 DEF TablesTypeOK, GiftRow
      <4>3. QED
        BY <1>1, <2>3, <3>1, <4>2 DEF OffersApart
    <3>2. CASE g # x
      <4>1. gifts'[g] = gifts[g]
        BY <1>1, <2>3, <3>2 DEF TablesTypeOK
      <4>2. QED
        BY <1>1, <1>2, <4>1 DEF OffersApart
    <3>3. QED
      BY <3>1, <3>2
  <2>4. ASSUME NEW p \in Handlers, GiftInsert(p)
        PROVE  gifts'[g].giver # gifts'[g].recipient
    <3>1. pc[p] = "giftInsert" /\ req[p].user # req[p].to
      BY <2>4 DEF GiftInsert, PartiesInv, PartiesOf
    <3>2. CASE UNCHANGED gifts
      BY <2>1, <3>2
    <3>3. CASE gifts' = [gifts EXCEPT ![serial.gift] =
                           [booking |-> req[p].booking, giver |-> req[p].user,
                            recipient |-> req[p].to, status |-> "pending"]]
      <4>1. CASE g = serial.gift
        BY <1>1, <3>1, <3>3, <4>1 DEF TablesTypeOK
      <4>2. CASE g # serial.gift
        BY <1>1, <1>2, <3>3, <4>2 DEF TablesTypeOK, OffersApart
      <4>3. QED
        BY <4>1, <4>2
    <3>4. QED
      BY <2>4, <3>2, <3>3 DEF GiftInsert
  <2>5. ASSUME NEW p \in Handlers, GiftWrite(p)
        PROVE  gifts'[g].giver # gifts'[g].recipient
    <3>1. CASE UNCHANGED gifts
      BY <2>1, <3>1
    <3>2. CASE ~UNCHANGED gifts
      <4>1. PICK b \in rows[p] :
              /\ gifts[req[p].offer] # NoGift
              /\ gifts' = [gifts EXCEPT ![req[p].offer].status = "accepted"]
        BY <2>5, <3>2 DEF GiftWrite
      <4>2. QED
        BY <2>3, <4>1
    <3>3. QED
      BY <3>1, <3>2
  <2>6. ASSUME NEW p \in Handlers, GiftClose(p)
        PROVE  gifts'[g].giver # gifts'[g].recipient
    BY <2>1, <2>3, <2>6 DEF GiftClose
  <2>7. ASSUME NEW p \in Handlers, DropMember(p)
        PROVE  gifts'[g].giver # gifts'[g].recipient
    <3>1. gifts'[g] = gifts[g]
      BY <1>2, <2>7 DEF DropMember
    <3>2. QED
      BY <1>1, <1>2, <3>1 DEF OffersApart
  <2>8. QED
    BY <2>1, <2>2, <2>4, <2>5, <2>6, <2>7, WhoOffers
       DEF WeeklyReset, Delete, ClearConflict
<1>3. ASSUME NEW o \in SwapIds, swaps'[o] # NoSwap
      PROVE  swaps'[o].giver # swaps'[o].receiver
  <2>1. CASE UNCHANGED swaps
    BY <1>1, <1>3, <2>1 DEF OffersApart
  <2>2. ASSUME NEW p \in Handlers, SwapInsert(p)
        PROVE  swaps'[o].giver # swaps'[o].receiver
    <3>1. /\ \/ UNCHANGED swaps
             \/ swaps' = [swaps EXCEPT ![serial.swap] = draft[p]]
          /\ draft[p] # NoSwap /\ draft[p].giver # draft[p].receiver
      BY <2>2 DEF SwapInsert, IInv, HandlersOK, Asked, PartiesInv, PartiesOf
    <3>2. CASE o = serial.swap /\ ~UNCHANGED swaps
      BY <1>1, <3>1, <3>2 DEF TablesTypeOK
    <3>3. CASE o # serial.swap
      BY <1>1, <1>3, <3>1, <3>3 DEF TablesTypeOK, OffersApart
    <3>4. QED
      BY <2>1, <3>2, <3>3
  <2>3. CASE swaps'[o] = swaps[o]
    BY <1>1, <1>3, <2>3 DEF OffersApart
  <2>4. ASSUME NEW p \in Handlers, SwapWrite(p) \/ SwapDecline(p),
               swaps'[o] # swaps[o]
        PROVE  swaps'[o].giver # swaps'[o].receiver
    <3>1. swaps[o].status = "pending"
      <4>1. CASE SwapDecline(p)
        BY <1>1, <2>4, <4>1 DEF SwapDecline, TablesTypeOK
      <4>2. CASE SwapWrite(p)
        <5>1. swaps[req[p].offer].status = "pending"
          BY <4>2 DEF SwapWrite, IInv, HandlersOK, Knows, SwapKnown, SwapStages
        <5>2. o = req[p].offer \/ o \in Rivals(req[p].offer)
          BY <1>1, <2>4, <4>2 DEF SwapWrite, Exchange, TablesTypeOK
        <5>3. QED
          BY <5>1, <5>2 DEF Rivals
      <4>3. QED
        BY <2>4, <4>1, <4>2
    <3>2. swaps[o] \in SwapRow /\ swaps[o] # NoSwap
      BY <1>1, <3>1 DEF TablesTypeOK, NoSwap
    <3>3. \E st : swaps'[o] = [swaps[o] EXCEPT !.status = st]
      <4>1. CASE SwapDecline(p)
        <5>1. PICK x : swaps' = [swaps EXCEPT ![x].status = "declined"]
          BY <4>1 DEF SwapDecline
        <5>2. QED
          BY <1>1, <2>4, <5>1 DEF TablesTypeOK
      <4>2. CASE SwapWrite(p) /\ Exchange(p)
        BY <2>4, <4>2 DEF Exchange
      <4>3. CASE swaps' = [swaps EXCEPT ![req[p].offer].status = "cancelled"]
        BY <1>1, <2>4, <4>3 DEF TablesTypeOK
      <4>4. QED
        BY <2>4, <4>1, <4>2, <4>3 DEF SwapWrite
    <3>4. /\ swaps'[o].giver = swaps[o].giver
          /\ swaps'[o].receiver = swaps[o].receiver
      BY <3>2, <3>3 DEF SwapRow
    <3>5. QED
      BY <1>1, <3>2, <3>4 DEF OffersApart
  <2>5. ASSUME NEW p \in Handlers, DropMember(p)
        PROVE  swaps'[o] = swaps[o]
    BY <1>3, <2>5 DEF DropMember
  <2>6. QED
    BY <2>1, <2>2, <2>3, <2>4, <2>5, WhoDecides
<1>4. QED
  BY <1>2, <1>3 DEF OffersApart

\* Eight operations of a handler concern the table of the jobs.
Concerns(p) ==
  \/ BookInsert(p) \/ Delete(p) \/ ClearConflict(p) \/ GiftWrite(p)
  \/ SwapWrite(p) \/ GiftAcceptStart(p) \/ GiftLimit(p) \/ DropMember(p)

(***************************************************************************)
(* The others leave bookings, ids and time alone.                          *)
(***************************************************************************)
LEMMA NoConcern ==
  ASSUME IInv, NEW p \in Handlers, Start(p) \/ Work(p) \/ Fail(p), ~Concerns(p)
  PROVE  UNCHANGED <<bookings, now>> /\ serial'.booking = serial.booking
<1>1. CASE Start(p)
  <2>1. CASE BookStart(p) \/ CancelStart(p) \/ RemoveStart(p)
               \/ GiftStart(p) \/ GiftDeclineStart(p) \/ SwapStart(p)
               \/ SwapAcceptStart(p) \/ DeleteUserStart(p)
    BY <2>1 DEF DeleteUserStart, BookStart, CancelStart, RemoveStart, GiftStart,
                GiftDeclineStart, SwapStart, SwapAcceptStart, tables, setting
  <2>2. CASE Reserve(p) \/ Unreserve(p) \/ Skip(p) \/ ChangeAccess(p)
               \/ SwapDecline(p)
    BY <2>2 DEF Reserve, Unreserve, Skip, ChangeAccess, SwapDecline, tables,
                setting
  <2>3. QED
    BY <1>1, <2>1, <2>2 DEF Start, Concerns
<1>2. CASE Work(p)
  <2>1. CASE BookLimit(p) \/ Close(p) \/ Warn(p) \/ GiftClose(p)
    BY <2>1 DEF BookLimit, Close, Warn, GiftClose, tables, setting
  <2>2. CASE SwapGive(p) \/ SwapWant(p) \/ DropOffers(p) \/ DropBookings(p)
    BY <2>2 DEF SwapGive, SwapWant, DropOffers, DropBookings, LoadLocked, tables,
                setting
  <2>3. CASE GiftInsert(p) \/ SwapInsert(p)
    <3>1. \/ serial' = serial
          \/ serial' = [serial EXCEPT !.gift = @ + 1]
          \/ serial' = [serial EXCEPT !.swap = @ + 1]
      BY <2>3 DEF GiftInsert, SwapInsert
    <3>2. serial'.booking = serial.booking
      BY <3>1 DEF IInv, TypeOK, TablesTypeOK
    <3>3. QED
      BY <2>3, <3>2 DEF GiftInsert, SwapInsert, setting
  <2>4. QED
    BY <1>2, <2>1, <2>2, <2>3 DEF Work, Concerns
<1>3. CASE Fail(p)
  BY <1>3 DEF Fail, tables, setting
<1>4. QED
  BY <1>1, <1>2, <1>3

\* Ids start at one.
LEMMA NumbersGrow ==
  ASSUME IInv, PartiesInv, [Next]_vars
  PROVE  serial'.booking # 0
<1>1. serial \in [booking : Nat, gift : Nat, swap : Nat] /\ serial.booking # 0
  BY DEF IInv, TypeOK, TablesTypeOK, PartiesInv
<1>2. ASSUME NEW p \in Handlers, Concerns(p)
      PROVE  UNCHANGED serial \/ serial' = [serial EXCEPT !.booking = @ + 1]
  BY <1>2 DEF Concerns, DropMember, BookInsert, Delete, ClearConflict, GiftWrite, SwapWrite,
              GiftAcceptStart, GiftLimit, tables
<1>3. CASE WeeklyReset \/ Tick \/ UNCHANGED vars
  BY <1>1, <1>3 DEF WeeklyReset, Tick, vars, tables
<1>4. QED
  BY <1>1, <1>2, <1>3, NoConcern DEF Next, DeadlockVictim

-----------------------------------------------------------------------------
(* The bookings change as the table of the jobs says *)

Rows   == [b \in BookingIds |-> [hour |-> bookings[b].slot,
                                 owner |-> bookings[b].owner, marks |-> {}]]
Offers == [p \in Handlers |-> Accepting(p)]

TableMoves == [Table!TableNext]_(Table!tableVars)

Reads(p) == pc[p] \in {"giftLimit", "giftWrite"}

\* The table of the jobs has the same rows.
LEMMA SameRows ==
  ASSUME TablesTypeOK
  PROVE  /\ Table!BookingIds = BookingIds
         /\ \A b \in BookingIds :
              /\ Table!Live(b) <=> Live(b)
              /\ Live(b) => /\ bookings[b] \in BookingRow
                            /\ bookings[b].slot \in Slots
                            /\ bookings[b].owner \in Users
              /\ Rows[b].hour = bookings[b].slot
              /\ Rows[b].owner = bookings[b].owner
              /\ ~Live(b) => Rows[b] = Table!NoBooking
<1>1. ASSUME NEW b \in BookingIds
      PROVE  Live(b) => /\ bookings[b] \in BookingRow
                        /\ bookings[b].slot \in Slots /\ bookings[b].slot # 0
                        /\ bookings[b].owner \in Users
  BY CalendarAssumption DEF TablesTypeOK, Live, BookingRow
<1>2. ASSUME NEW b \in BookingIds
      PROVE  Table!Live(b) <=> Live(b)
  <2>1. CASE Live(b)
    BY <1>1, <2>1 DEF Table!Live, Table!NoBooking
  <2>2. CASE ~Live(b)
    BY <2>2 DEF Table!Live, Table!NoBooking, Live, NoBooking
  <2>3. QED
    BY <2>1, <2>2
<1>3. QED
  BY <1>1, <1>2
     DEF Table!BookingIds, BookingIds, Rows, Live, NoBooking, Table!NoBooking

\* What a handler reads depends on nothing of the others.
LEMMA OthersRead ==
  ASSUME NEW P, Untouched(P)
  PROVE  \A q \in Handlers \ P : Accepting(q)' = Accepting(q)
BY DEF Untouched, Accepting

\* A handler that reads has an offer open.
LEMMA ReadsOpen ==
  ASSUME IInv, NEW p \in Handlers
  PROVE  Reads(p) <=> Accepting(p) # Table!NotAccepting
<1>1. Reads(p) => req[p].user \in Users
  BY RequestFields DEF Reads, IInv, TypeOK, LocalsTypeOK, HandlersOK, Asked
<1>2. Reads(p) => Accepting(p).to = req[p].user
  BY DEF Reads, Accepting
<1>3. QED
  BY <1>1, <1>2, StoreAssumption DEF Reads, Accepting, Table!NotAccepting

\* One handler reads something else.
LEMMA ReadingMoves ==
  ASSUME NEW p \in Handlers, Untouched({p}), NEW a, Accepting(p)' = a
  PROVE  Offers' = [Offers EXCEPT ![p] = a]
<1>1. \A q \in Handlers \ {p} : Accepting(q)' = Accepting(q)
  BY OthersRead
<1>2. QED
  BY <1>1 DEF Offers

\* A handler stops accepting a gift, or has never started.
LEMMA ReadingEnds ==
  ASSUME IInv, NEW p \in Handlers, Untouched({p}), ~Reads(p)'
  PROVE  /\ Offers' = [Offers EXCEPT ![p] = Table!NotAccepting]
         /\ ~Reads(p) => UNCHANGED Offers
<1>1. \A q \in Handlers \ {p} : Accepting(q)' = Accepting(q)
  BY OthersRead
<1>2. Accepting(p)' = Table!NotAccepting
  BY DEF Reads, Accepting, Table!NotAccepting
<1>3. ~Reads(p) => Accepting(p) = Table!NotAccepting
  BY DEF Reads, Accepting, Table!NotAccepting
<1>4. QED
  BY <1>1, <1>2, <1>3 DEF Offers

\* Steps that change neither a booking nor what a handler reads.
LEMMA TableStays ==
  ASSUME UNCHANGED <<bookings, now, serial>>, UNCHANGED Offers
  PROVE  TableMoves
BY DEF TableMoves, Table!tableVars, NextBooking, Offers

\* A step that writes no booking, after which its handler reads no gift.
LEMMA EndMaps ==
  ASSUME IInv, NEW p \in Handlers, Untouched({p}), ~Reads(p)',
         UNCHANGED <<bookings, now>>, serial'.booking = serial.booking
  PROVE  TableMoves
<1>1. /\ Offers' = [Offers EXCEPT ![p] = Table!NotAccepting]
      /\ ~Reads(p) => UNCHANGED Offers
  BY ReadingEnds
<1>2. UNCHANGED <<Rows, NextBooking, 2 * now>>
  BY DEF Rows, NextBooking
<1>3. CASE Reads(p)
  <2>1. Accepting(p) # Table!NotAccepting
    BY <1>3, ReadsOpen
  <2>2. Table!AcceptEnd(p)
    BY <1>1, <1>2, <2>1 DEF Table!AcceptEnd, Offers, Rows
  <2>3. QED
    BY <1>2, <2>2 DEF TableMoves, Table!TableNext, Table!Members
<1>4. CASE ~Reads(p)
  BY <1>1, <1>2, <1>4 DEF TableMoves, Table!tableVars, Offers, Rows
<1>5. QED
  BY <1>3, <1>4

\* Taking up a gift offer reads a booking of the giver that lies ahead.
LEMMA GiftStartMaps ==
  ASSUME IInv, PartiesInv, NEW p \in Handlers, GiftAcceptStart(p)
  PROVE  TableMoves
<1>1. TablesTypeOK /\ SettingTypeOK /\ LocalsTypeOK /\ OffersApart
  BY DEF IInv, TypeOK, PartiesInv
<1>2. /\ UNCHANGED <<bookings, now, serial, draft, held>>
      /\ pc[p] = "idle"
  BY DEF GiftAcceptStart, Begin, tables, setting
<1>3. PICK r \in Requests :
        /\ r.op = "giftAccept" /\ gifts[r.offer].status = "pending"
        /\ gifts[r.offer].recipient = r.user
        /\ LET b == gifts[r.offer].booking IN
             \/ Begin(p, r, {}, "giftCancelled")
             \/ Begin(p, r, {b}, "giftExpired")
             \/ /\ bookings[b].owner = gifts[r.offer].giver
                /\ ~Past(bookings[b].slot)
                /\ Begin(p, r, {b}, "giftLimit")
  BY DEF GiftAcceptStart
<1> DEFINE b == gifts[r.offer].booking
<1>4. CASE Begin(p, r, {}, "giftCancelled") \/ Begin(p, r, {b}, "giftExpired")
  <2>1. Untouched({p}) /\ ~Reads(p)'
    BY <1>2, <1>4, BeginLocals DEF Reads
  <2>2. QED
    BY <1>2, <2>1, EndMaps
<1>5. CASE /\ bookings[b].owner = gifts[r.offer].giver
           /\ ~Past(bookings[b].slot)
           /\ Begin(p, r, {b}, "giftLimit")
  <2>1. /\ Untouched({p}) /\ pc'[p] = "giftLimit" /\ rows'[p] = {b}
        /\ req'[p] = r
    BY <1>1, <1>2, <1>5 DEF Begin, LocalsTypeOK, Untouched
  <2>2. r.offer \in GiftIds /\ r.user \in Users
    BY <1>3, RequestFields
  <2>3. gifts[r.offer] \in GiftRow /\ gifts[r.offer] # NoGift
    BY <1>1, <1>3, <2>2 DEF TablesTypeOK, NoGift
  <2>4. /\ b \in BookingIds /\ gifts[r.offer].giver \in Users
        /\ gifts[r.offer].giver # r.user
    BY <1>1, <1>3, <2>2, <2>3 DEF GiftRow, OffersApart
  <2>5. Live(b) /\ bookings[b].owner # r.user
    BY <1>5, <2>4, StoreAssumption DEF Live, NoBooking
  <2>6. /\ Table!Live(b) /\ Table!BookingIds = BookingIds
        /\ bookings[b].slot \in Slots
        /\ Rows[b].hour = bookings[b].slot
        /\ Rows[b].owner = bookings[b].owner /\ Rows[b].marks = {}
    BY <1>1, <2>4, <2>5, SameRows DEF Rows
  <2>7. ~Table!Started(bookings[b].slot)
    <3>1. now \in Nat /\ bookings[b].slot \in Nat /\ ~(bookings[b].slot <= now)
      BY <1>1, <1>5, <2>6, CalendarAssumption DEF Past, SettingTypeOK
    <3> HIDE DEF b
    <3>2. QED
      BY <3>1 DEF Table!Started
  <2>8. Accepting(p) = Table!NotAccepting
    BY <1>2 DEF Accepting, Table!NotAccepting
  <2>9. Accepting(p)' = [booking |-> b, to |-> r.user, seen |-> {}]
    BY <2>1 DEF Accepting
  <2>10. Offers' = [Offers EXCEPT ![p] =
                      [booking |-> b, to |-> r.user, seen |-> {}]]
    BY <2>1, <2>9, ReadingMoves
  <2> HIDE DEF b
  <2>11. Table!AcceptStart(p, b, r.user)
    BY <1>2, <2>4, <2>5, <2>6, <2>7, <2>8, <2>10
       DEF Table!AcceptStart, Offers, Rows, NextBooking
  <2>12. QED
    BY <1>2, <2>2, <2>4, <2>6, <2>11
       DEF TableMoves, Table!TableNext, Table!Members
<1>6. QED
  BY <1>3, <1>4, <1>5

\* Counting goes on reading, or ends it.
LEMMA GiftLimitMaps ==
  ASSUME IInv, NEW p \in Handlers, GiftLimit(p)
  PROVE  TableMoves
<1>1. /\ UNCHANGED <<bookings, now, serial>> /\ pc[p] = "giftLimit"
      /\ Untouched({p}) /\ LocalsTypeOK
  BY HandlerMoves DEF GiftLimit, tables, setting, Work, IInv, TypeOK
<1>2. CASE ~Reads(p)'
  BY <1>1, <1>2, EndMaps
<1>3. CASE Reads(p)'
  <2>1. ~Finish(p)
    BY <1>1, <1>3 DEF Finish, Reads, LocalsTypeOK
  <2>2. UNCHANGED <<rows, req>>
    BY <2>1 DEF GiftLimit, LimitCheck, GoTo
  <2>3. Accepting(p)' = Accepting(p)
    BY <1>1, <1>3, <2>2 DEF Accepting, Reads
  <2>4. UNCHANGED Offers
    BY <1>1, <2>3, OthersRead DEF Offers
  <2>5. QED
    BY <1>1, <2>4, TableStays
<1>4. QED
  BY <1>2, <1>3

\* Writing an accepted gift is the end of its reading.
LEMMA GiftWriteMaps ==
  ASSUME IInv, PartiesInv, NEW p \in Handlers, GiftWrite(p)
  PROVE  TableMoves
<1>1. /\ UNCHANGED <<now, serial>> /\ pc[p] = "giftWrite" /\ Finish(p)
      /\ OneRow(p) /\ TablesTypeOK /\ rows[p] \subseteq BookingIds
  BY DEF GiftWrite, setting, PartiesInv, PartiesOf, IInv, TypeOK, LocalsTypeOK
<1>2. Untouched({p}) /\ ~Reads(p)' /\ Reads(p)
  BY <1>1, FinishLocals DEF Reads
<1>3. CASE UNCHANGED bookings
  BY <1>1, <1>2, <1>3, EndMaps
<1>4. ASSUME NEW b \in rows[p], Live(b),
             bookings' = [bookings EXCEPT ![b].owner = req[p].user]
      PROVE  TableMoves
  <2>1. rows[p] = {b} /\ b \in BookingIds
    BY <1>1, <1>4 DEF OneRow
  <2>2. Accepting(p) = [booking |-> b, to |-> req[p].user, seen |-> {}]
    <3>1. (CHOOSE x \in rows[p] : TRUE) = b
      BY <2>1
    <3>2. QED
      BY <1>2, <3>1 DEF Accepting, Reads
  <2>3. Table!Live(b) /\ bookings[b] \in BookingRow
    BY <1>1, <1>4, <2>1, SameRows
  <2>4. /\ bookings'[b].slot = bookings[b].slot
        /\ bookings'[b].owner = req[p].user
        /\ \A c \in BookingIds \ {b} : bookings'[c] = bookings[c]
    BY <1>1, <1>4, <2>1, <2>3 DEF TablesTypeOK, BookingRow
  <2>5. Rows' = [Rows EXCEPT ![b].owner = req[p].user, ![b].marks = @ \ {}]
    BY <2>1, <2>4 DEF Rows
  <2>6. /\ Offers' = [Offers EXCEPT ![p] = Table!NotAccepting]
        /\ Accepting(p) # Table!NotAccepting
    BY <1>2, ReadingEnds, ReadsOpen
  <2>7. /\ Offers[p] # Table!NotAccepting /\ Offers[p].booking = b
        /\ Offers[p].to = req[p].user /\ Offers[p].seen = {}
    BY <2>2, <2>6 DEF Offers
  <2>8. Table!AcceptWrite(p)
    BY <1>1, <2>3, <2>5, <2>6, <2>7
       DEF Table!AcceptWrite, Table!Cleared, Offers, Rows, NextBooking
  <2>9. QED
    BY <1>1, <2>8 DEF TableMoves, Table!TableNext, Table!Members
<1>5. QED
  BY <1>3, <1>4 DEF GiftWrite

\* Bookings go, and nobody reads anything else.
LEMMA RemoveMaps ==
  ASSUME IInv, NEW B,
         bookings' = [b \in BookingIds |-> IF b \in B THEN NoBooking
                                                      ELSE bookings[b]],
         UNCHANGED <<now, serial>>,
         UNCHANGED Offers
  PROVE  TableMoves
<1>1. TablesTypeOK
  BY DEF IInv, TypeOK
<1>2. PICK D \in SUBSET BookingIds :
        /\ D = {b \in BookingIds : b \in B /\ Live(b)}
        /\ \A b \in BookingIds :
             bookings'[b] = IF b \in D THEN NoBooking ELSE bookings[b]
  <2> DEFINE D == {b \in BookingIds : b \in B /\ Live(b)}
  <2>1. \A b \in BookingIds :
          bookings'[b] = IF b \in D THEN NoBooking ELSE bookings[b]
    BY DEF Live
  <2>2. D \in SUBSET BookingIds
    OBVIOUS
  <2> HIDE DEF D
  <2>3. QED
    BY <2>1, <2>2 DEF D
<1>3. Table!BookingIds = BookingIds /\ \A b \in D : Table!Live(b)
  BY <1>1, <1>2, SameRows
<1>4. CASE D = {}
  <2>1. UNCHANGED bookings
    BY <1>1, <1>2, <1>4 DEF TablesTypeOK
  <2>2. QED
    BY <2>1, TableStays
<1>5. CASE D # {}
  <2>1. Rows' = [b \in BookingIds |-> IF b \in D THEN Table!NoBooking
                                                ELSE Rows[b]]
    BY <1>2 DEF Rows, NoBooking, Table!NoBooking
  <2>2. Table!Remove(D)
    BY <1>3, <1>5, <2>1 DEF Table!Remove, Rows, Offers, NextBooking
  <2>3. \E C \in SUBSET Table!BookingIds : Table!Remove(C)
    BY <1>3, <2>2
  <2>4. UNCHANGED (2 * now)
    OBVIOUS
  <2>5. QED
    BY <2>3, <2>4 DEF TableMoves, Table!TableNext, Table!Members
<1>6. QED
  BY <1>4, <1>5

\* An inserted booking is the next one, of an hour that was free.
LEMMA InsertMaps ==
  ASSUME IInv, PartiesInv, NEW p \in Handlers, BookInsert(p)
  PROVE  TableMoves
<1> DEFINE n == serial.booking
<1>1. /\ pc[p] = "bookInsert" /\ Asked(p) /\ TablesTypeOK
      /\ req[p] \in Requests \cup {NoRequest}
      /\ Finish(p) /\ UNCHANGED now
  BY DEF BookInsert, IInv, HandlersOK, TypeOK, LocalsTypeOK, setting
<1>2. PICK u \in Users, s \in Slots : u = req[p].user /\ s = req[p].slot
  BY <1>1, RequestFields DEF Asked
<1>3. Untouched({p}) /\ ~Reads(p)' /\ ~Reads(p)
  BY <1>1, FinishLocals DEF Reads
<1>4. UNCHANGED Offers
  BY <1>3, ReadingEnds
<1>5. CASE UNCHANGED <<bookings, serial>>
  BY <1>1, <1>3, <1>5, EndMaps
<1>6. CASE /\ ~SlotTaken(s)
           /\ bookings' = [bookings EXCEPT ![n] = [slot |-> s, owner |-> u]]
           /\ serial' = [serial EXCEPT !.booking = @ + 1]
  <2>1. /\ n \in Nat /\ n # 0 /\ serial'.booking = n + 1
        /\ MaxBookings \in Nat
    BY <1>1, <1>6, StoreAssumption DEF TablesTypeOK, PartiesInv
  <2>2. CASE n > MaxBookings
    <3>1. n \notin BookingIds
      BY <2>1, <2>2 DEF BookingIds
    <3>2. UNCHANGED bookings
      BY <1>1, <1>6, <3>1 DEF TablesTypeOK
    <3>3. UNCHANGED NextBooking
      BY <2>1, <2>2 DEF NextBooking
    <3>4. QED
      BY <1>1, <1>4, <3>2, <3>3 DEF TableMoves, Table!tableVars, Offers
  <2>3. CASE n <= MaxBookings
    <3>1. NextBooking = n /\ NextBooking' = n + 1
      BY <2>1, <2>3 DEF NextBooking
    <3>2. /\ bookings'[n] = [slot |-> s, owner |-> u]
          /\ \A b \in BookingIds \ {n} : bookings'[b] = bookings[b]
      BY <1>1, <1>6, <2>1, <2>3 DEF TablesTypeOK, BookingIds
    <3>3. \A b \in BookingIds : Rows[b].hour # s
      BY <1>6 DEF Rows, SlotTaken
    <3> HIDE DEF n
    <3>4. Rows' = [Rows EXCEPT ![n] = [hour |-> s, owner |-> u, marks |-> {}]]
      <4>1. bookings'[n].slot = s /\ bookings'[n].owner = u
        BY <3>2
      <4>2. QED
        BY <3>2, <4>1 DEF Rows
    <3>5. Table!BookingIds = BookingIds
      BY <1>1, SameRows
    <3>6. Table!Book(u, s)
      BY <1>4, <2>3, <3>1, <3>3, <3>4, <3>5 DEF Table!Book, Rows, Offers
    <3>7. \E v \in Users, h \in Slots : Table!Book(v, h)
      BY <3>6
    <3>8. UNCHANGED (2 * now)
      BY <1>1
    <3>9. QED
      BY <3>7, <3>8 DEF TableMoves, Table!TableNext, Table!Members
  <2>4. QED
    BY <2>1, <2>2, <2>3
<1>7. QED
  BY <1>2, <1>5, <1>6 DEF BookInsert

\* An accepted swap trades two bookings of two members.
LEMMA SwapMaps ==
  ASSUME IInv, PartiesInv, NEW p \in Handlers, SwapWrite(p)
  PROVE  TableMoves
<1>1. /\ pc[p] = "swapWrite" /\ Finish(p) /\ UNCHANGED <<now, serial>>
      /\ TablesTypeOK /\ OffersApart
  BY DEF SwapWrite, setting, IInv, TypeOK, PartiesInv
<1>2. Untouched({p}) /\ ~Reads(p)' /\ ~Reads(p)
  BY <1>1, FinishLocals DEF Reads
<1>3. UNCHANGED Offers
  BY <1>2, ReadingEnds
<1>4. CASE UNCHANGED bookings
  BY <1>1, <1>3, <1>4, TableStays
<1>5. CASE Exchangeable(p) /\ Exchange(p)
  <2> DEFINE o == req[p].offer
             G == swaps[o].giver
             R == swaps[o].receiver
             s == swaps[o].give
             t == swaps[o].want
  <2>1. o \in SwapIds /\ swaps[o] \in SwapRow
    BY <1>1, <1>5, Exchanged
  <2>2. G \in Users /\ R \in Users
    BY <2>1 DEF SwapRow
  <2>3. G # R
    BY <1>1, <2>1, <2>2, StoreAssumption DEF OffersApart, NoSwap
  <2>4. PICK g \in BookingIds, h \in BookingIds :
          /\ bookings[g] = [slot |-> s, owner |-> G]
          /\ bookings[h] = [slot |-> t, owner |-> R]
          /\ bookings'[g] = [slot |-> s, owner |-> R]
          /\ bookings'[h] = [slot |-> t, owner |-> G]
          /\ \A b \in BookingIds \ {g, h} : bookings'[b] = bookings[b]
          /\ g # h
    BY <1>1, <1>5, Exchanged
  <2> HIDE DEF s, t, G, R
  <2>5. Live(g) /\ Live(h)
    BY <2>2, <2>4, StoreAssumption DEF Live, NoBooking
  <2>6. /\ Table!Live(g) /\ Table!Live(h) /\ Table!BookingIds = BookingIds
    BY <1>1, <2>5, SameRows
  <2>12. /\ bookings[g].slot = s /\ bookings[g].owner = G
         /\ bookings[h].slot = t /\ bookings[h].owner = R
         /\ bookings'[g].slot = s /\ bookings'[g].owner = R
         /\ bookings'[h].slot = t /\ bookings'[h].owner = G
    BY <2>4
  <2>7. /\ Rows[g] = [hour |-> s, owner |-> G, marks |-> {}]
        /\ Rows[h] = [hour |-> t, owner |-> R, marks |-> {}]
    BY <2>12 DEF Rows
  <2>8. /\ Table!Traded(g, Rows[h].owner) = [hour |-> s, owner |-> R, marks |-> {}]
        /\ Table!Traded(h, Rows[g].owner) = [hour |-> t, owner |-> G, marks |-> {}]
    <3>1. /\ Table!Traded(g, Rows[h].owner) =
               [Rows[g] EXCEPT !.owner = Rows[h].owner,
                               !.marks = @ \ {"hourly", "fifteen"}]
          /\ Table!Traded(h, Rows[g].owner) =
               [Rows[h] EXCEPT !.owner = Rows[g].owner,
                               !.marks = @ \ {"hourly", "fifteen"}]
      BY DEF Table!Traded, Rows
    <3>2. Rows[g].marks \ {"hourly", "fifteen"} = {}
          /\ Rows[h].marks \ {"hourly", "fifteen"} = {}
      BY <2>7
    <3>3. /\ Table!Traded(g, Rows[h].owner) = [Rows[g] EXCEPT !.owner = R,
                                                             !.marks = {}]
          /\ Table!Traded(h, Rows[g].owner) = [Rows[h] EXCEPT !.owner = G,
                                                             !.marks = {}]
      <4>1. Rows[h].owner = R /\ Rows[g].owner = G
        BY <2>7
      <4> HIDE DEF Rows
      <4>2. QED
        BY <3>1, <3>2, <4>1
    <3> DEFINE eg == [Rows[g] EXCEPT !.owner = R, !.marks = {}]
               eh == [Rows[h] EXCEPT !.owner = G, !.marks = {}]
    <3>4. /\ eg \in [hour : {s}, owner : {R}, marks : {{}}]
          /\ eh \in [hour : {t}, owner : {G}, marks : {{}}]
      <4>1. eg \in [hour : {s}, owner : {R}, marks : {{}}]
        <5>1. PICK r, x, y, k : /\ r = Rows[g] /\ x = s /\ y = G /\ k = R
          OBVIOUS
        <5>2. r = [hour |-> x, owner |-> y, marks |-> {}]
          BY <5>1, <2>7
        <5>3. [r EXCEPT !.owner = k, !.marks = {}]
                 \in [hour : {x}, owner : {k}, marks : {{}}]
          BY ONLY <5>2
        <5>4. QED
          BY <5>1, <5>3
      <4>2. eh \in [hour : {t}, owner : {G}, marks : {{}}]
        <5>1. PICK r, x, y, k : /\ r = Rows[h] /\ x = t /\ y = R /\ k = G
          OBVIOUS
        <5>2. r = [hour |-> x, owner |-> y, marks |-> {}]
          BY <5>1, <2>7
        <5>3. [r EXCEPT !.owner = k, !.marks = {}]
                 \in [hour : {x}, owner : {k}, marks : {{}}]
          BY ONLY <5>2
        <5>4. QED
          BY <5>1, <5>3
      <4>3. QED
        BY <4>1, <4>2
    <3> HIDE DEF eg, eh
    <3>5. /\ eg = [hour |-> s, owner |-> R, marks |-> {}]
          /\ eh = [hour |-> t, owner |-> G, marks |-> {}]
      BY <3>4
    <3>6. QED
      BY <3>3, <3>5 DEF eg, eh
  <2>9. Rows' = [Rows EXCEPT
                   ![g] = [hour |-> s, owner |-> R, marks |-> {}],
                   ![h] = [hour |-> t, owner |-> G, marks |-> {}]]
    BY <2>4, <2>12 DEF Rows
  <2>10. Table!Swap(g, h)
    BY <1>1, <1>3, <2>3, <2>6, <2>7, <2>8, <2>9
       DEF Table!Swap, Rows, Offers, NextBooking
  <2>11. QED
    BY <1>1, <2>6, <2>10 DEF TableMoves, Table!TableNext, Table!Members
<1>6. QED
  BY <1>4, <1>5 DEF SwapWrite

\* A slot starts two half hours later.
LEMMA TickMaps ==
  ASSUME IInv, Tick
  PROVE  TableMoves
<1>1. /\ now \in Nat /\ now' = now + 1 /\ now < Horizon
      /\ UNCHANGED <<bookings, serial, pc, req, rows>>
  BY DEF IInv, TypeOK, SettingTypeOK, Tick, tables, locals
<1>2. 2 * now' \in 2 * now + 1 .. 2 * Horizon
  BY <1>1, StoreAssumption
<1>3. UNCHANGED <<Rows, NextBooking, Offers>>
  BY <1>1 DEF Rows, NextBooking, Offers, Accepting
<1>4. Table!TimePasses
  BY <1>2, <1>3 DEF Table!TimePasses, Rows, Offers
<1>5. QED
  BY <1>4 DEF TableMoves, Table!TableNext

(***************************************************************************)
(* Every step is a change of the table of the jobs, or leaves it alone.    *)
(***************************************************************************)
LEMMA StepMapsToTable ==
  ASSUME IInv, PartiesInv, [Next]_vars
  PROVE  TableMoves
<1>1. ASSUME UNCHANGED locals
      PROVE  UNCHANGED Offers
  BY <1>1 DEF locals, Offers, Accepting
<1>2. ASSUME NEW p \in Handlers, Delete(p) \/ ClearConflict(p) \/ DropMember(p)
      PROVE  TableMoves
  <2>1. PICK B : bookings' = [b \in BookingIds |-> IF b \in B THEN NoBooking
                                                              ELSE bookings[b]]
    <3>1. CASE DropMember(p) /\ UNCHANGED bookings
      <4> DEFINE nothing == {}
      <4>1. bookings' = [b \in BookingIds |-> IF b \in nothing
                                              THEN NoBooking ELSE bookings[b]]
        BY <3>1 DEF IInv, TypeOK, TablesTypeOK
      <4> HIDE DEF nothing
      <4>2. QED
        BY <4>1
    <3>2. QED
      BY <1>2, <3>1 DEF Delete, ClearConflict, DropMember, DeleteBookings
  <2>2. Untouched({p}) /\ UNCHANGED <<now, serial>> /\ ~Reads(p)
    BY <1>2, HandlerMoves
       DEF Delete, ClearConflict, DropMember, Work, setting, Reads
  <2>3. ~Reads(p)'
    <3>1. /\ LocalsTypeOK
          /\ pc[p] \in {"delete", "lateDelete", "clearing", "dropMember"}
      BY <1>2 DEF IInv, TypeOK, Delete, ClearConflict, DropMember
    <3>2. CASE Finish(p)
      BY <3>2, FinishLocals DEF Reads
    <3>3. CASE GoTo(p, "warning") \/ UNCHANGED pc
      BY <3>1, <3>3 DEF GoTo, LocalsTypeOK, Reads
    <3>4. QED
      BY <1>2, <3>2, <3>3 DEF Delete, ClearConflict, DropMember
  <2>4. UNCHANGED Offers
    BY <2>2, <2>3, ReadingEnds
  <2>5. QED
    BY <2>1, <2>2, <2>4, RemoveMaps
<1>3. CASE WeeklyReset
  <2>1. DeleteBookings(ResetRows) /\ UNCHANGED <<now, serial, locals>>
    BY <1>3 DEF WeeklyReset, setting
  <2>2. QED
    BY <1>1, <2>1, RemoveMaps DEF DeleteBookings
<1>4. CASE UNCHANGED vars
  BY <1>1, <1>4, TableStays DEF vars, tables, setting
<1>5. ASSUME NEW p \in Handlers, Start(p) \/ Work(p) \/ Fail(p), ~Concerns(p)
      PROVE  TableMoves
  <2>1. UNCHANGED <<bookings, now>> /\ serial'.booking = serial.booking
    BY <1>5, NoConcern
  <2>2. Untouched({p}) /\ ~Reads(p)'
    <3>1. CASE GiftStart(p) \/ SwapStart(p)
      <4>1. PICK r, B, stage :
              /\ Begin(p, r, B, stage)
              /\ stage \in {"giftInsert", "swapInsert"}
        BY <3>1 DEF GiftStart, SwapStart
      <4>2. pc'[p] = stage
        BY <4>1 DEF Begin, IInv, TypeOK, LocalsTypeOK
      <4>3. ~Reads(p)'
        BY <4>1, <4>2 DEF Reads
      <4>4. QED
        BY <1>5, <4>3, HandlerMoves
    <3>2. QED
      BY <1>5, <3>1, HandlerMoves DEF Plain, Reads, Concerns
  <2>3. QED
    BY <2>1, <2>2, EndMaps
<1>6. ASSUME NEW p \in Handlers, Start(p) \/ Work(p) \/ Fail(p)
      PROVE  TableMoves
  BY <1>2, <1>5, <1>6, InsertMaps, GiftWriteMaps, SwapMaps, GiftStartMaps,
     GiftLimitMaps DEF Concerns
<1>7. QED
  BY <1>3, <1>4, <1>6, TickMaps DEF Next, DeadlockVictim

(***************************************************************************)
(* The concurrent handlers do nothing to the bookings but what the two     *)
(* jobs are checked against: what Reminders and CheckIn prove of every     *)
(* change of the table holds of every booking, cancellation, gift and swap *)
(* that Bookings has.                                                      *)
(***************************************************************************)
THEOREM TableImplemented == Spec => ImplementsTable
<1>1. Init => Table!TableInit
  BY StoreAssumption
     DEF Init, StoreInit, Table!TableInit, Table!NoBooking, Table!BookingIds,
         Table!NotAccepting, BookingIds, NoBooking, Accepting, NextBooking
<1>2. Init => PartiesInv
  BY DEF Init, StoreInit, PartiesInv, OffersApart, PartiesOf, OneRow
<1>3. IInv /\ PartiesInv /\ [Next]_vars => PartiesInv'
  BY PartiesKnown, PartiesDiffer, NumbersGrow DEF PartiesInv
<1>4. IInv /\ PartiesInv /\ [Next]_vars
        => [Table!TableNext]_(Table!tableVars)
  BY StepMapsToTable DEF TableMoves
<1>5. QED
  BY <1>1, <1>2, <1>3, <1>4, Invariant, PTL
     DEF Spec, ImplementsTable, Table!TableSpec

-----------------------------------------------------------------------------
(* A member's own cancellation *)

\* A member's cancellation that has looked its booking up and not deleted it.
Cancelling(p) == Deleting(p) /\ req[p].op = "cancel"

\* Nobody gives or swaps a booking whose cancellation is under way: what the
\* run that violates CancelsOwn does.
NoneGivenAway ==
  \A p, q \in Handlers :
    Cancelling(p) /\ (GiftWrite(q) \/ SwapWrite(q)) => rows[p] \cap rows[q] = {}

CancelKnown(p) ==
  Cancelling(p) =>
    \A b \in rows[p] : Live(b) => bookings[b].owner = req[p].user

CancelInv == \A p \in Handlers : CancelKnown(p)

(***************************************************************************)
(* Whoever writes a booking without removing it leaves the owners of the   *)
(* bookings that it has not loaded.                                        *)
(***************************************************************************)
LEMMA OwnersKeep ==
  ASSUME IInv, [Next]_vars, NoneGivenAway, NEW p \in Handlers, Cancelling(p),
         NEW b \in rows[p], Live(b)'
  PROVE  Live(b) /\ bookings'[b].owner = bookings[b].owner
<1>1. /\ TablesTypeOK /\ Fresh /\ rows[p] \subseteq BookingIds
      /\ b < serial.booking /\ b \in BookingIds
  BY DEF IInv, TypeOK, LocalsTypeOK, HandlersOK, Knows, Loaded
<1>2. Live(b)
  BY <1>1, RowsKeep
<1>3. CASE UNCHANGED bookings
  BY <1>2, <1>3
<1>4. ASSUME NEW B, DeleteBookings(B)
      PROVE  bookings'[b].owner = bookings[b].owner
  BY <1>1, <1>4 DEF DeleteBookings, Live
<1>5. ASSUME NEW q \in Handlers, BookInsert(q)
      PROVE  bookings'[b].owner = bookings[b].owner
  BY <1>1, <1>5 DEF BookInsert, TablesTypeOK
<1>6. ASSUME NEW q \in Handlers, GiftWrite(q) \/ SwapWrite(q)
      PROVE  bookings'[b].owner = bookings[b].owner
  <2>1. b \notin rows[q]
    BY <1>6 DEF NoneGivenAway
  <2>2. CASE GiftWrite(q)
    BY <1>1, <2>1, <2>2 DEF GiftWrite, TablesTypeOK
  <2>3. CASE SwapWrite(q)
    BY <1>1, <2>1, <2>3 DEF SwapWrite, Exchange
  <2>4. QED
    BY <1>6, <2>2, <2>3
<1>7. ASSUME NEW q \in Handlers, DropMember(q)
      PROVE  bookings'[b].owner = bookings[b].owner
  BY <1>1, <1>7 DEF DropMember, Live
<1>8. QED
  BY <1>2, <1>3, <1>4, <1>5, <1>6, <1>7, WhoWrites
     DEF WeeklyReset, Delete, ClearConflict

\* What a cancellation knows stays true while others work.
LEMMA OthersCancel ==
  ASSUME IInv, CancelInv, [Next]_vars, NoneGivenAway,
         NEW P \in SUBSET Handlers, Untouched(P),
         \A p \in P : CancelKnown(p)'
  PROVE  CancelInv'
<1> SUFFICES ASSUME NEW q \in Handlers \ P
             PROVE  CancelKnown(q)'
  BY DEF CancelInv
<1>1. /\ pc'[q] = pc[q] /\ req'[q] = req[q] /\ rows'[q] = rows[q]
      /\ CancelKnown(q)
  BY DEF Untouched, CancelInv
<1>2. SUFFICES ASSUME Cancelling(q), NEW b \in rows[q], Live(b)'
               PROVE  bookings'[b].owner = req[q].user
  BY <1>1 DEF CancelKnown, Cancelling, Deleting
<1>3. QED
  BY <1>1, <1>2, OwnersKeep DEF CancelKnown

\* Only by looking its booking up does a handler come to a cancellation.
LEMMA CancelStep ==
  ASSUME IInv, CancelInv, [Next]_vars, NoneGivenAway
  PROVE  CancelInv'
<1>1. CASE UNCHANGED locals
  <2>1. Untouched({})
    BY <1>1 DEF Untouched, locals
  <2>2. QED
    BY <2>1, OthersCancel
<1>2. ASSUME NEW p \in Handlers, Untouched({p}),
             pc'[p] \notin {"delete", "lateDelete"}
      PROVE  CancelInv'
  BY <1>2, OthersCancel DEF CancelKnown, Cancelling, Deleting
<1>3. ASSUME NEW p \in Handlers, CancelStart(p)
      PROVE  CancelInv'
  <2>1. PICK r \in Requests, stage \in {"delete", "lateDelete"} :
          /\ bookings[r.booking].owner = r.user
          /\ Begin(p, r, {r.booking}, stage)
          /\ UNCHANGED <<tables, draft, held>>
    BY <1>3 DEF CancelStart
  <2>2. Untouched({p}) /\ rows'[p] = {r.booking} /\ req'[p] = r
    BY <2>1, BeginLocals DEF Begin, IInv, TypeOK, LocalsTypeOK
  <2>3. CancelKnown(p)'
    BY <2>1, <2>2 DEF CancelKnown, tables
  <2>4. QED
    BY <2>2, <2>3, OthersCancel
<1>4. ASSUME NEW p \in Handlers, RemoveStart(p)
      PROVE  CancelInv'
  <2>1. PICK r \in Requests :
          /\ r.op = "remove"
          /\ Begin(p, r, {r.booking}, "delete") /\ UNCHANGED <<draft, held>>
    BY <1>4 DEF RemoveStart
  <2>2. Untouched({p}) /\ req'[p].op = "remove"
    BY <2>1, BeginLocals DEF Begin, IInv, TypeOK, LocalsTypeOK
  <2>3. QED
    BY <2>2, OthersCancel DEF CancelKnown, Cancelling
<1>5. ASSUME NEW p \in Handlers, Start(p)
      PROVE  CancelInv'
  <2>1. ASSUME NEW r, NEW B, NEW stage, Begin(p, r, B, stage),
               stage \notin {"delete", "lateDelete"}, UNCHANGED <<draft, held>>
        PROVE  CancelInv'
    BY <1>2, <2>1, BeginLocals
  <2>2. CASE BookStart(p) \/ GiftStart(p) \/ GiftDeclineStart(p)
               \/ DeleteUserStart(p)
    <3>1. \E r \in Requests, stage \in {"bookLimit", "giftInsert",
                                        "giftDeclined", "dropOffers"} :
            \E B : Begin(p, r, B, stage) /\ UNCHANGED <<draft, held>>
      BY <2>2 DEF BookStart, GiftStart, GiftDeclineStart, DeleteUserStart
    <3>2. QED
      BY <2>1, <3>1
  <2>3. CASE GiftAcceptStart(p)
    <3>1. PICK r \in Requests :
            /\ \/ Begin(p, r, {}, "giftCancelled")
               \/ Begin(p, r, {gifts[r.offer].booking}, "giftExpired")
               \/ Begin(p, r, {gifts[r.offer].booking}, "giftLimit")
            /\ UNCHANGED <<draft, held>>
      BY <2>3 DEF GiftAcceptStart
    <3>2. QED
      BY <2>1, <3>1
  <2>4. CASE Reserve(p)
    BY <1>1, <2>1, <2>4 DEF Reserve, AtOnce
  <2>5. CASE Unreserve(p) \/ Skip(p) \/ ChangeAccess(p) \/ SwapDecline(p)
    BY <1>1, <2>5 DEF Unreserve, Skip, ChangeAccess, SwapDecline, AtOnce
  <2>6. CASE SwapStart(p) \/ SwapAcceptStart(p)
    <3>1. Untouched({p}) /\ pc'[p] \in {"swapInsert", "swapGive"}
      BY <2>6, ZenonT(60)
         DEF IInv, TypeOK, LocalsTypeOK, Begin, Untouched, SwapStart,
             SwapAcceptStart
    <3>2. QED
      BY <1>2, <3>1
  <2>7. QED
    BY <1>3, <1>4, <1>5, <2>2, <2>3, <2>4, <2>5, <2>6 DEF Start
<1>6. ASSUME NEW p \in Handlers, Work(p)
      PROVE  CancelInv'
  <2>1. Untouched({p})
    BY <1>6, HandlerMoves
  <2>2. pc[p] \in Stages /\ \A stage : pc' = [pc EXCEPT ![p] = stage] =>
                                      pc'[p] = stage
    BY DEF IInv, TypeOK, LocalsTypeOK
  <2>3. CASE Finish(p)
    BY <1>2, <2>3, FinishLocals
  <2>4. CASE BookLimit(p) \/ GiftLimit(p)
    <3>1. ASSUME NEW s, NEW stage \in {"bookInsert", "giftWrite"},
                 LimitCheck(p, s, stage)
          PROVE  CancelInv'
      BY <1>2, <2>1, <2>2, <3>1 DEF LimitCheck, GoTo
    <3>2. QED
      BY <2>3, <2>4, <3>1 DEF BookLimit, GiftLimit
  <2>5. CASE SwapGive(p) \/ SwapWant(p) \/ DropOffers(p) \/ DropBookings(p)
    BY <1>2, <2>1, <2>2, <2>5
       DEF SwapGive, SwapWant, DropOffers, DropBookings, LoadLocked, GoTo
  <2>6. CASE Delete(p)
    BY <1>2, <2>1, <2>2, <2>3, <2>6 DEF Delete, GoTo
  <2>7. CASE ClearConflict(p)
    BY <1>2, <2>1, <2>3, <2>7 DEF ClearConflict
  <2>8. CASE Close(p) \/ Warn(p) \/ BookInsert(p) \/ GiftInsert(p) \/ GiftWrite(p)
               \/ GiftClose(p) \/ SwapInsert(p) \/ SwapWrite(p) \/ DropMember(p)
    BY <2>3, <2>8 DEF Close, Warn, BookInsert, GiftInsert, GiftWrite, GiftClose,
                      SwapInsert, SwapWrite, DropMember
  <2>9. QED
    BY <1>6, <2>4, <2>5, <2>6, <2>7, <2>8 DEF Work
<1>7. ASSUME NEW p \in Handlers, DeadlockVictim(p) \/ Fail(p)
      PROVE  CancelInv'
  BY <1>2, <1>7, FinishLocals DEF DeadlockVictim, Fail
<1>8. CASE WeeklyReset \/ Tick \/ UNCHANGED vars
  BY <1>1, <1>8 DEF WeeklyReset, Tick, vars
<1>9. QED
  BY <1>5, <1>6, <1>7, <1>8 DEF Next

(***************************************************************************)
(* A member's cancellation removes a booking of that member, as long as    *)
(* the booking is not given away or swapped between the SELECT and the     *)
(* DELETE. Nothing in the code makes sure of that.                         *)
(***************************************************************************)
THEOREM CancelledByOwner == Spec /\ [][NoneGivenAway]_vars => CancelsOwn
<1>1. Init => CancelInv
  BY DEF Init, StoreInit, CancelInv, CancelKnown, Cancelling, Deleting
<1>2. IInv /\ CancelInv /\ [Next]_vars /\ [NoneGivenAway]_vars => CancelInv'
  <2>1. CASE UNCHANGED vars
    BY <2>1 DEF vars, tables, locals, CancelInv, CancelKnown, Cancelling,
                Deleting, Live
  <2>2. QED
    BY <2>1, CancelStep
<1>3. CancelInv =>
        [\A p \in Handlers :
           Deleting(p) /\ req[p].op = "cancel" /\ ~Deleting(p)' =>
             \A b \in rows[p] :
               Live(b) /\ ~Live(b)' => bookings[b].owner = req[p].user]_vars
  BY DEF CancelInv, CancelKnown, Cancelling
<1>4. QED
  BY <1>1, <1>2, <1>3, Invariant, PTL DEF Spec, CancelsOwn
=============================================================================
