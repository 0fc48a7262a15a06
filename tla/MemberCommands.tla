--------------------------- MODULE MemberCommands ---------------------------
(***************************************************************************)
(* The admins' commands about members that reach the bookings: access, and *)
(* the deletion of a member (admin_user_commands.py). Deleting one takes   *)
(* three statements in one transaction. A member who comes back is a new   *)
(* row, and so somebody else here.                                         *)
(***************************************************************************)
EXTENDS SwapCommands

\* An admin grants or takes away room access; a ban takes it away as well.
ChangeAccess(p) ==
  /\ \E r \in Requests :
       \/ r.op = "allow"  /\ r.user \in members /\ access' = access \cup {r.user}
       \/ r.op = "revoke" /\ access' = access \ {r.user}
  /\ AtOnce(p)
  /\ UNCHANGED <<tables, weekly, skipped, members, now>>

-----------------------------------------------------------------------------
(* delete_user_by_username *)

BookingsOf(u) == {b \in BookingIds : bookings[b].owner = u}
OffersOf(u)   == {o \in SwapIds : u \in {swaps[o].giver, swaps[o].receiver}}
GiftsOf(u)    == {g \in GiftIds : u \in {gifts[g].giver, gifts[g].recipient}}

\* The locks of the member's swap offers.
OfferLocks(u) == {SwapLock(o) : o \in OffersOf(u)}

DeleteUserStart(p) ==
  \E r \in Requests :
    /\ r.op = "deleteUser"
    /\ r.user \in members
    /\ Begin(p, r, {}, "dropOffers")
    /\ UNCHANGED <<tables, setting, draft, held>>

\* DELETE FROM swap_offers: nobody sees it before the COMMIT, but the rows
\* are locked.
DropOffers(p) ==
  /\ pc[p] = "dropOffers"
  /\ Free(p, OfferLocks(req[p].user))
  /\ held' = [held EXCEPT ![p] = OfferLocks(req[p].user)]
  /\ GoTo(p, "dropBookings")
  /\ UNCHANGED <<tables, setting, rows, draft>>

\* DELETE FROM bookings: every booking of the member, whatever its time.
DropBookings(p) ==
  /\ pc[p] = "dropBookings"
  /\ LoadLocked(p, BookingsOf(req[p].user), "dropMember")

\* DELETE FROM users, and COMMIT. A booking that has come to the member since
\* the last statement fails the foreign key, and the transaction. Offers go
\* with the member (ON DELETE CASCADE), the gift offers of the bookings too.
DropMember(p) ==
  LET u    == req[p].user
      gone == GiftsOf(u) \cup {g \in GiftIds : gifts[g].booking \in rows[p]}
  IN
    /\ pc[p] = "dropMember"
    /\ \/ /\ ~ BookingsOf(u) \subseteq rows[p]
          /\ UNCHANGED <<bookings, gifts, swaps, members, access>>
       \/ /\ BookingsOf(u) \subseteq rows[p]
          /\ Free(p, OfferLocks(u))
          /\ bookings' = [b \in BookingIds |-> IF b \in rows[p] THEN NoBooking
                                                                ELSE bookings[b]]
          /\ gifts' = [g \in GiftIds |-> IF g \in gone THEN NoGift ELSE gifts[g]]
          /\ swaps' = [o \in SwapIds |-> IF o \in OffersOf(u) THEN NoSwap
                                                              ELSE swaps[o]]
          /\ members' = members \ {u}
          /\ access' = access \ {u}
    /\ Finish(p)
    /\ UNCHANGED <<serial, weekly, skipped, now>>
=============================================================================
