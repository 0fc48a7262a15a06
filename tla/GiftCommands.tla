---------------------------- MODULE GiftCommands ----------------------------
(***************************************************************************)
(* Gift offers: booking_service.py, lines 188 to 481. The offer and the    *)
(* booking are read without a row lock, and written later by primary key.  *)
(***************************************************************************)
EXTENDS BookingCommands

\* gift_booking_to_username, up to the check for another pending offer.
GiftStart(p) ==
  \E r \in Requests :
    /\ r.op = "gift"
    /\ LET b == r.booking IN
         /\ bookings[b].owner = r.user
         /\ ~Past(bookings[b].slot)
         /\ r.to # r.user
         /\ r.to \in access
         /\ Count(r.to, WeekOf[bookings[b].slot]) < Limit
         /\ \A g \in GiftIds :
              ~(gifts[g].booking = b /\ gifts[g].status = "pending")
         /\ IdLeft(serial.gift, MaxGifts, {"giftInsert"})
         /\ Begin(p, r, {b}, "giftInsert")
    /\ UNCHANGED <<tables, setting, draft, held>>

\* The foreign keys make the INSERT wait for a locked booking, and fail
\* without a booking or without one of the two members.
GiftInsert(p) ==
  /\ pc[p] = "giftInsert"
  /\ LET b == req[p].booking IN
       /\ Free(p, {RowLock(b)})
       /\ \/ /\ Live(b) /\ {req[p].user, req[p].to} \subseteq members
             /\ gifts' = [gifts EXCEPT ![serial.gift] =
                            [booking |-> b, giver |-> req[p].user,
                             recipient |-> req[p].to, status |-> "pending"]]
             /\ serial' = [serial EXCEPT !.gift = @ + 1]
          \/ /\ ~(Live(b) /\ {req[p].user, req[p].to} \subseteq members)
             /\ UNCHANGED <<gifts, serial>>
  /\ Finish(p)
  /\ UNCHANGED <<bookings, swaps, setting>>

\* accept_gift_offer: the offer is pending and the recipient's; the booking is
\* the giver's still, or the offer ends cancelled; the slot is in the future,
\* or it ends expired; the recipient has access.
GiftAcceptStart(p) ==
  \E r \in Requests :
    /\ r.op = "giftAccept"
    /\ gifts[r.offer].status = "pending"
    /\ gifts[r.offer].recipient = r.user
    /\ LET b    == gifts[r.offer].booking
           kept == bookings[b].owner = gifts[r.offer].giver
           past == Past(bookings[b].slot)
       IN  \/ ~kept /\ Begin(p, r, {}, "giftCancelled")
           \/ kept /\ past /\ Begin(p, r, {b}, "giftExpired")
           \/ /\ kept /\ ~past /\ r.user \in access
              /\ Begin(p, r, {b}, "giftLimit")
    /\ UNCHANGED <<tables, setting, draft, held>>

\* Mutant of GiftLimit: the recipient's bookings are not counted again.
GiftLimitSkipped(p) ==
  /\ pc[p] = "giftLimit"
  /\ GoTo(p, "giftWrite")
  /\ UNCHANGED <<tables, setting, rows, draft, held>>

\* The recipient's limit, under the same lock as a booking. When the booking
\* is gone the transaction can only fail, at its write.
GiftLimit(p) ==
  /\ pc[p] = "giftLimit"
  /\ \E b \in rows[p] :
       \/ /\ Live(b)
          /\ LimitCheck(p, bookings[b].slot, "giftWrite")
          /\ UNCHANGED <<rows, draft>>
       \/ ~Live(b) /\ Finish(p)
  /\ UNCHANGED <<tables, setting>>

\* The flush: UPDATE by id of booking and offer. The owner is overwritten,
\* whoever it is by now; without one of the rows there is a StaleDataError.
GiftWrite(p) ==
  /\ pc[p] = "giftWrite"
  /\ \E b \in rows[p] :
       /\ Free(p, {RowLock(b)})
       /\ \/ /\ Live(b) /\ gifts[req[p].offer] # NoGift
             /\ bookings' = [bookings EXCEPT ![b].owner = req[p].user]
             /\ gifts' = [gifts EXCEPT ![req[p].offer].status = "accepted"]
          \/ /\ ~(Live(b) /\ gifts[req[p].offer] # NoGift)
             /\ UNCHANGED <<bookings, gifts>>
  /\ Finish(p)
  /\ UNCHANGED <<swaps, serial, setting>>

GiftDeclineStart(p) ==
  \E r \in Requests :
    /\ r.op = "giftDecline"
    /\ gifts[r.offer].status = "pending"
    /\ gifts[r.offer].recipient = r.user
    /\ Begin(p, r, {}, "giftDeclined")
    /\ UNCHANGED <<tables, setting, draft, held>>

\* The decisions that change the offer alone; a deleted offer fails the UPDATE.
Verdict == [giftCancelled |-> "cancelled", giftExpired |-> "expired",
            giftDeclined |-> "declined"]

\* Mutant of GiftClose: the offer's row is taken to be there.
GiftCloseBlind(p) ==
  /\ pc[p] \in DOMAIN Verdict
  /\ gifts' = [gifts EXCEPT ![req[p].offer].status = Verdict[pc[p]]]
  /\ Finish(p)
  /\ UNCHANGED <<bookings, swaps, serial, setting>>

GiftClose(p) ==
  /\ pc[p] \in DOMAIN Verdict
  /\ \/ /\ gifts[req[p].offer] # NoGift
        /\ gifts' = [gifts EXCEPT ![req[p].offer].status = Verdict[pc[p]]]
     \/ gifts[req[p].offer] = NoGift /\ UNCHANGED gifts
  /\ Finish(p)
  /\ UNCHANGED <<bookings, swaps, serial, setting>>
=============================================================================
