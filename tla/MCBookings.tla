----------------------------- MODULE MCBookings -----------------------------
(***************************************************************************)
(* Small instances of Bookings for TLC: the calendars and the requests of  *)
(* each run.                                                               *)
(***************************************************************************)
EXTENDS Bookings, TLC

CONSTANTS ann, ben

\* One week of two or three hours, and two weeks of one and two hours.
OneWeek  == [s \in Slots |-> 1]
Opens1   == [w \in Weeks |-> 0]
TwoWeeks == [s \in Slots |-> IF s = 1 THEN 1 ELSE 2]
Opens2   == [w \in Weeks |-> w - 1]
KeyEach  == [s \in Slots |-> s]
KeyOne   == [s \in Slots |-> 1]

MemberBooks  == [op : {"book"}, user : Users, slot : Slots, by : {"member"}]
AdminBooks   == [op : {"book"}, user : Users, slot : Slots, by : {"admin"}]
Cancels      == [op : {"cancel"}, user : Users, booking : BookingIds]
Removes      == [op : {"remove"}, booking : BookingIds]
GiftOffers   == [op : {"gift"}, user : Users, booking : BookingIds, to : Users]
GiftAnswers  == [op : {"giftAccept", "giftDecline"}, user : Users,
                 offer : GiftIds]
SwapOffers   == [op : {"swap"}, user : Users, mine : BookingIds,
                 theirs : BookingIds]
SwapAnswers  == [op : {"swapAccept", "swapDecline"}, user : Users,
                 offer : SwapIds]
WeeklySlots  == [op : {"reserve"}, key : Keys, by : {"panel", "command"}]
                  \cup [op : {"unreserve"}, key : Keys]
                  \cup [op : {"skip"}, slot : Slots]
Deletions    == [op : {"deleteUser"}, user : Users]
AccessChange == [op : {"allow", "revoke"}, user : {ben}]

\* Everything a member can do within one week.
LimitRequests == MemberBooks \cup Cancels \cup GiftOffers \cup GiftAnswers
                   \cup SwapOffers \cup SwapAnswers

\* Two members who swap with each other while an admin removes bookings and
\* deletes one of the members.
SwapRequests == [op : {"book"}, user : {ann}, slot : {1}, by : {"member"}]
  \cup [op : {"book"}, user : {ben}, slot : {2}, by : {"member"}]
  \cup {r \in Removes : r.booking < 3} \cup SwapOffers \cup SwapAnswers
  \cup {r \in Deletions : r.user = ben}

\* The admins' side: bookings, removals, weekly slots, access.
AdminRequests == {r \in AdminBooks : r.user = ben} \cup Removes \cup WeeklySlots
                   \cup AccessChange \cup Deletions

\* A cancellation that meets a swap.
CancelRaceRequests == MemberBooks \cup Cancels \cup SwapOffers \cup SwapAnswers

HandlerSymmetry == Permutations(Handlers)
=============================================================================
