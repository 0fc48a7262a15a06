---------------------------- MODULE BookingTable ----------------------------
(***************************************************************************)
(* The table of bookings as the two jobs meet it: rows with the columns    *)
(* that the jobs record, and everybody who changes rows meanwhile.         *)
(*                                                                         *)
(* A job keeps no lock between reading a row and writing it. What can      *)
(* happen to the row in between is stated here once for both jobs, and     *)
(* Bookings is shown to do nothing else to its bookings.                   *)
(***************************************************************************)
EXTENDS Integers

CONSTANTS
  Users, Nobody,  \* members with a Telegram account; no member
  Handlers,       \* concurrent handlers that may accept a gift
  Hours, DayOf,   \* hours of the room, numbered through the days; their date
  MaxBookings, Horizon  \* bounds: ids ever used, time

BookingIds == 1..MaxBookings

ASSUME TableAssumption ==
  /\ Nobody \notin Users
  /\ Hours \subseteq Nat \ {0}
  /\ MaxBookings \in Nat
  /\ Horizon \in Nat

VARIABLES
  bookings,  \* table: id -> row
  next,      \* next id
  time,      \* half hours
  accepting  \* what each handler that accepts a gift has read

tableVars == <<bookings, next, time, accepting>>

-----------------------------------------------------------------------------
(* Rows *)

\* The columns that the jobs and the location handler write.
Columns == {"hourly", "fifteen", "prompted", "reported", "verified"}

BookingRow == [hour : Hours, owner : Users, marks : SUBSET Columns]
NoBooking  == [hour |-> 0, owner |-> Nobody, marks |-> {}]

Acceptance   == [booking : BookingIds, to : Users, seen : SUBSET Columns]
NotAccepting == [booking |-> 0, to |-> Nobody, seen |-> {}]

Live(b)    == bookings[b] # NoBooking
Started(h) == 2 * h <= time

\* The bookings of u at hour h on the date of hour g: at most one.
At(u, h, g) ==
  {b \in BookingIds :
     /\ Live(b)
     /\ bookings[b].owner = u /\ bookings[b].hour = h
     /\ DayOf[h] = DayOf[g]}

\* The first booking of a chain of consecutive hours of a day.
FirstOfChain(b) ==
  \A h \in Hours : h + 1 = bookings[b].hour =>
    At(bookings[b].owner, h, bookings[b].hour) = {}

-----------------------------------------------------------------------------
(* Everybody who changes rows *)

\* date and hour are unique. An admin may book an hour that has started.
Book(u, h) ==
  /\ next <= MaxBookings
  /\ \A b \in BookingIds : bookings[b].hour # h
  /\ bookings' = [bookings EXCEPT ![next] =
                    [hour |-> h, owner |-> u, marks |-> {}]]
  /\ next' = next + 1
  /\ UNCHANGED accepting

\* A cancellation removes one booking, the weekly reset and the deletion of a
\* member a set of them.
Remove(B) ==
  /\ B # {} /\ \A b \in B : Live(b)
  /\ bookings' = [b \in BookingIds |-> IF b \in B THEN NoBooking
                                                  ELSE bookings[b]]
  /\ UNCHANGED <<next, accepting>>

\* accept_gift_offer reads the booking without a lock, while it is the
\* giver's and in the future.
AcceptStart(p, b, u) ==
  /\ accepting[p] = NotAccepting
  /\ Live(b) /\ ~Started(bookings[b].hour) /\ bookings[b].owner # u
  /\ accepting' = [accepting EXCEPT ![p] =
                     [booking |-> b, to |-> u, seen |-> bookings[b].marks]]
  /\ UNCHANGED <<bookings, next>>

\* Mutant of Cleared: the check-in columns are cleared by halves.
ClearedByHalves(seen) == seen \ {"reported", "verified"}

\* _reset_booking_attendance_for_gift clears every column of the object that
\* was read, and the flush writes those that differ from what was read.
Cleared(seen) == seen

\* The flush and the COMMIT, some awaits later.
AcceptWrite(p) ==
  LET b == accepting[p].booking IN
    /\ accepting[p] # NotAccepting /\ Live(b)
    /\ bookings' = [bookings EXCEPT
                      ![b].owner = accepting[p].to,
                      ![b].marks = @ \ Cleared(accepting[p].seen)]
    /\ accepting' = [accepting EXCEPT ![p] = NotAccepting]
    /\ UNCHANGED next

\* The limit is reached, the booking is gone, or the handler fails.
AcceptEnd(p) ==
  /\ accepting[p] # NotAccepting
  /\ accepting' = [accepting EXCEPT ![p] = NotAccepting]
  /\ UNCHANGED <<bookings, next>>

\* accept_swap_offer holds the rows it has read, but its transaction may end
\* after an hour has started. It clears the reminder columns alone.
Traded(b, u) ==
  [bookings[b] EXCEPT !.owner = u, !.marks = @ \ {"hourly", "fifteen"}]

Swap(b, c) ==
  /\ Live(b) /\ Live(c) /\ bookings[b].owner # bookings[c].owner
  /\ bookings' = [bookings EXCEPT ![b] = Traded(b, bookings[c].owner),
                                  ![c] = Traded(c, bookings[b].owner)]
  /\ UNCHANGED <<next, accepting>>

-----------------------------------------------------------------------------
(* Specification *)

TableInit ==
  /\ bookings = [b \in BookingIds |-> NoBooking]
  /\ next = 1
  /\ time = 0
  /\ accepting = [p \in Handlers |-> NotAccepting]

Members ==
  /\ \/ \E u \in Users, h \in Hours : Book(u, h)
     \/ \E B \in SUBSET BookingIds : Remove(B)
     \/ \E p \in Handlers, b \in BookingIds, u \in Users : AcceptStart(p, b, u)
     \/ \E p \in Handlers : AcceptWrite(p) \/ AcceptEnd(p)
     \/ \E b, c \in BookingIds : Swap(b, c)
  /\ UNCHANGED time

TimePasses ==
  /\ time' \in time + 1 .. Horizon
  /\ UNCHANGED <<bookings, next, accepting>>

TableNext == Members \/ TimePasses

TableSpec == TableInit /\ [][TableNext]_tableVars

\* The types of the table.
TableTypeOK ==
  /\ bookings \in [BookingIds -> BookingRow \cup {NoBooking}]
  /\ next \in 1..(MaxBookings + 1)
  /\ time \in Nat
  /\ accepting \in [Handlers -> Acceptance \cup {NotAccepting}]
=============================================================================
