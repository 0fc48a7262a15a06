--------------------------- MODULE CheckIn_proofs ---------------------------
(***************************************************************************)
(* For any number of members, handlers, hours, bookings and crashes: the   *)
(* columns that the geo job, the location handler, gifts and swaps write   *)
(* fit together, a prompt is repeated only at the cost of a crash or a     *)
(* lost answer, and who was prompted is verified or absent in time. The last section proves of  *)
(* the other job that writes to members about their bookings, the reminder *)
(* job, that it repeats a reminder only at the cost of a crash or a lost   *)
(* answer.                                                                 *)
(***************************************************************************)
EXTENDS CheckIn, Reminders, TLAPS

-----------------------------------------------------------------------------
(* The table *)

\* Ids are given out once, also to acceptances, and date and hour are unique.
Fresh ==
  /\ \A b \in BookingIds : Live(b) => b < next
  /\ \A p \in Handlers : accepting[p].booking < next

OnePerHour ==
  \A b, c \in BookingIds :
    Live(b) /\ Live(c) /\ bookings[b].hour = bookings[c].hour => b = c

TableInv == TableTypeOK /\ Fresh /\ OnePerHour

\* What the types say, in one place.
LEMMA TableTypes ==
  ASSUME TableTypeOK
  PROVE  /\ bookings \in [BookingIds -> BookingRow \cup {NoBooking}]
         /\ \A b \in BookingIds :
              /\ Live(b) <=> bookings[b] \in BookingRow
              /\ Live(b) => /\ bookings[b].hour \in Hours
                            /\ bookings[b].hour \in Nat
                            /\ bookings[b].owner \in Users
                            /\ bookings[b].marks \in SUBSET Columns
              /\ ~Live(b) => bookings[b] = NoBooking
         /\ next \in Nat /\ next \in 1..(MaxBookings + 1) /\ time \in Nat
         /\ accepting \in [Handlers -> Acceptance \cup {NotAccepting}]
         /\ \A h \in Hours : h \in Nat /\ h # 0
         /\ BookingIds \subseteq Nat /\ 0 \notin BookingIds
<1>1. NoBooking \notin BookingRow
  BY TableAssumption DEF NoBooking, BookingRow
<1>2. /\ next \in Nat /\ BookingIds \subseteq Nat /\ 0 \notin BookingIds
      /\ \A h \in Hours : h \in Nat /\ h # 0
  BY TableAssumption DEF TableTypeOK, BookingIds
<1>3. ASSUME NEW b \in BookingIds
      PROVE  /\ Live(b) <=> bookings[b] \in BookingRow
             /\ ~Live(b) => bookings[b] = NoBooking
  BY <1>1 DEF TableTypeOK, Live
<1>4. ASSUME NEW row \in BookingRow
      PROVE  /\ row.hour \in Hours /\ row.hour \in Nat
             /\ row.owner \in Users /\ row.marks \in SUBSET Columns
  BY <1>2 DEF BookingRow
<1>5. QED
  BY <1>2, <1>3, <1>4 DEF TableTypeOK

\* A row that is live after a step is a row.
LEMMA RowIsLive ==
  ASSUME NEW b \in BookingIds, bookings'[b] \in BookingRow
  PROVE  Live(b)'
BY TableAssumption DEF Live, NoBooking, BookingRow

\* What everybody else makes of a row: a new booking, a swapped one, or one
\* that handler p has accepted.
Entered(b) ==
  /\ b = next /\ next' = next + 1 /\ ~Live(b)
  /\ bookings'[b] \in BookingRow /\ bookings'[b].marks = {}
  /\ \A c \in BookingIds : bookings[c].hour # bookings'[b].hour
Exchanged(b) ==
  /\ Live(b)
  /\ bookings'[b] \in BookingRow /\ bookings'[b].hour = bookings[b].hour
  /\ bookings'[b].marks = bookings[b].marks \ {"hourly", "fifteen"}
Given(b, p) ==
  /\ Live(b) /\ accepting[p] \in Acceptance /\ accepting[p].booking = b
  /\ bookings'[b] \in BookingRow /\ bookings'[b].hour = bookings[b].hour
  /\ bookings'[b].marks = bookings[b].marks \ accepting[p].seen
  /\ \A q \in Handlers :
       accepting'[q] = IF q = p THEN NotAccepting ELSE accepting[q]

RowChange(b) ==
  \/ bookings'[b] = bookings[b]
  \/ bookings'[b] = NoBooking
  \/ Entered(b)
  \/ Exchanged(b)
  \/ \E p \in Handlers : Given(b, p)

\* Handler p reads booking b.
Reads(p, b) ==
  /\ accepting[p] = NotAccepting /\ bookings' = bookings /\ next' = next
  /\ Live(b) /\ ~Started(bookings[b].hour)
  /\ accepting'[p] \in Acceptance
  /\ accepting'[p].booking = b /\ accepting'[p].seen = bookings[b].marks
  /\ \A q \in Handlers \ {p} : accepting'[q] = accepting[q]

OfferChange(p) ==
  \/ accepting'[p] \in {accepting[p], NotAccepting}
  \/ \E b \in BookingIds : Reads(p, b)

\* Everything that members, admins and the weekly reset do.
LEMMA MemberChanges ==
  ASSUME TableInv, Members
  PROVE  /\ TableTypeOK'
         /\ time' = time /\ next' \in {next, next + 1}
         /\ \A b \in BookingIds : RowChange(b)
         /\ \A p \in Handlers : OfferChange(p)
<1> DEFINE Goal == /\ TableTypeOK'
                   /\ next' \in {next, next + 1}
                   /\ \A b \in BookingIds : RowChange(b)
                   /\ \A p \in Handlers : OfferChange(p)
<1>0. TableTypeOK /\ time' = time
  BY DEF TableInv, Members
<1>1. ASSUME NEW u \in Users, NEW h \in Hours, Book(u, h) PROVE Goal
  <2> DEFINE row == [hour |-> h, owner |-> u, marks |-> {}]
  <2>1. next \in BookingIds /\ next' = next + 1 /\ next' \in 1..(MaxBookings + 1)
    BY <1>0, <1>1, TableTypes, TableAssumption DEF Book, BookingIds
  <2>2. row \in BookingRow /\ row.marks = {} /\ row.hour = h
    BY DEF BookingRow
  <2>3. ~Live(next)
    BY <1>0, <2>1, TableTypes DEF TableInv, Fresh
  <2>4. bookings' = [bookings EXCEPT ![next] = row] /\ accepting' = accepting
    BY <1>1 DEF Book
  <2>5. \A b \in BookingIds :
          bookings'[b] = IF b = next THEN row ELSE bookings[b]
    BY <1>0, <2>4, TableTypes
  <2>6. bookings' \in [BookingIds -> BookingRow \cup {NoBooking}]
    BY <1>0, <2>1, <2>2, <2>4, TableTypes
  <2>7. Entered(next)
    BY <1>1, <2>1, <2>2, <2>3, <2>5 DEF Book, Entered
  <2> HIDE DEF row
  <2>8. QED
    BY <1>0, <2>1, <2>4, <2>5, <2>6, <2>7 DEF TableTypeOK, RowChange, OfferChange
<1>2. ASSUME NEW B \in SUBSET BookingIds, Remove(B) PROVE Goal
  <2>1. UNCHANGED <<next, accepting>>
    BY <1>2 DEF Remove
  <2>2. \A b \in BookingIds : bookings'[b] \in {bookings[b], NoBooking}
    BY <1>2 DEF Remove
  <2>3. bookings' \in [BookingIds -> BookingRow \cup {NoBooking}]
    BY <1>0, <1>2, TableTypes DEF Remove
  <2>4. QED
    BY <1>0, <2>1, <2>2, <2>3 DEF TableTypeOK, RowChange, OfferChange
<1>3. ASSUME NEW p \in Handlers, NEW b \in BookingIds, NEW u \in Users,
             AcceptStart(p, b, u)
      PROVE  Goal
  <2> DEFINE a == [booking |-> b, to |-> u, seen |-> bookings[b].marks]
  <2>1. a \in Acceptance /\ a.booking = b /\ a.seen = bookings[b].marks
    BY <1>0, <1>3, TableTypes DEF AcceptStart, Acceptance
  <2>2. accepting' = [accepting EXCEPT ![p] = a] /\ UNCHANGED <<bookings, next>>
    BY <1>3 DEF AcceptStart
  <2> HIDE DEF a
  <2>3. accepting' \in [Handlers -> Acceptance \cup {NotAccepting}]
        /\ accepting'[p] = a /\ \A q \in Handlers \ {p} : accepting'[q] = accepting[q]
    BY <1>0, <2>1, <2>2, TableTypes
  <2>4. Reads(p, b)
    BY <1>3, <2>1, <2>2, <2>3 DEF AcceptStart, Reads
  <2>5. QED
    BY <1>0, <2>2, <2>3, <2>4 DEF TableTypeOK, RowChange, OfferChange
<1>4. ASSUME NEW p \in Handlers, AcceptWrite(p) PROVE Goal
  <2> DEFINE a == accepting[p]
             b == a.booking
  <2>1. /\ a \in Acceptance /\ b \in BookingIds /\ Live(b)
        /\ a.to \in Users /\ a.seen \in SUBSET Columns
    BY <1>0, <1>4, TableTypes DEF AcceptWrite, Acceptance
  <2>2. /\ bookings' = [bookings EXCEPT ![b].owner = a.to,
                                        ![b].marks = @ \ a.seen]
        /\ accepting' = [accepting EXCEPT ![p] = NotAccepting]
        /\ UNCHANGED next
    BY <1>4 DEF AcceptWrite, Cleared
  <2> HIDE DEF a, b
  <2>3. /\ \A c \in BookingIds \ {b} : bookings'[c] = bookings[c]
        /\ bookings'[b] = [bookings[b] EXCEPT !.owner = a.to,
                                              !.marks = @ \ a.seen]
    BY <1>0, <2>1, <2>2, TableTypes
  <2>4. /\ bookings'[b] \in BookingRow
        /\ bookings'[b].hour = bookings[b].hour
        /\ bookings'[b].marks = bookings[b].marks \ a.seen
    BY <1>0, <2>1, <2>3, TableTypes, ZenonT(60) DEF BookingRow
  <2>5. /\ bookings' \in [BookingIds -> BookingRow \cup {NoBooking}]
        /\ accepting' \in [Handlers -> Acceptance \cup {NotAccepting}]
        /\ \A q \in Handlers :
             accepting'[q] = IF q = p THEN NotAccepting ELSE accepting[q]
    BY <1>0, <2>1, <2>2, <2>4, TableTypes
  <2>6. Given(b, p)
    BY <2>1, <2>4, <2>5 DEF Given, a, b
  <2>7. QED
    BY <1>0, <2>2, <2>3, <2>5, <2>6 DEF TableTypeOK, RowChange, OfferChange
<1>5. ASSUME NEW p \in Handlers, AcceptEnd(p) PROVE Goal
  <2>1. UNCHANGED <<bookings, next>>
        /\ accepting' = [accepting EXCEPT ![p] = NotAccepting]
    BY <1>5 DEF AcceptEnd
  <2>2. accepting' \in [Handlers -> Acceptance \cup {NotAccepting}]
        /\ \A q \in Handlers : accepting'[q] \in {accepting[q], NotAccepting}
    BY <1>0, <2>1, TableTypes
  <2>3. QED
    BY <1>0, <2>1, <2>2 DEF TableTypeOK, RowChange, OfferChange
<1>6. ASSUME NEW b \in BookingIds, NEW c \in BookingIds, Swap(b, c) PROVE Goal
  <2> DEFINE x == Traded(b, bookings[c].owner)
             y == Traded(c, bookings[b].owner)
  <2>1. /\ b # c /\ Live(b) /\ Live(c) /\ UNCHANGED <<next, accepting>>
        /\ bookings' = [bookings EXCEPT ![b] = x, ![c] = y]
    BY <1>6 DEF Swap
  <2>2. /\ x \in BookingRow /\ x.hour = bookings[b].hour
        /\ x.marks = bookings[b].marks \ {"hourly", "fifteen"}
        /\ y \in BookingRow /\ y.hour = bookings[c].hour
        /\ y.marks = bookings[c].marks \ {"hourly", "fifteen"}
    BY <1>0, <2>1, TableTypes DEF Traded, BookingRow
  <2> HIDE DEF x, y
  <2>3. /\ \A d \in BookingIds \ {b, c} : bookings'[d] = bookings[d]
        /\ bookings'[b] = x /\ bookings'[c] = y
        /\ bookings' \in [BookingIds -> BookingRow \cup {NoBooking}]
    BY <1>0, <2>1, <2>2, TableTypes
  <2>4. Exchanged(b) /\ Exchanged(c)
    BY <2>1, <2>2, <2>3 DEF Exchanged
  <2>5. QED
    BY <1>0, <2>1, <2>3, <2>4 DEF TableTypeOK, RowChange, OfferChange
<1>7. QED
  BY <1>0, <1>1, <1>2, <1>3, <1>4, <1>5, <1>6 DEF Members

\* The invariant of the table is kept, whoever else writes columns of rows:
\* every row was there before, at the same hour, or is a new one.
LEMMA TableKept ==
  ASSUME TableInv, TableTypeOK', next' \in {next, next + 1},
         \A b \in BookingIds :
           \/ bookings'[b] = NoBooking
           \/ Live(b) /\ bookings'[b].hour = bookings[b].hour
           \/ Entered(b),
         \A p \in Handlers :
           \/ accepting'[p] \in {accepting[p], NotAccepting}
           \/ \E b \in BookingIds : Reads(p, b)
  PROVE  TableInv'
<1>1. /\ next \in Nat /\ next' \in Nat /\ next <= next'
      /\ next # 0 /\ BookingIds \subseteq Nat
  BY TableTypes DEF TableInv
<1>2. ASSUME NEW b \in BookingIds, Live(b)'
      PROVE  \/ Live(b) /\ bookings'[b].hour = bookings[b].hour
             \/ Entered(b)
  BY <1>2 DEF Live, NoBooking
<1>3. ASSUME NEW b \in BookingIds, Live(b)' PROVE b < next'
  BY <1>1, <1>2, <1>3 DEF TableInv, Fresh, Entered
<1>4. ASSUME NEW p \in Handlers PROVE accepting'[p].booking < next'
  <2>1. accepting[p].booking < next /\ accepting[p].booking \in Nat
    <3>1. accepting[p] \in Acceptance \/ accepting[p] = NotAccepting
      BY TableTypes DEF TableInv
    <3>2. accepting[p].booking \in Nat
      BY <1>1, <3>1 DEF Acceptance, NotAccepting
    <3>3. QED
      BY <3>2 DEF TableInv, Fresh
  <2>2. NotAccepting.booking = 0
    BY DEF NotAccepting
  <2>3. ASSUME NEW b \in BookingIds, Reads(p, b) PROVE accepting'[p].booking < next'
    BY <1>1, <2>3 DEF Reads, TableInv, Fresh
  <2>4. QED
    BY <1>1, <2>1, <2>2, <2>3
<1>5. ASSUME NEW b \in BookingIds, NEW c \in BookingIds, Live(b)', Live(c)',
             bookings'[b].hour = bookings'[c].hour
      PROVE  b = c
  BY <1>2, <1>5 DEF TableInv, OnePerHour, Entered
<1>6. QED
  BY <1>3, <1>4, <1>5 DEF TableInv, Fresh, OnePerHour

LEMMA MembersKeepTable ==
  ASSUME TableInv, Members
  PROVE  TableInv'
<1>1. \A b \in BookingIds :
        \/ bookings'[b] = NoBooking
        \/ Live(b) /\ bookings'[b].hour = bookings[b].hour
        \/ Entered(b)
  BY MemberChanges DEF RowChange, Live, Exchanged, Given
<1>2. QED
  BY <1>1, MemberChanges, TableKept DEF OfferChange

\* A step that leaves the table alone.
LEMMA TableStays ==
  ASSUME TableInv, bookings' = bookings, next' = next, accepting' = accepting,
         time' \in Nat
  PROVE  TableInv'
BY DEF TableInv, TableTypeOK, Fresh, OnePerHour, Live
-----------------------------------------------------------------------------
(* Check-in: rows *)

\* Nobody who is about to take booking b up has read a result on it.
Untouched(b) ==
  \A p \in Handlers :
    accepting[p].booking = b => "reported" \notin accepting[p].seen

\* The hour of b has started: nobody begins to accept it any more.
Held(b) ==
  Live(b) => Started(bookings[b].hour) /\ (b \notin raced => Untouched(b))

\* A result stands on b.
Recorded(b) == Live(b) /\ b \notin raced => Has(b, "reported")

\* The columns of a booking, and what a handler may have read of them.
RowKnown(b) ==
  /\ Has(b, "reported") => Has(b, "prompted")
  /\ Live(b) /\ Has(b, "prompted") /\ ~Has(b, "reported") =>
       Started(bookings[b].hour)
  /\ b \notin raced /\ Has(b, "verified") => Has(b, "reported")
  /\ b \notin raced /\ Live(b) /\ ~Has(b, "reported") => Untouched(b)

\* What a handler has read of a booking that it alone accepts.
SeenKnown(b, seen) ==
  /\ "verified" \in seen => "reported" \in seen
  /\ "reported" \in seen /\ Has(b, "verified") => "verified" \in seen

\* The result of a booking is read together with its prompt.
OfferKnown(p) ==
  /\ "prompted" \in accepting[p].seen <=> "reported" \in accepting[p].seen
  /\ accepting[p].booking \in BookingIds \ raced =>
       SeenKnown(accepting[p].booking, accepting[p].seen)

\* One handler at a time accepts a booking outside raced.
Alone(b) ==
  \A p, q \in Handlers :
    accepting[p].booking = b /\ accepting[q].booking = b => p = q

\* Counters belong to bookings whose hour has started.
CountKnown(b) ==
  /\ asked[b] > 0 => b < next /\ Held(b)
  /\ charged[b] > 0 => b < next /\ Held(b) /\ Recorded(b)

\* Where a job at work is.
GeoKnown ==
  /\ geo.now <= time
  /\ geo.at \in {"send", "mark", "absent", "warn"} =>
       geo.booking < next /\ Held(geo.booking)
  /\ geo.at = "warn" => Recorded(geo.booking)
  /\ geo.at = "send" /\ geo.booking \notin raced => asked[geo.booking] <= faults
  /\ geo.at \in {"absent", "warn"} => geo.left > 0
  /\ geo.at = "absent" => geo.booking \in geo.chain

\* Where a location handler at work is.
LocKnown(u) ==
  /\ loc[u].at # "idle" => loc[u].booking < next /\ Held(loc[u].booking)
  /\ loc[u].at = "warn" => Recorded(loc[u].booking)

Marking(b) == geo.at = "mark" /\ geo.booking = b

\* A booking that is neither marked as prompted nor about to be has had its
\* prompts forgotten by crashes or lost answers.
Paid ==
  \A b \in BookingIds \ raced :
    /\ asked[b] <= faults + 1
    /\ Live(b) /\ ~Has(b, "prompted") /\ ~Marking(b) => asked[b] <= faults

IInv ==
  /\ TableInv /\ TypeOK
  /\ \A b \in BookingIds : RowKnown(b) /\ CountKnown(b)
  /\ \A b \in BookingIds \ raced : Alone(b)
  /\ \A p \in Handlers : OfferKnown(p)
  /\ \A u \in Users : LocKnown(u)
  /\ GeoKnown /\ Paid

\* The empty table satisfies the invariant.
LEMMA InitHolds == Init => IInv
<1> SUFFICES ASSUME Init PROVE IInv
  OBVIOUS
<1>1. /\ bookings = [b \in BookingIds |-> NoBooking] /\ next = 1 /\ time = 0
      /\ accepting = [p \in Handlers |-> NotAccepting]
      /\ NotAccepting.booking = 0 /\ NotAccepting.seen = {}
      /\ NoBooking.marks = {} /\ BookingIds \subseteq Nat /\ 0 \notin BookingIds
  BY TableAssumption DEF Init, TableInit, NotAccepting, NoBooking, BookingIds
<1>2. TableInv
  BY <1>1, TableAssumption
     DEF TableInv, TableTypeOK, Fresh, OnePerHour, Live, BookingIds
<1>3. TypeOK
  BY <1>2, CheckInAssumption DEF Init, TableInv, TypeOK, Idle
<1>4. /\ \A b \in BookingIds : RowKnown(b) /\ CountKnown(b) /\ ~Live(b)
      /\ \A p \in Handlers : OfferKnown(p)
      /\ \A b \in BookingIds \ raced : Alone(b)
  BY <1>1 DEF Init, RowKnown, CountKnown, OfferKnown, Alone, Has, Live
<1>5. (\A u \in Users : LocKnown(u)) /\ GeoKnown /\ Paid
  BY <1>1, <1>4, CheckInAssumption DEF Init, LocKnown, GeoKnown, Paid, Idle, Quiet
<1>6. QED
  BY <1>2, <1>3, <1>4, <1>5 DEF IInv

\* What the types say, in one place.
LEMMA Types ==
  ASSUME IInv
  PROVE  /\ TableInv /\ TableTypeOK
         /\ geo \in Run \cup {Idle} /\ Idle.at = "idle"
         /\ geo.at # "idle" => geo \in Run
         /\ geo \in Run => geo.now \in Nat /\ geo.left \in 0..2
         /\ geo.at \in {"send", "mark", "absent", "warn"} =>
              geo \in Run /\ geo.booking \in BookingIds
         /\ loc \in [Users -> [at : {"verify", "late", "warn"},
                               booking : BookingIds] \cup {Quiet}]
         /\ \A u \in Users : loc[u].at # "idle" => loc[u].booking \in BookingIds
         /\ asked \in [BookingIds -> Nat] /\ charged \in [BookingIds -> Nat]
         /\ faults \in Nat /\ faults \in 0..MaxFaults
         /\ missed \in Nat /\ missed \in 0..(MaxMissed + 1)
         /\ raced \subseteq BookingIds /\ late \subseteq Users
<1>1. Idle.at = "idle" /\ Quiet.at = "idle"
  BY DEF Idle, Quiet
<1>2. geo \in Run => /\ geo.now \in Nat /\ geo.left \in 0..2
                     /\ geo.booking \in BookingIds \cup {0}
  BY DEF Run
<1>3. \A u \in Users : loc[u].at # "idle" => loc[u].booking \in BookingIds
  BY <1>1 DEF IInv, TypeOK
<1>4. faults \in Nat /\ missed \in Nat
  BY CheckInAssumption DEF IInv, TypeOK
<1>5. QED
  BY <1>1, <1>2, <1>3, <1>4 DEF IInv, TypeOK

\* The job or a handler records something on booking b.
Noted(b) ==
  /\ Live(b) /\ bookings'[b] \in BookingRow
  /\ bookings'[b].hour = bookings[b].hour
  /\ bookings'[b].owner = bookings[b].owner
  /\ bookings[b].marks \ {"verified"} \subseteq bookings'[b].marks
  /\ "prompted" \in bookings'[b].marks
  /\ \/ "reported" \in bookings'[b].marks
     \/ /\ GeoMark /\ b = geo.booking
        /\ "verified" \in bookings'[b].marks => Has(b, "verified")
  /\ "verified" \in bookings'[b].marks /\ ~Has(b, "verified") /\ b \notin raced =>
       Untouched(b)

\* Columns are set on the rows that are there.
LEMMA RecordRows ==
  ASSUME TableTypeOK, NEW B \in SUBSET BookingIds, NEW C \in SUBSET Columns,
         Record(B, C)
  PROVE  /\ bookings' \in [BookingIds -> BookingRow \cup {NoBooking}]
         /\ \A b \in BookingIds :
              \/ bookings'[b] = bookings[b] /\ ~(b \in B /\ Live(b))
              \/ /\ b \in B /\ Live(b) /\ bookings'[b] \in BookingRow
                 /\ bookings'[b].hour = bookings[b].hour
                 /\ bookings'[b].owner = bookings[b].owner
                 /\ bookings'[b].marks = bookings[b].marks \cup C
<1>1. \A b \in BookingIds :
        bookings'[b] = IF b \in B /\ Live(b)
                       THEN [bookings[b] EXCEPT !.marks = @ \cup C]
                       ELSE bookings[b]
  BY DEF Record
<1>2. ASSUME NEW b \in BookingIds, b \in B, Live(b)
      PROVE  /\ bookings'[b] \in BookingRow
             /\ bookings'[b].hour = bookings[b].hour
             /\ bookings'[b].owner = bookings[b].owner
             /\ bookings'[b].marks = bookings[b].marks \cup C
  <2>1. bookings[b] \in BookingRow
    BY <1>2, TableTypes
  <2>2. bookings'[b] = [bookings[b] EXCEPT !.marks = @ \cup C]
    BY <1>1, <1>2
  <2>3. QED
    BY <2>1, <2>2 DEF BookingRow
<1>3. bookings' \in [BookingIds -> BookingRow \cup {NoBooking}]
  <2>1. bookings' = [b \in BookingIds |-> bookings'[b]]
    BY DEF Record
  <2>2. \A b \in BookingIds : bookings'[b] \in BookingRow \cup {NoBooking}
    BY <1>1, <1>2, TableTypes
  <2>3. QED
    BY <2>1, <2>2
<1>4. QED
  BY <1>1, <1>2, <1>3

\* So they are noted, a verification where no result has been read.
LEMMA RecordedRows ==
  ASSUME TableTypeOK, NEW B \in SUBSET BookingIds, NEW C \in SUBSET Columns,
         Record(B, C), "prompted" \in C,
         \/ "reported" \in C
         \/ GeoMark /\ B = {geo.booking} /\ "verified" \notin C,
         "verified" \in C => \A b \in B \ raced : Untouched(b)
  PROVE  /\ bookings' \in [BookingIds -> BookingRow \cup {NoBooking}]
         /\ \A b \in BookingIds : bookings'[b] = bookings[b] \/ Noted(b)
<1>0. /\ bookings' \in [BookingIds -> BookingRow \cup {NoBooking}]
      /\ \A b \in BookingIds :
           \/ bookings'[b] = bookings[b]
           \/ /\ b \in B /\ Live(b) /\ bookings'[b] \in BookingRow
              /\ bookings'[b].hour = bookings[b].hour
              /\ bookings'[b].owner = bookings[b].owner
              /\ bookings'[b].marks = bookings[b].marks \cup C
  BY RecordRows, ZenonT(60)
<1>1. ASSUME NEW b \in BookingIds
      PROVE  bookings'[b] = bookings[b] \/ Noted(b)
  <2>1. CASE bookings'[b] = bookings[b]
    BY <2>1
  <2>2. CASE /\ b \in B /\ Live(b) /\ bookings'[b] \in BookingRow
             /\ bookings'[b].hour = bookings[b].hour
             /\ bookings'[b].owner = bookings[b].owner
             /\ bookings'[b].marks = bookings[b].marks \cup C
    <3>1. "prompted" \in bookings'[b].marks
          /\ bookings[b].marks \ {"verified"} \subseteq bookings'[b].marks
      BY <2>2
    <3>2. \/ "reported" \in bookings'[b].marks
          \/ /\ GeoMark /\ b = geo.booking
             /\ "verified" \in bookings'[b].marks => Has(b, "verified")
      BY <2>2 DEF Has
    <3>3. "verified" \in bookings'[b].marks /\ ~Has(b, "verified") /\ b \notin raced =>
            Untouched(b)
      BY <2>2 DEF Has
    <3>4. QED
      BY <2>2, <3>1, <3>2, <3>3 DEF Noted
  <2>3. QED
    BY <1>0, <2>1, <2>2
<1>2. QED
  BY <1>0, <1>1

\* Every step that records something.
RecordStep ==
  GeoMark \/ GeoAbsent \/ \E u \in Users : LocVerify(u) \/ LocAbsent(u)

LEMMA RecordNotes ==
  ASSUME IInv, RecordStep
  PROVE  /\ bookings' \in [BookingIds -> BookingRow \cup {NoBooking}]
         /\ \A b \in BookingIds : bookings'[b] = bookings[b] \/ Noted(b)
<1> DEFINE Goal == /\ bookings' \in [BookingIds -> BookingRow \cup {NoBooking}]
                   /\ \A b \in BookingIds : bookings'[b] = bookings[b] \/ Noted(b)
<1>0. TableTypeOK /\ bookings \in [BookingIds -> BookingRow \cup {NoBooking}]
  BY Types, TableTypes
<1>1. CASE GeoMark
  <2>1. geo.booking \in BookingIds /\ Record({geo.booking}, {"prompted"})
    BY <1>1, Types DEF GeoMark
  <2>2. {geo.booking} \in SUBSET BookingIds /\ {"prompted"} \in SUBSET Columns
    BY <2>1 DEF Columns
  <2>3. QED
    BY <1>0, <1>1, <2>1, <2>2, RecordedRows
<1>2. CASE GeoAbsent
  <2>1. ASSUME NEW b \in BookingIds, b \in geo.chain, Live(b)
        PROVE  Noted(b)
    <3>1. bookings'[b] = [bookings[b] EXCEPT
            !.marks = (@ \ Unverified(b)) \cup {"prompted", "reported"}]
      BY <1>2, <2>1 DEF GeoAbsent
    <3>2. bookings[b] \in BookingRow /\ Unverified(b) \subseteq {"verified"}
      BY <1>0, <2>1, TableTypes DEF Unverified
    <3>3. /\ bookings'[b] \in BookingRow
          /\ bookings'[b].hour = bookings[b].hour
          /\ bookings'[b].owner = bookings[b].owner
          /\ bookings'[b].marks =
               (bookings[b].marks \ Unverified(b)) \cup {"prompted", "reported"}
      BY <3>1, <3>2 DEF BookingRow, Columns
    <3>4. QED
      BY <2>1, <3>2, <3>3 DEF Noted, Has
  <2>2. \A b \in BookingIds : ~(b \in geo.chain /\ Live(b)) =>
          bookings'[b] = bookings[b]
    BY <1>2 DEF GeoAbsent
  <2>3. \A b \in BookingIds : bookings'[b] \in BookingRow \cup {NoBooking}
    BY <1>0, <2>1, <2>2 DEF Noted
  <2>4. bookings' = [b \in BookingIds |-> bookings'[b]]
    BY <1>2 DEF GeoAbsent
  <2>5. bookings' \in [BookingIds -> BookingRow \cup {NoBooking}]
    BY <2>3, <2>4
  <2>6. QED
    BY <2>1, <2>2, <2>5
<1>3. ASSUME NEW u \in Users, LocVerify(u) PROVE Goal
  <2> DEFINE d == loc[u].booking
  <2>1. d \in BookingIds /\ Held(d)
    BY <1>3, Types DEF LocVerify, IInv, LocKnown
  <2>2. CASE bookings' = bookings
    BY <1>0, <2>2
  <2>3. CASE /\ IsStill(d, u)
             /\ Record({d} \cup Followers(d, u),
                       {"prompted", "reported", "verified"})
    <3>1. /\ {d} \cup Followers(d, u) \in SUBSET BookingIds
          /\ {"prompted", "reported", "verified"} \in SUBSET Columns
      BY <2>1 DEF Followers, Columns
    <3>2. ASSUME NEW b \in {d} \cup Followers(d, u), b \notin raced
          PROVE  Untouched(b)
      <4>1. CASE b = d
        BY <2>1, <2>3, <3>2, <4>1 DEF Held, IsStill
      <4>2. CASE b \in Followers(d, u)
        <5>1. PICK h \in Hours :
                /\ h > bookings[d].hour
                /\ b \in At(u, h, bookings[d].hour)
                /\ \A g \in bookings[d].hour + 1 .. h :
                     \E c \in At(u, g, bookings[d].hour) : ~Has(c, "reported")
          BY <4>2 DEF Followers
        <5>2. h \in bookings[d].hour + 1 .. h
          BY <1>0, <2>1, <2>3, <5>1, TableTypes DEF IsStill
        <5>3. PICK c \in At(u, h, bookings[d].hour) : ~Has(c, "reported")
          BY <5>1, <5>2
        <5>4. c = b /\ b \in BookingIds /\ Live(b)
          BY <5>1, <5>3 DEF At, IInv, TableInv, OnePerHour
        <5>5. QED
          BY <3>2, <5>3, <5>4 DEF IInv, RowKnown
      <4>3. QED
        BY <4>1, <4>2
    <3>3. QED
      BY <1>0, <2>3, <3>1, <3>2, RecordedRows
  <2>4. QED
    BY <1>3, <2>2, <2>3 DEF LocVerify
<1>4. ASSUME NEW u \in Users, LocAbsent(u) PROVE Goal
  <2> DEFINE d == loc[u].booking
  <2>1. d \in BookingIds
    BY <1>4, Types DEF LocAbsent
  <2>2. CASE bookings' = bookings
    BY <1>0, <2>2
  <2>3. CASE Record({d}, {"prompted", "reported"})
    <3>1. {d} \in SUBSET BookingIds /\ {"prompted", "reported"} \in SUBSET Columns
      BY <2>1 DEF Columns
    <3>2. QED
      BY <1>0, <2>3, <3>1, RecordedRows
  <2>4. QED
    BY <1>4, <2>2, <2>3 DEF LocAbsent
<1>5. QED
  BY <1>1, <1>2, <1>3, <1>4 DEF RecordStep
\* What every step makes of rows, of acceptances, and of the history.
LEMMA RowStep ==
  ASSUME IInv, [Next]_vars
  PROVE  /\ TableInv' /\ next' \in {next, next + 1}
         /\ time \in Nat /\ time' \in Nat /\ time <= time'
         /\ raced \subseteq raced' /\ late \subseteq late'
         /\ raced' \subseteq BookingIds /\ late' \subseteq Users
         /\ \A b \in BookingIds : RowChange(b) \/ Noted(b)
         /\ \A p \in Handlers : OfferChange(p)
         /\ \A b \in BookingIds \ raced' : Alone(b)'
         /\ \A b \in BookingIds :
              bookings'[b].owner # bookings[b].owner /\ Live(b)'
                /\ 2 * bookings'[b].hour <= time' => bookings'[b].owner \in late'
<1>0. TableInv /\ time \in Nat /\ raced \subseteq BookingIds /\ late \subseteq Users
  BY Types, TableTypes
<1>1. CASE Change
  <2>1. /\ TableInv' /\ time' = time /\ next' \in {next, next + 1}
        /\ \A b \in BookingIds : RowChange(b)
        /\ \A p \in Handlers : OfferChange(p)
    BY <1>0, <1>1, MemberChanges, MembersKeepTable DEF Change
  <2>2. /\ raced' = raced \cup Contested' /\ late' = late \cup Latecomers
    BY <1>1 DEF Change
  <2>3. \A b \in BookingIds \ raced' : Alone(b)'
    BY <2>2 DEF Contested, Alone
  <2>4. raced' \subseteq BookingIds /\ late' \subseteq Users
    BY <1>0, <2>2 DEF Contested, Latecomers
  <2>5. ASSUME NEW b \in BookingIds, bookings'[b].owner # bookings[b].owner,
               Live(b)', 2 * bookings'[b].hour <= time'
        PROVE  bookings'[b].owner \in late'
    <3>1. bookings'[b].owner \in Users
      BY <2>1, <2>5 DEF TableInv, TableTypeOK, Live, BookingRow
    <3>2. Started(bookings'[b].hour)
      BY <2>1, <2>5 DEF Started
    <3>3. QED
      BY <2>2, <2>5, <3>1, <3>2 DEF Latecomers
  <2>6. QED
    BY <1>0, <2>1, <2>2, <2>3, <2>4, <2>5
<1>2. CASE RecordStep
  <2>1. UNCHANGED <<next, time, accepting, history>>
    BY <1>2 DEF RecordStep, GeoMark, GeoAbsent, LocVerify, LocAbsent
  <2>2. UNCHANGED <<raced, late>>
    BY <2>1 DEF history
  <2>3. /\ bookings' \in [BookingIds -> BookingRow \cup {NoBooking}]
        /\ \A b \in BookingIds : bookings'[b] = bookings[b] \/ Noted(b)
    BY <1>2, RecordNotes
  <2>4. \A b \in BookingIds :
          \/ bookings'[b] = NoBooking
          \/ Live(b) /\ bookings'[b].hour = bookings[b].hour
    BY <2>3 DEF Noted, Live
  <2>5. TableTypeOK'
    BY <1>0, <2>1, <2>3 DEF TableInv, TableTypeOK
  <2>6. TableInv'
    BY <1>0, <2>1, <2>4, <2>5, TableKept
  <2>7. \A b \in BookingIds \ raced' : Alone(b)'
    BY <2>1, <2>2 DEF IInv, Alone
  <2>8. \A b \in BookingIds : bookings'[b].owner = bookings[b].owner
    BY <2>3 DEF Noted
  <2>9. QED
    BY <1>0, <2>1, <2>2, <2>3, <2>6, <2>7, <2>8 DEF RowChange, OfferChange
<1>3. CASE Tick \/ UNCHANGED <<tableVars, history>>
  <2>1. /\ UNCHANGED <<bookings, next, accepting, raced, late>>
        /\ time' \in Nat /\ time <= time'
    BY <1>0, <1>3 DEF Tick, history, tableVars
  <2>2. TableInv'
    BY <1>0, <2>1, TableStays
  <2>3. \A b \in BookingIds \ raced' : Alone(b)'
    BY <2>1 DEF IInv, Alone
  <2>4. QED
    BY <1>0, <2>1, <2>2, <2>3 DEF RowChange, OfferChange
<1>4. QED
  <2>1. CASE Geo \/ Crash
    BY <1>2, <1>3, <2>1
       DEF Geo, RecordStep, GeoStart, GeoSend, GeoExpire, GeoWarn, GeoDone, Crash
  <2>2. ASSUME NEW u \in Users, Loc(u)
        PROVE  RecordStep \/ UNCHANGED <<tableVars, history>>
    BY <2>2 DEF Loc, RecordStep, LocStart, LocWarn
  <2>3. CASE UNCHANGED vars
    BY <1>3, <2>3 DEF vars
  <2>4. QED
    BY <1>1, <1>2, <1>3, <2>1, <2>2, <2>3 DEF Next

\* What the types say of a row after the step.
LEMMA RowAfter ==
  ASSUME TableInv, TableInv', NEW b \in BookingIds
  PROVE  /\ b \in Nat /\ next \in Nat /\ next' \in Nat
         /\ Live(b) => /\ bookings[b] \in BookingRow /\ bookings[b].hour \in Nat
                       /\ bookings[b].owner \in Users /\ b < next
         /\ ~Live(b) => bookings[b] = NoBooking
         /\ Live(b)' => /\ bookings'[b] \in BookingRow /\ bookings'[b].hour \in Nat
                        /\ bookings'[b].owner \in Users /\ b < next'
         /\ ~Live(b)' => bookings'[b] = NoBooking
<1>1. /\ b \in Nat /\ next \in Nat /\ next' \in Nat
      /\ \A h \in Hours : h \in Nat
  BY TableAssumption DEF TableInv, TableTypeOK, BookingIds
<1>2. QED
  BY <1>1 DEF TableInv, TableTypeOK, Fresh, Live, BookingRow

\* Whose hour has started keeps what stands on it until it is deleted.
LEMMA HeldStays ==
  ASSUME IInv, [Next]_vars, NEW b \in BookingIds, b < next, Held(b)
  PROVE  /\ b < next' /\ Held(b)'
         /\ Live(b)' => Live(b) /\ bookings'[b].hour = bookings[b].hour
         /\ Recorded(b) => Recorded(b)'
<1>1. /\ TableInv /\ TableInv' /\ time \in Nat /\ time' \in Nat /\ time <= time'
      /\ raced \subseteq raced' /\ next' \in {next, next + 1}
      /\ RowChange(b) \/ Noted(b)
      /\ \A p \in Handlers : OfferChange(p)
  BY Types, RowStep
<1>2. b < next'
  BY <1>1, RowAfter
<1>3. Live(b)' => Live(b) /\ bookings'[b].hour = bookings[b].hour
  BY <1>1, RowAfter DEF RowChange, Noted, Entered, Exchanged, Given, Live
<1>4. ASSUME Live(b)' PROVE Started(bookings[b].hour) /\ Started(bookings[b].hour)'
  BY <1>1, <1>3, <1>4, RowAfter DEF Held, Started
<1>5. ASSUME Live(b)', b \notin raced' PROVE Untouched(b)'
  <2>1. Untouched(b)
    BY <1>1, <1>3, <1>5 DEF Held
  <2>2. ASSUME NEW p \in Handlers, accepting'[p].booking = b
        PROVE  "reported" \notin accepting'[p].seen
    <3>1. CASE accepting'[p] = accepting[p]
      BY <2>1, <2>2, <3>1 DEF Untouched
    <3>2. CASE accepting'[p] = NotAccepting
      BY <3>2 DEF NotAccepting
    <3>3. ASSUME NEW c \in BookingIds, Reads(p, c) PROVE FALSE
      BY <1>4, <1>5, <2>2, <3>3 DEF Reads
    <3>4. QED
      BY <1>1, <3>1, <3>2, <3>3 DEF OfferChange
  <2>3. QED
    BY <2>2 DEF Untouched
<1>6. Held(b)'
  BY <1>3, <1>4, <1>5 DEF Held
<1>7. ASSUME Recorded(b), Live(b)', b \notin raced' PROVE Has(b, "reported")'
  <2>1. "reported" \in bookings[b].marks /\ Untouched(b) /\ b # next
    BY <1>1, <1>3, <1>7, RowAfter DEF Recorded, Has, Held
  <2>2. CASE bookings'[b] = bookings[b]
    BY <2>1, <2>2 DEF Has
  <2>3. CASE Noted(b) \/ Exchanged(b)
    BY <2>1, <2>3 DEF Noted, Exchanged, Has
  <2>4. ASSUME NEW p \in Handlers, Given(b, p) PROVE Has(b, "reported")'
    BY <2>1, <2>4 DEF Given, Has, Untouched
  <2>5. QED
    BY <1>1, <1>7, <2>1, <2>2, <2>3, <2>4 DEF RowChange, Entered, Live
<1>8. QED
  BY <1>2, <1>3, <1>6, <1>7 DEF Recorded

\* What a given row had been read to have.
LEMMA GivenRow ==
  ASSUME IInv, NEW b \in BookingIds, NEW p \in Handlers, Given(b, p)
  PROVE  /\ OfferKnown(p) /\ accepting[p].booking = b
         /\ b \notin raced => SeenKnown(b, accepting[p].seen) /\ Alone(b)
BY DEF IInv, Given, OfferKnown

\* The columns of each row stay known.
LEMMA RowKept ==
  ASSUME IInv, [Next]_vars, NEW b \in BookingIds
  PROVE  RowKnown(b)'
<1>1. /\ TableInv /\ TableInv' /\ time \in Nat /\ time' \in Nat /\ time <= time'
      /\ raced \subseteq raced' /\ RowKnown(b)
      /\ RowChange(b) \/ Noted(b)
      /\ \A p \in Handlers : OfferChange(p)
  BY Types, RowStep DEF IInv
<1>2. \A h \in Nat : Started(h) => Started(h)'
  BY <1>1 DEF Started
\* A handler that reads the row, reads what stands on it.
<1>3. ASSUME bookings'[b] = bookings[b] \/ Noted(b) \/ Exchanged(b),
             Live(b)', b \notin raced', ~Has(b, "reported")'
      PROVE  Untouched(b)'
  <2>1. Live(b) /\ ~Has(b, "reported") /\ Untouched(b)
    BY <1>1, <1>3 DEF Live, Has, Noted, Exchanged, RowKnown
  <2>2. ASSUME NEW p \in Handlers, accepting'[p].booking = b
        PROVE  "reported" \notin accepting'[p].seen
    <3>1. CASE accepting'[p] = accepting[p]
      BY <2>1, <2>2, <3>1 DEF Untouched
    <3>2. CASE accepting'[p] = NotAccepting
      BY <3>2 DEF NotAccepting
    <3>3. ASSUME NEW c \in BookingIds, Reads(p, c)
          PROVE  "reported" \notin accepting'[p].seen
      BY <2>1, <2>2, <3>3 DEF Reads, Has
    <3>4. QED
      BY <1>1, <3>1, <3>2, <3>3 DEF OfferChange
  <2>3. QED
    BY <2>2 DEF Untouched
<1>4. CASE bookings'[b] = bookings[b]
  <2>1. Live(b) => bookings[b].hour \in Nat
    BY <1>1, RowAfter
  <2>2. QED
    BY <1>1, <1>2, <1>3, <1>4, <2>1 DEF RowKnown, Has, Live
<1>5. CASE bookings'[b] = NoBooking
  BY <1>5 DEF RowKnown, Has, Live, NoBooking
<1>6. CASE Noted(b)
  <2>1. Live(b) /\ bookings[b].hour \in Nat /\ bookings'[b].hour = bookings[b].hour
    BY <1>1, <1>6, RowAfter DEF Noted
  <2>2. GeoMark /\ b = geo.booking => Started(bookings[b].hour)
    BY <2>1 DEF GeoMark, IInv, GeoKnown, Held
  <2>3. Has(b, "prompted")' /\ (~Has(b, "reported")' => Started(bookings[b].hour)')
    <3>1. Has(b, "prompted")' /\ (~Has(b, "reported")' => Started(bookings[b].hour))
      BY <1>6, <2>2 DEF Noted, Has
    <3>2. bookings'[b].hour \in Nat
             /\ (Started(bookings[b].hour) => Started(bookings[b].hour)')
      BY <1>1, <2>1 DEF Started
    <3>3. QED
      BY <3>1, <3>2
  <2>4. b \notin raced' /\ Has(b, "verified")' => Has(b, "reported")'
    BY <1>1, <1>6 DEF Noted, Has, RowKnown
  <2>5. QED
    BY <1>3, <1>6, <2>3, <2>4 DEF RowKnown
<1>7. CASE Entered(b)
  <2>1. bookings'[b].marks = {} /\ b = next
    BY <1>7 DEF Entered
  <2>2. ASSUME NEW p \in Handlers, accepting'[p].booking = b
        PROVE  "reported" \notin accepting'[p].seen
    <3>1. accepting[p].booking < next /\ ~Live(b) /\ next \in Nat
      BY <1>1, <1>7, RowAfter DEF TableInv, Fresh, Entered
    <3>2. accepting'[p] # accepting[p]
      BY <2>1, <2>2, <3>1
    <3>3. CASE accepting'[p] = NotAccepting
      BY <3>3 DEF NotAccepting
    <3>4. ASSUME NEW c \in BookingIds, Reads(p, c) PROVE FALSE
      BY <2>2, <3>1, <3>4 DEF Reads
    <3>5. QED
      BY <1>1, <3>2, <3>3, <3>4 DEF OfferChange
  <2>3. QED
    BY <2>1, <2>2 DEF RowKnown, Has, Untouched
<1>8. CASE Exchanged(b)
  <2>1. /\ Live(b) /\ bookings[b].hour \in Nat
        /\ bookings'[b].hour = bookings[b].hour
        /\ \A c \in {"prompted", "reported", "verified"} :
             Has(b, c)' <=> Has(b, c)
    BY <1>1, <1>8, RowAfter DEF Exchanged, Has
  <2>2. QED
    BY <1>1, <1>2, <1>3, <1>8, <2>1 DEF RowKnown
<1>9. ASSUME NEW p \in Handlers, Given(b, p) PROVE RowKnown(b)'
  <2>1. /\ Live(b) /\ bookings[b].hour \in Nat
        /\ bookings'[b].hour = bookings[b].hour
        /\ \A c \in {"prompted", "reported", "verified"} :
             Has(b, c)' <=> Has(b, c) /\ c \notin accepting[p].seen
        /\ \A q \in Handlers :
             accepting'[q] = IF q = p THEN NotAccepting ELSE accepting[q]
    BY <1>1, <1>9, RowAfter DEF Given, Has
  <2>2. /\ "prompted" \in accepting[p].seen <=> "reported" \in accepting[p].seen
        /\ b \notin raced => SeenKnown(b, accepting[p].seen) /\ Alone(b)
        /\ accepting[p].booking = b
    BY <1>9, GivenRow DEF OfferKnown
  <2>3. Has(b, "reported")' => Has(b, "prompted")'
    BY <1>1, <2>1, <2>2 DEF RowKnown
  <2>4. Has(b, "prompted")' /\ ~Has(b, "reported")' => Started(bookings[b].hour)'
    <3>1. Started(bookings[b].hour) => Started(bookings[b].hour)'
      BY <1>1, <2>1 DEF Started
    <3>2. QED
      BY <1>1, <2>1, <2>2, <3>1 DEF RowKnown
  <2>5. b \notin raced' /\ Has(b, "verified")' => Has(b, "reported")'
    BY <1>1, <2>1, <2>2 DEF RowKnown, SeenKnown
  <2>6. b \notin raced' => Untouched(b)'
    <3>1. ASSUME NEW q \in Handlers, b \notin raced', accepting'[q].booking = b
          PROVE  FALSE
      <4>1. NotAccepting.booking = 0 /\ b # 0
        BY <1>1, TableTypes DEF NotAccepting, TableInv
      <4>2. QED
        BY <1>1, <2>1, <2>2, <3>1, <4>1 DEF Alone
    <3>2. QED
      BY <3>1 DEF Untouched
  <2>7. QED
    BY <2>3, <2>4, <2>5, <2>6 DEF RowKnown
<1>10. QED
  BY <1>1, <1>4, <1>5, <1>6, <1>7, <1>8, <1>9 DEF RowChange
\* So does what handlers have read.
LEMMA OfferKept ==
  ASSUME IInv, [Next]_vars, NEW p \in Handlers
  PROVE  OfferKnown(p)'
<1>1. /\ raced \subseteq raced' /\ OfferKnown(p) /\ OfferChange(p) /\ TableInv
      /\ \A b \in BookingIds : RowChange(b) \/ Noted(b)
  BY Types, RowStep DEF IInv
<1>2. CASE accepting'[p] = accepting[p]
  <2>1. ASSUME NEW b \in BookingIds \ raced', accepting[p].booking = b
        PROVE  SeenKnown(b, accepting[p].seen)'
    <3>1. b \notin raced /\ SeenKnown(b, accepting[p].seen)
      BY <1>1, <2>1 DEF OfferKnown
    <3>2. ASSUME "reported" \in accepting[p].seen, Has(b, "verified")'
          PROVE  Has(b, "verified")
      <4>1. Noted(b) => Has(b, "verified")
        BY <2>1, <3>1, <3>2 DEF Noted, Has, Untouched
      <4>2. RowChange(b) => Has(b, "verified")
        BY <3>2 DEF RowChange, Entered, Exchanged, Given, Has, NoBooking
      <4>3. QED
        BY <1>1, <4>1, <4>2
    <3>3. QED
      BY <1>2, <3>1, <3>2 DEF SeenKnown
  <2>2. QED
    BY <1>1, <1>2, <2>1 DEF OfferKnown
<1>3. CASE accepting'[p] = NotAccepting
  <2>1. NotAccepting.seen = {} /\ NotAccepting.booking \notin BookingIds
    BY <1>1, TableTypes DEF NotAccepting, TableInv
  <2>2. QED
    BY <1>3, <2>1 DEF OfferKnown
<1>4. ASSUME NEW b \in BookingIds, Reads(p, b) PROVE OfferKnown(p)'
  <2>1. /\ Live(b) /\ ~Started(bookings[b].hour) /\ RowKnown(b)
        /\ bookings' = bookings /\ accepting'[p].booking = b
        /\ accepting'[p].seen = bookings[b].marks
    BY <1>4 DEF Reads, IInv
  <2>2. QED
    BY <1>1, <2>1 DEF OfferKnown, SeenKnown, RowKnown, Has
<1>5. QED
  BY <1>1, <1>2, <1>3, <1>4 DEF OfferChange

-----------------------------------------------------------------------------
(* Check-in: the job and the handlers *)

\* A run begins with whom to prompt, or with the absences.
LEMMA StartShape ==
  ASSUME IInv, GeoStart
  PROVE  /\ geo.at = "idle" /\ geo' \in Run
         /\ geo'.now = time /\ geo'.left = 2 /\ geo'.at \in {"send", "expire"}
         /\ geo'.at = "send" =>
              geo'.booking \in BookingIds /\ Promptable(geo'.booking)
         /\ UNCHANGED <<bookings, next, time, accepting, loc, counters, history>>
<1>1. time \in Nat /\ TableTypeOK
  BY Types, TableTypes
<1> DEFINE run == [Idle EXCEPT !.now = time, !.left = HoursToExpire]
           Any == [at : {"idle", "send", "expire"}, now : Nat, left : 0..2,
                   booking : BookingIds \cup {0},
                   owner : Users \cup {Nobody}, chain : SUBSET BookingIds]
<1>2. run \in Any /\ run.now = time /\ run.left = 2
  <2>1. Idle \in Any
    BY SMTT(60) DEF Idle
  <2>2. HoursToExpire = 2 /\ HoursToExpire \in 0..2 /\ time \in Nat
    BY <1>1 DEF HoursToExpire
  <2>3. PICK r \in Any, t \in Nat, n \in 0..2 :
          r = Idle /\ t = time /\ n = HoursToExpire
    BY <2>1, <2>2
  <2>4. PICK rr : rr = [r EXCEPT !.now = t, !.left = n]
    OBVIOUS
  <2>5. rr \in Any /\ rr.now = t /\ rr.left = n
    BY <2>4
  <2>6. run = rr
    BY <2>3, <2>4, Zenon
  <2> HIDE DEF run, Any
  <2>7. QED
    BY <2>2, <2>3, <2>5, <2>6
<1>3. geo.at = "idle"
        /\ UNCHANGED <<bookings, next, time, accepting, loc, counters, history>>
  BY DEF GeoStart, Idle, tableVars
<1> HIDE DEF run
<1>4. CASE geo' = [run EXCEPT !.at = "expire"]
  <2>1. geo' \in Run /\ geo'.now = time /\ geo'.left = 2 /\ geo'.at = "expire"
    BY <1>2, <1>4 DEF Run
  <2>2. QED
    BY <1>3, <2>1
<1>5. ASSUME NEW b \in BookingIds, Promptable(b),
             geo' = [run EXCEPT !.at = "send", !.booking = b,
                                !.owner = bookings[b].owner]
      PROVE  /\ geo' \in Run /\ geo'.now = time /\ geo'.left = 2
             /\ geo'.at = "send" /\ geo'.booking = b
  <2>1. bookings[b].owner \in Users
    BY <1>1, <1>5, TableTypes DEF Promptable
  <2>2. QED
    BY <1>2, <1>5, <2>1 DEF Run
<1>6. QED
  BY <1>3, <1>4, <1>5 DEF GeoStart, run

\* A message, a mark and an absence belong to the booking the run is at.
LEMMA WorkShape ==
  ASSUME IInv, GeoSend \/ GeoMark \/ GeoAbsent
  PROVE  /\ geo \in Run /\ geo' \in Run /\ geo.booking \in BookingIds
         /\ geo'.now = geo.now /\ geo'.left = geo.left
         /\ geo'.booking = geo.booking /\ geo'.chain = geo.chain
         /\ GeoSend => geo.at = "send" /\ geo'.at \in {"mark", "expire"}
         /\ GeoMark => geo.at = "mark" /\ geo'.at = "expire"
         /\ GeoAbsent => geo.at = "absent" /\ geo'.at = "warn"
         /\ UNCHANGED <<next, time, accepting, loc, charged, missed, history>>
         /\ ~GeoSend => UNCHANGED <<asked, faults>>
<1>1. geo \in Run /\ geo.booking \in BookingIds
  BY Types DEF GeoSend, GeoMark, GeoAbsent
<1>2. QED
  BY <1>1 DEF GeoSend, GeoMark, GeoAbsent, Run, tableVars, counters

\* A run reads a candidate, or is done with an hour.
LEMMA ExpireShape ==
  ASSUME IInv, GeoExpire
  PROVE  /\ geo.at = "expire" /\ geo \in Run /\ geo' \in Run
         /\ geo.left \in 1..2 /\ geo'.now = geo.now
         /\ \/ /\ geo'.at = "absent" /\ geo'.left = geo.left
               /\ geo'.booking \in BookingIds /\ Candidate(geo'.booking)
               /\ geo'.chain = Chain(geo'.booking)
            \/ /\ geo'.at = "expire" /\ geo'.left = geo.left - 1
               /\ \A b \in BookingIds : ~Candidate(b)
         /\ UNCHANGED <<bookings, next, time, accepting, loc, counters, history>>
<1>1. /\ geo.at = "expire" /\ geo \in Run /\ geo.left > 0 /\ TableTypeOK
      /\ UNCHANGED <<bookings, next, time, accepting, loc, counters, history>>
  BY Types DEF GeoExpire, tableVars
<1>2. geo.left \in 1..2 /\ geo.left - 1 \in 0..2
  <2>1. geo.left \in 0..2
    BY <1>1 DEF Run
  <2>2. QED
    BY <1>1, <2>1
<1>3. ASSUME NEW b \in BookingIds, Candidate(b),
             geo' = [geo EXCEPT !.at = "absent", !.booking = b,
                       !.owner = bookings[b].owner, !.chain = Chain(b)]
      PROVE  /\ geo' \in Run /\ geo'.now = geo.now /\ geo'.at = "absent"
             /\ geo'.left = geo.left /\ geo'.booking = b
             /\ geo'.chain = Chain(b)
  <2>1. bookings[b].owner \in Users /\ Chain(b) \in SUBSET BookingIds
    BY <1>1, <1>3, TableTypes DEF Candidate, Chain
  <2>2. QED
    BY <1>1, <1>3, <2>1 DEF Run
<1>4. ASSUME geo' = [geo EXCEPT !.left = @ - 1]
      PROVE  /\ geo' \in Run /\ geo'.now = geo.now /\ geo'.at = "expire"
             /\ geo'.left = geo.left - 1
  <2>1. PICK n \in 0..2 : n = geo.left - 1
    BY <1>2
  <2>2. geo' = [geo EXCEPT !.left = n]
    BY <1>4, <2>1
  <2>3. geo' \in Run /\ geo'.now = geo.now /\ geo'.at = geo.at /\ geo'.left = n
    <3> SUFFICES ASSUME NEW g \in Run, g = geo
                 PROVE  /\ [g EXCEPT !.left = n] \in Run
                        /\ [g EXCEPT !.left = n].now = g.now
                        /\ [g EXCEPT !.left = n].at = g.at
                        /\ [g EXCEPT !.left = n].left = n
      BY <1>1, <2>2
    <3>1. QED
      BY DEF Run
  <2>4. QED
    BY <1>1, <2>1, <2>3
<1>5. \/ /\ geo' = [geo EXCEPT !.left = @ - 1]
         /\ \A b \in BookingIds : ~Candidate(b)
      \/ \E b \in BookingIds :
           /\ Candidate(b)
           /\ geo' = [geo EXCEPT !.at = "absent", !.booking = b,
                        !.owner = bookings[b].owner, !.chain = Chain(b)]
  BY DEF GeoExpire
<1>6. QED
  BY <1>1, <1>2, <1>3, <1>4, <1>5

\* After the warning the hour is done with.
LEMMA WarnShape ==
  ASSUME IInv, GeoWarn
  PROVE  /\ geo.at = "warn" /\ geo \in Run /\ geo' \in Run
         /\ geo.booking \in BookingIds /\ geo.left \in 1..2
         /\ geo'.now = geo.now /\ geo'.left = geo.left - 1 /\ geo'.at = "expire"
         /\ UNCHANGED <<bookings, next, time, accepting, loc, asked, faults,
                        missed, history>>
<1>1. /\ geo.at = "warn" /\ geo \in Run /\ geo.booking \in BookingIds
      /\ geo.left > 0
      /\ UNCHANGED <<bookings, next, time, accepting, loc, asked, faults,
                     missed, history>>
      /\ geo' = [geo EXCEPT !.at = "expire", !.left = geo.left - 1, !.chain = {}]
  BY Types DEF GeoWarn, tableVars, IInv, GeoKnown
<1>2. geo.left \in 0..2
  BY <1>1 DEF Run
<1>3. geo.left \in 1..2 /\ geo.left - 1 \in 0..2
  BY <1>1, <1>2
<1>4. QED
  BY <1>1, <1>3 DEF Run

\* A run is over, or dies.
LEMMA EndShape ==
  ASSUME IInv, GeoDone \/ Crash
  PROVE  /\ geo' = Idle /\ Idle.at = "idle" /\ Idle.now = 0 /\ Idle.booking = 0
         /\ Idle \notin Run
         /\ UNCHANGED <<bookings, next, time, accepting, loc, asked, charged,
                        history>>
         /\ GeoDone => /\ geo.at = "expire" /\ geo.left = 0 /\ faults' = faults
                       /\ missed' = IF geo.now = time THEN 0 ELSE missed
         /\ Crash => faults' = faults + 1 /\ faults < MaxFaults /\ missed' = missed
BY DEF GeoDone, Crash, Idle, Run, tableVars

\* Everybody else leaves the job and its counters alone.
LEMMA OthersShape ==
  ASSUME [Next]_vars, ~Geo, ~Crash
  PROVE  /\ UNCHANGED <<geo, asked, faults>>
         /\ (\E u \in Users : Loc(u)) \/ UNCHANGED <<loc, charged>>
         /\ missed' = missed \/ Tick
BY DEF Next, Loc, LocStart, LocVerify, LocAbsent, LocWarn, Change, Tick, vars,
       counters

\* A location handler that starts reads a booking of the current hour.
LEMMA LocShape ==
  ASSUME IInv, NEW u \in Users, Loc(u)
  PROVE  /\ \A v \in Users \ {u} : loc'[v] = loc[v]
         /\ loc' \in [Users -> [at : {"verify", "late", "warn"},
                                booking : BookingIds] \cup {Quiet}]
         /\ UNCHANGED <<next, time, accepting, missed, history>>
         /\ \/ loc'[u].at = "idle"
            \/ /\ LocStart(u) /\ UNCHANGED <<bookings, charged>>
               /\ loc'[u].at # "warn"
               /\ loc'[u].booking \in BookingIds
               /\ Live(loc'[u].booking)
               /\ bookings[loc'[u].booking].hour = HourAt(time)
               /\ ~Has(loc'[u].booking, "reported")
            \/ /\ LocAbsent(u) /\ charged' = charged
               /\ loc[u].at # "idle" /\ loc'[u].booking = loc[u].booking
               /\ loc[u].booking \in BookingIds
               /\ Live(loc[u].booking) =>
                    "reported" \in bookings'[loc[u].booking].marks
         /\ charged' \in [BookingIds -> Nat]
         /\ \A b \in BookingIds :
              charged'[b] # charged[b] => loc[u].at = "warn" /\ b = loc[u].booking
<1> DEFINE L == [at : {"verify", "late", "warn"}, booking : BookingIds]
<1>1. /\ loc \in [Users -> L \cup {Quiet}] /\ TableTypeOK
      /\ charged \in [BookingIds -> Nat]
      /\ loc[u].at # "idle" => loc[u].booking \in BookingIds
  BY Types
<1>2. UNCHANGED <<next, time, accepting, missed, history>>
  BY DEF Loc, LocStart, LocVerify, LocAbsent, LocWarn, tableVars, counters
<1>3. ASSUME NEW at, NEW b, SetLoc(u, at, b),
             (at = "idle" /\ b = 0)
               \/ (at \in {"verify", "late", "warn"} /\ b \in BookingIds)
      PROVE  /\ \A v \in Users \ {u} : loc'[v] = loc[v]
             /\ loc'[u].at = at /\ loc'[u].booking = b
             /\ loc' \in [Users -> L \cup {Quiet}]
  <2>1. [at |-> at, booking |-> b] \in L \cup {Quiet}
    BY <1>3 DEF Quiet
  <2>2. loc' = [loc EXCEPT ![u] = [at |-> at, booking |-> b]]
    BY <1>3 DEF SetLoc
  <2>3. QED
    BY <1>1, <2>1, <2>2
<1>4. CASE LocStart(u)
  <2>1. PICK b \in BookingIds :
          /\ IsStill(b, u) /\ bookings[b].hour = HourAt(time)
          /\ ~Has(b, "reported")
          /\ SetLoc(u, IF OpenAt(bookings[b].hour, time) THEN "verify"
                                                     ELSE "late", b)
    BY <1>4 DEF LocStart
  <2>2. PICK at \in {"verify", "late"} : SetLoc(u, at, b)
    BY <2>1
  <2>3. /\ \A v \in Users \ {u} : loc'[v] = loc[v]
        /\ loc'[u].at = at /\ loc'[u].booking = b
        /\ loc' \in [Users -> L \cup {Quiet}]
    BY <1>3, <2>2
  <2>4. UNCHANGED <<bookings, charged>>
    BY <1>4 DEF LocStart, tableVars, counters
  <2> HIDE DEF L
  <2>5. loc'[u].at # "warn" /\ Live(b)
    BY <2>1, <2>3 DEF IsStill
  <2>6. QED
    BY <1>1, <1>2, <1>4, <2>1, <2>3, <2>4, <2>5 DEF L
<1>5. ASSUME SetLoc(u, "idle", 0)
      PROVE  /\ \A v \in Users \ {u} : loc'[v] = loc[v]
             /\ loc'[u].at = "idle"
             /\ loc' \in [Users -> L \cup {Quiet}]
  BY <1>3, <1>5
<1>6. CASE LocVerify(u)
  <2>1. SetLoc(u, "idle", 0) /\ charged' = charged
    BY <1>6 DEF LocVerify, counters
  <2>2. QED
    BY <1>1, <1>2, <1>5, <2>1
<1>7. CASE LocAbsent(u)
  <2>1. PICK d \in BookingIds : d = loc[u].booking
    BY <1>1, <1>7 DEF LocAbsent
  <2>2. loc[u].at = "late" /\ charged' = charged
    BY <1>7 DEF LocAbsent, counters
  <2>3. CASE SetLoc(u, "idle", 0)
    BY <1>1, <1>2, <1>5, <2>2, <2>3
  <2>4. CASE Record({d}, {"prompted", "reported"}) /\ SetLoc(u, "warn", d)
    <3>1. {d} \in SUBSET BookingIds /\ {"prompted", "reported"} \in SUBSET Columns
      BY DEF Columns
    <3>2. Live(d) => "reported" \in bookings'[d].marks
      <4>1. Live(d) => bookings'[d] = [bookings[d] EXCEPT
                                         !.marks = @ \cup {"prompted", "reported"}]
        BY <2>4 DEF Record
      <4>2. Live(d) => bookings[d] \in BookingRow
        BY <1>1, TableTypes
      <4>3. QED
        BY <4>1, <4>2 DEF BookingRow
    <3>3. /\ \A v \in Users \ {u} : loc'[v] = loc[v]
          /\ loc'[u].booking = d
          /\ loc' \in [Users -> L \cup {Quiet}]
      BY <1>3, <2>4
    <3>4. QED
      BY <1>1, <1>2, <1>7, <2>1, <2>2, <3>2, <3>3
  <2>5. QED
    BY <1>7, <2>1, <2>3, <2>4 DEF LocAbsent
<1>8. CASE LocWarn(u)
  <2>1. SetLoc(u, "idle", 0) /\ loc[u].at = "warn" /\ loc[u].booking \in BookingIds
    BY <1>1, <1>8 DEF LocWarn
  <2>2. /\ charged' \in [BookingIds -> Nat]
        /\ \A b \in BookingIds : charged'[b] # charged[b] => b = loc[u].booking
    BY <1>1, <1>8, <2>1 DEF LocWarn
  <2>3. QED
    BY <1>2, <1>5, <2>1, <2>2
<1>9. QED
  BY <1>4, <1>6, <1>7, <1>8 DEF Loc
-----------------------------------------------------------------------------
(* Check-in: the invariant *)

\* The variables keep their types.
LEMMA TypesKept ==
  ASSUME IInv, [Next]_vars
  PROVE  TypeOK'
<1>1. TableTypeOK' /\ raced' \subseteq BookingIds /\ late' \subseteq Users
  BY RowStep DEF TableInv
<1>2. geo' \in Run \cup {Idle}
      /\ (geo'.at \in {"send", "mark", "absent", "warn"} => geo'.booking # 0)
  <2>1. 0 \notin BookingIds
    BY Types, TableTypes
  <2>2. CASE geo' = geo
    BY <2>1, <2>2, Types
  <2>3. CASE GeoStart
    BY <2>1, <2>3, StartShape
  <2>4. CASE GeoSend \/ GeoMark \/ GeoAbsent
    BY <2>1, <2>4, WorkShape
  <2>5. CASE GeoExpire
    BY <2>1, <2>5, ExpireShape
  <2>6. CASE GeoWarn
    BY <2>6, WarnShape
  <2>7. CASE GeoDone \/ Crash
    BY <2>7, EndShape
  <2>8. QED
    BY <2>2, <2>3, <2>4, <2>5, <2>6, <2>7, OthersShape DEF Geo
<1>3. loc' \in [Users -> [at : {"verify", "late", "warn"},
                          booking : BookingIds] \cup {Quiet}]
  <2>1. CASE \E u \in Users : Loc(u)
    BY <2>1, LocShape
  <2>2. CASE Geo \/ Crash
    BY <2>2, Types, StartShape, WorkShape, ExpireShape, WarnShape, EndShape
       DEF Geo
  <2>3. QED
    BY <2>1, <2>2, Types, OthersShape
<1>4. asked' \in [BookingIds -> Nat]
  <2>1. CASE GeoSend
    BY <2>1, Types DEF GeoSend
  <2>2. CASE ~GeoSend
    <3>1. asked' = asked
      BY <2>2, StartShape, WorkShape, ExpireShape, WarnShape, EndShape,
         OthersShape DEF Geo, counters
    <3>2. QED
      BY <3>1, Types
  <2>3. QED
    BY <2>1, <2>2
<1>5. charged' \in [BookingIds -> Nat]
  <2>1. CASE GeoWarn
    BY <2>1, Types DEF GeoWarn
  <2>2. CASE \E u \in Users : Loc(u)
    BY <2>2, LocShape
  <2>3. CASE ~GeoWarn /\ ~\E u \in Users : Loc(u)
    <3>1. charged' = charged
      BY <2>3, StartShape, WorkShape, ExpireShape, EndShape, OthersShape
         DEF Geo, counters
    <3>2. QED
      BY <3>1, Types
  <2>4. QED
    BY <2>1, <2>2, <2>3
<1>6. faults' \in 0..MaxFaults
  <2>1. CASE Crash
    BY <2>1, Types, EndShape, CheckInAssumption
  <2>4. CASE GeoSend
    BY <2>4, Types, CheckInAssumption DEF GeoSend
  <2>2. CASE ~Crash /\ ~GeoSend
    <3>1. faults' = faults
      BY <2>2, StartShape, WorkShape, ExpireShape, WarnShape, EndShape,
         OthersShape DEF Geo, counters
    <3>2. QED
      BY <3>1, Types
  <2>3. QED
    BY <2>1, <2>2, <2>4
<1>7. missed' \in 0..(MaxMissed + 1)
  <2>1. CASE Tick
    BY <2>1, Types, CheckInAssumption DEF Tick
  <2>2. CASE GeoDone
    BY <2>2, Types, EndShape, CheckInAssumption
  <2>3. CASE ~Tick /\ ~GeoDone
    <3>1. missed' = missed
      BY <2>3, StartShape, WorkShape, ExpireShape, WarnShape, EndShape,
         OthersShape DEF Geo, counters
    <3>2. QED
      BY <3>1, Types
  <2>4. QED
    BY <2>1, <2>2, <2>3
<1>8. QED
  BY <1>1, <1>2, <1>3, <1>4, <1>5, <1>6, <1>7 DEF TypeOK

\* The booking a run or a handler takes up has started, and nothing is
\* recorded on it.
LEMMA TakenUp ==
  ASSUME IInv, NEW b \in BookingIds, Live(b), ~Has(b, "reported"),
         2 * bookings[b].hour <= time
  PROVE  b < next /\ Held(b)
BY DEF IInv, TableInv, Fresh, RowKnown, Held, Started

\* A candidate's deadline has passed, and it is in its own chain.
LEMMA CandidateHeld ==
  ASSUME IInv, NEW b \in BookingIds, Candidate(b)
  PROVE  b < next /\ Held(b) /\ b \in Chain(b)
<1>1. Live(b) /\ ~Has(b, "reported") /\ geo.now > 2 * bookings[b].hour
  BY DEF Candidate, Expired
<1>2. /\ geo.now <= time /\ time \in Nat
      /\ bookings[b].hour \in Hours /\ bookings[b].hour \in Nat
  BY <1>1, Types, TableTypes DEF IInv, GeoKnown
<1>3. geo.now \in Nat
  <2>1. Idle.now = 0
    BY DEF Idle
  <2>2. QED
    BY <2>1, Types
<1>4. b < next /\ Held(b)
  BY <1>1, <1>2, <1>3, TakenUp
<1>5. b \in At(bookings[b].owner, bookings[b].hour, bookings[b].hour)
  BY <1>1 DEF At
<1>6. \A g \in bookings[b].hour .. bookings[b].hour : g = bookings[b].hour
  BY <1>2
<1>7. QED
  BY <1>2, <1>4, <1>5, <1>6 DEF Chain

\* Prompts and warnings are counted where they were held to be due.
LEMMA CountKept ==
  ASSUME IInv, [Next]_vars, NEW b \in BookingIds
  PROVE  CountKnown(b)'
<1>1. ASSUME asked'[b] > 0 PROVE b < next /\ Held(b)
  <2>1. CASE asked'[b] = asked[b]
    BY <1>1, <2>1 DEF IInv, CountKnown
  <2>2. CASE GeoSend /\ b = geo.booking
    BY <2>2 DEF GeoSend, IInv, GeoKnown
  <2>3. CASE GeoSend /\ b # geo.booking
    BY <2>1, <2>3, Types DEF GeoSend
  <2>4. CASE ~GeoSend
    <3>1. asked' = asked
      BY <2>4, StartShape, WorkShape, ExpireShape, WarnShape, EndShape,
         OthersShape DEF Geo, counters
    <3>2. QED
      BY <2>1, <3>1
  <2>5. QED
    BY <2>2, <2>3, <2>4
<1>2. ASSUME charged'[b] > 0 PROVE b < next /\ Held(b) /\ Recorded(b)
  <2>1. CASE charged'[b] = charged[b]
    BY <1>2, <2>1 DEF IInv, CountKnown
  <2>2. CASE GeoWarn /\ b = geo.booking
    BY <2>2 DEF GeoWarn, IInv, GeoKnown
  <2>3. CASE GeoWarn /\ b # geo.booking
    BY <2>1, <2>3, Types DEF GeoWarn
  <2>4. ASSUME NEW u \in Users, Loc(u) PROVE b < next /\ Held(b) /\ Recorded(b)
    BY <2>1, <2>4, LocShape DEF IInv, LocKnown
  <2>5. CASE ~GeoWarn /\ ~\E u \in Users : Loc(u)
    <3>1. charged' = charged
      BY <2>5, StartShape, WorkShape, ExpireShape, EndShape, OthersShape
         DEF Geo, counters
    <3>2. QED
      BY <2>1, <3>1
  <2>6. QED
    BY <2>2, <2>3, <2>4, <2>5
<1>3. QED
  BY <1>1, <1>2, HeldStays DEF CountKnown

\* What a run is at when it has begun or gone on.
LEMMA GeoKept ==
  ASSUME IInv, [Next]_vars
  PROVE  GeoKnown'
<1>1. /\ time \in Nat /\ time' \in Nat /\ time <= time' /\ raced \subseteq raced'
      /\ GeoKnown /\ Idle.now = 0
      /\ \A b \in BookingIds : Live(b) => bookings[b].hour \in Nat
  BY RowStep, Types, TableTypes DEF IInv, Idle
<1>2. CASE geo' = geo /\ asked' = asked /\ faults' = faults
  <2>1. geo.now \in Nat
    BY <1>1, Types
  <2>2. geo.at \in {"send", "mark", "absent", "warn"} =>
          /\ geo.booking \in BookingIds
          /\ geo.booking < next' /\ Held(geo.booking)'
          /\ Recorded(geo.booking) => Recorded(geo.booking)'
    <3> SUFFICES ASSUME geo.at \in {"send", "mark", "absent", "warn"},
                        NEW b \in BookingIds, b = geo.booking
                 PROVE  /\ b < next' /\ Held(b)'
                        /\ Recorded(b) => Recorded(b)'
      BY <1>2, Types DEF Held, Recorded, Live, Started, Untouched, Has
    <3>1. b < next /\ Held(b)
      BY <1>1 DEF GeoKnown
    <3>2. QED
      BY <3>1, HeldStays
  <2>3. QED
    BY <1>1, <1>2, <2>1, <2>2 DEF GeoKnown
<1>3. CASE GeoStart
  <2>1. CASE geo'.at = "send"
    <3>1. PICK b \in BookingIds : b = geo'.booking /\ Promptable(b)
      BY <1>3, <2>1, StartShape
    <3>2. /\ UNCHANGED <<bookings, next, time, accepting, raced, asked, faults>>
          /\ geo.at = "idle" /\ geo'.now = time
      BY <1>3, StartShape DEF counters, history
    <3>3. b < next /\ Held(b)
      BY <1>1, <3>1, TakenUp DEF Promptable, OpenAt
    <3>4. b \notin raced => asked[b] <= faults
      BY <3>1, <3>2 DEF Promptable, IInv, Paid, Marking
    <3>5. b < next' /\ Held(b)'
      BY <3>3, HeldStays
    <3>6. Held(geo.booking)'
      BY <3>1, <3>5 DEF Held, Live, Started, Untouched
    <3>7. QED
      BY <1>1, <2>1, <3>1, <3>2, <3>4, <3>5, <3>6 DEF GeoKnown
  <2>2. CASE geo'.at = "expire"
    BY <1>1, <1>3, <2>2, StartShape DEF GeoKnown
  <2>3. QED
    BY <1>3, <2>1, <2>2, StartShape
<1>4. CASE GeoSend \/ GeoMark \/ GeoAbsent
  <2>1. PICK b \in BookingIds : b = geo.booking
    BY <1>4, WorkShape
  <2>2. /\ geo'.booking = b /\ geo'.now = geo.now /\ geo'.left = geo.left
        /\ geo.at \in {"send", "mark", "absent"}
        /\ geo'.at \in {"mark", "expire", "warn"} /\ time' = time
        /\ geo'.at = "warn" => GeoAbsent /\ geo.at = "absent"
        /\ geo.now \in Nat
    BY <1>4, <2>1, WorkShape, Types
  <2>3. b < next' /\ Held(b)'
    <3>1. b < next /\ Held(b)
      BY <1>1, <2>1, <2>2 DEF GeoKnown
    <3>2. QED
      BY <3>1, HeldStays
  <2>4. Held(geo.booking)'
    BY <2>2, <2>3 DEF Held, Live, Started, Untouched
  <2>5. geo'.at = "warn" => Recorded(geo.booking)'
    <3> SUFFICES ASSUME geo'.at = "warn", Live(b)'
                 PROVE  "reported" \in bookings'[b].marks
      BY <2>2 DEF Recorded, Live, Has
    <3>1. GeoAbsent /\ b \in geo.chain
      BY <1>1, <2>1, <2>2 DEF GeoKnown
    <3>2. CASE Live(b)
      <4>1. bookings'[b] = [bookings[b] EXCEPT
              !.marks = (@ \ Unverified(b)) \cup {"prompted", "reported"}]
        BY <3>1, <3>2 DEF GeoAbsent
      <4>2. bookings[b] \in BookingRow
        BY <3>2, Types, TableTypes
      <4>3. QED
        BY <4>1, <4>2 DEF BookingRow
    <3>3. CASE ~Live(b)
      BY <3>1, <3>3 DEF GeoAbsent, Live
    <3>4. QED
      BY <3>2, <3>3
  <2>6. geo'.at = "warn" => geo'.left > 0
    BY <1>1, <2>2 DEF GeoKnown
  <2>7. QED
    BY <1>1, <2>2, <2>3, <2>4, <2>5, <2>6 DEF GeoKnown
<1>5. CASE GeoExpire
  <2>1. CASE geo'.at = "absent"
    <3>1. /\ geo'.now = geo.now /\ geo'.left = geo.left /\ geo.left \in 1..2
          /\ geo'.booking \in BookingIds /\ Candidate(geo'.booking)
          /\ geo'.chain = Chain(geo'.booking)
      BY <1>5, <2>1, ExpireShape
    <3>2. PICK b \in BookingIds : b = geo'.booking
      BY <3>1
    <3>3. b < next /\ Held(b) /\ b \in Chain(b)
      BY <3>1, <3>2, CandidateHeld
    <3>4. b < next' /\ Held(b)'
      BY <3>3, HeldStays
    <3>5. Held(geo.booking)'
      BY <3>2, <3>4 DEF Held, Live, Started, Untouched
    <3>6. geo.now \in Nat
      BY <1>1, Types
    <3>7. QED
      BY <1>1, <2>1, <3>1, <3>2, <3>3, <3>4, <3>5, <3>6 DEF GeoKnown
  <2>2. CASE geo'.at = "expire"
    BY <1>1, <1>5, <2>2, ExpireShape DEF GeoKnown
  <2>3. QED
    BY <1>5, <2>1, <2>2, ExpireShape
<1>6. CASE GeoWarn
  BY <1>1, <1>6, WarnShape DEF GeoKnown
<1>7. CASE GeoDone \/ Crash
  BY <1>1, <1>7, EndShape DEF GeoKnown
<1>8. QED
  BY <1>2, <1>3, <1>4, <1>5, <1>6, <1>7, OthersShape DEF Geo

\* What a location handler is at when it has begun or gone on.
LEMMA LocKept ==
  ASSUME IInv, [Next]_vars, NEW u \in Users
  PROVE  LocKnown(u)'
<1>1. CASE loc'[u] = loc[u]
  <2>1. ASSUME NEW b \in BookingIds, b = loc[u].booking, loc[u].at # "idle"
        PROVE  /\ b < next' /\ Held(b)'
               /\ loc[u].at = "warn" => Recorded(b)'
    <3>1. b < next /\ Held(b) /\ (loc[u].at = "warn" => Recorded(b))
      BY <2>1 DEF IInv, LocKnown
    <3>2. QED
      BY <3>1, HeldStays
  <2>2. loc[u].at # "idle" => loc[u].booking \in BookingIds
    BY Types
  <2>3. QED
    BY <1>1, <2>1, <2>2
       DEF LocKnown, Held, Recorded, Live, Started, Untouched, Has
<1>2. ASSUME Loc(u) PROVE LocKnown(u)'
  <2>1. CASE loc'[u].at = "idle"
    BY <2>1 DEF LocKnown
  <2>2. ASSUME LocStart(u), bookings' = bookings, loc'[u].at # "warn",
               NEW b \in BookingIds, b = loc'[u].booking, Live(b),
               bookings[b].hour = HourAt(time), ~Has(b, "reported")
        PROVE  LocKnown(u)'
    <3>1. 2 * HourAt(time) <= time
      BY Types, TableTypes DEF HourAt
    <3>2. b < next /\ Held(b)
      BY <2>2, <3>1, TakenUp
    <3>3. b < next' /\ Held(b)'
      BY <3>2, HeldStays
    <3>4. QED
      BY <2>2, <3>3 DEF LocKnown, Held, Live, Started, Untouched
  <2>3. ASSUME loc[u].at # "idle", NEW b \in BookingIds,
               loc'[u].booking = b, loc[u].booking = b,
               Live(b) => "reported" \in bookings'[b].marks
        PROVE  LocKnown(u)'
    <3>1. b < next /\ Held(b)
      BY <2>3 DEF IInv, LocKnown
    <3>2. b < next' /\ Held(b)' /\ (Live(b)' => Live(b))
      BY <3>1, HeldStays
    <3>3. Recorded(b)'
      BY <2>3, <3>2 DEF Recorded, Has
    <3>4. QED
      BY <2>3, <3>2, <3>3
         DEF LocKnown, Held, Recorded, Live, Started, Untouched, Has
  <2>4. QED
    BY <1>2, <2>1, <2>2, <2>3, LocShape
<1>3. QED
  <2>1. ASSUME NEW v \in Users, Loc(v) PROVE LocKnown(u)'
    BY <1>1, <1>2, <2>1, LocShape
  <2>2. CASE Geo \/ Crash
    BY <1>1, <2>2, StartShape, WorkShape, ExpireShape, WarnShape, EndShape
       DEF Geo
  <2>3. QED
    BY <1>1, <2>1, <2>2, OthersShape

\* A prompt is marked, or paid for by a crash or a lost answer.
LEMMA PaidKept ==
  ASSUME IInv, [Next]_vars
  PROVE  Paid'
<1> SUFFICES ASSUME NEW b \in BookingIds \ raced'
             PROVE  /\ asked'[b] <= faults' + 1
                    /\ Live(b)' /\ ~Has(b, "prompted")' /\ ~Marking(b)' =>
                         asked'[b] <= faults'
  BY DEF Paid
<1>1. /\ b \notin raced /\ asked[b] \in Nat /\ faults \in Nat
      /\ asked[b] <= faults + 1
      /\ Live(b) /\ ~Has(b, "prompted") /\ ~Marking(b) => asked[b] <= faults
      /\ RowChange(b) \/ Noted(b)
  BY RowStep, Types DEF IInv, Paid
<1>2. CASE GeoSend
  <2>1. /\ geo.at = "send" /\ geo.booking \in BookingIds
        /\ bookings' = bookings /\ geo'.booking = geo.booking
    BY <1>2, WorkShape DEF GeoSend, tableVars
  <2>2. CASE asked' = asked /\ faults' = faults
    BY <1>1, <2>1, <2>2 DEF Marking, Live, Has
  <2>3. CASE /\ asked' = [asked EXCEPT ![geo.booking] = @ + 1]
             /\ geo' = [geo EXCEPT !.at = "mark"]
             /\ faults' = faults
    <3>1. geo'.at = "mark"
      BY <1>2, <2>3, WorkShape DEF Run
    <3>2. CASE b = geo.booking
      <4>1. asked[b] <= faults /\ asked'[b] = asked[b] + 1
        BY <1>1, <2>1, <2>3, <3>2, Types DEF IInv, GeoKnown
      <4>2. QED
        BY <1>1, <2>1, <2>3, <3>1, <3>2, <4>1 DEF Marking
    <3>3. CASE b # geo.booking
      <4>1. asked'[b] = asked[b]
        BY <2>3, <3>3, Types
      <4>2. QED
        BY <1>1, <2>1, <2>3, <3>3, <4>1 DEF Marking, Live, Has
    <3>4. QED
      BY <3>2, <3>3
  <2>5. CASE /\ asked' = [asked EXCEPT ![geo.booking] = @ + 1]
             /\ faults' = faults + 1
    <3>1. asked'[b] = asked[b] \/ (b = geo.booking /\ asked'[b] = asked[b] + 1)
      BY <2>1, <2>5, Types
    <3>2. b = geo.booking => asked[b] <= faults
      BY <1>1, <2>1, Types DEF IInv, GeoKnown
    <3>3. asked[b] \in Nat /\ faults \in Nat /\ asked[b] <= faults + 1
      BY <1>1
    <3>4. asked'[b] <= faults'
      BY <2>5, <3>1, <3>2, <3>3
    <3>5. faults' \in Nat /\ asked'[b] \in Nat
      BY <2>5, <3>1, <3>3
    <3>6. QED
      BY <3>4, <3>5
  <2>4. QED
    BY <1>2, <2>2, <2>3, <2>5 DEF GeoSend
<1>3. CASE ~GeoSend
  <2>1. asked' = asked
    BY <1>3, StartShape, WorkShape, ExpireShape, WarnShape, EndShape,
       OthersShape DEF Geo, counters
  <2>2. \/ Crash /\ faults' = faults + 1
        \/ ~Crash /\ faults' = faults
    BY <1>3, StartShape, WorkShape, ExpireShape, WarnShape, EndShape, OthersShape
       DEF Geo, counters
  <2>3. CASE Crash
    BY <1>1, <2>1, <2>2, <2>3
  <2>4. CASE asked[b] = 0
    BY <1>1, <2>1, <2>2, <2>4
  <2>5. ASSUME ~Crash, asked[b] # 0, Live(b)', ~Has(b, "prompted")', ~Marking(b)'
        PROVE  asked[b] <= faults
    <3>1. b < next /\ Held(b)
      BY <1>1, <2>5 DEF IInv, CountKnown
    <3>2. Live(b) /\ b # next /\ Untouched(b)
      BY <1>1, <2>5, <3>1, HeldStays, Types, TableTypes DEF Held
    <3>3. ASSUME Has(b, "prompted") PROVE FALSE
      <4>1. ASSUME NEW p \in Handlers, Given(b, p) PROVE FALSE
        <5>1. "prompted" \in accepting[p].seen
          BY <2>5, <3>3, <4>1 DEF Given, Has
        <5>2. QED
          BY <3>2, <4>1, <5>1, GivenRow DEF OfferKnown, Untouched
      <4>2. QED
        BY <1>1, <2>5, <3>2, <3>3, <4>1
           DEF RowChange, Noted, Entered, Exchanged, Has, Live
    <3>4. ~Marking(b)
      <4>1. ASSUME Marking(b) PROVE FALSE
        <5>1. geo.at = "mark" /\ geo.booking = b
          BY <4>1 DEF Marking
        <5>2. geo' # geo
          BY <2>5, <5>1 DEF Marking
        <5>3. GeoMark
          BY <1>3, <2>5, <5>1, <5>2, StartShape, WorkShape, ExpireShape,
             WarnShape, EndShape, OthersShape DEF Geo
        <5>4. bookings'[b] = [bookings[b] EXCEPT !.marks = @ \cup {"prompted"}]
          BY <3>2, <5>1, <5>3 DEF GeoMark, Record
        <5>5. bookings[b] \in BookingRow
          BY <3>2, Types, TableTypes
        <5>6. QED
          BY <2>5, <5>4, <5>5 DEF Has, BookingRow
      <4>2. QED
        BY <4>1
    <3>5. QED
      BY <1>1, <3>2, <3>3, <3>4
  <2>6. QED
    BY <1>1, <2>1, <2>2, <2>3, <2>4, <2>5
<1>4. QED
  BY <1>2, <1>3

\* Every step keeps the invariant.
LEMMA Step == IInv /\ [Next]_vars => IInv'
<1> SUFFICES ASSUME IInv, [Next]_vars PROVE IInv'
  OBVIOUS
<1>1. TableInv' /\ (\A b \in BookingIds \ raced' : Alone(b)')
  BY RowStep
<1>2. QED
  BY <1>1, TypesKept, RowKept, CountKept, OfferKept, LocKept, GeoKept, PaidKept
     DEF IInv
-----------------------------------------------------------------------------
(* Check-in: theorems *)

(***************************************************************************)
(* The inductive invariant holds in every reachable state: no interleaving *)
(* of the job with handlers, gifts, swaps and cancellations leaves it.     *)
(***************************************************************************)
THEOREM Invariant == Spec => []IInv
<1>1. Init => IInv
  BY InitHolds
<1>2. IInv /\ [Next]_vars => IInv'
  BY Step
<1>3. QED
  BY <1>1, <1>2, PTL DEF Spec

(***************************************************************************)
(* Every variable keeps its type; a job never marks or records a booking   *)
(* that does not exist.                                                    *)
(***************************************************************************)
THEOREM TypeCorrect == Spec => []TypeOK
<1>1. IInv => TypeOK
  BY DEF IInv
<1>2. QED
  BY <1>1, Invariant, PTL

(***************************************************************************)
(* The check-in columns of a booking fit together, whoever writes them     *)
(* (process_geo_checks, handle_location, the flush of accept_gift_offer    *)
(* and of accept_swap_offer), and a warning was given for a recorded       *)
(* result.                                                                 *)
(***************************************************************************)
THEOREM ColumnsFit == Spec => []ColumnsAgree
<1>1. IInv => ColumnsAgree
  BY DEF IInv, RowKnown, CountKnown, Recorded, ColumnsAgree
<1>2. QED
  BY <1>1, Invariant, PTL

(***************************************************************************)
(* A booking is prompted for once, and once more for each crash of the job *)
(* or lost answer, however bookings are added to, taken from and exchanged *)
(* in its chain.                                                           *)
(***************************************************************************)
THEOREM PromptsArePaid == Spec => []PromptedOnce
<1>1. IInv => PromptedOnce
  BY Types DEF IInv, Paid, PromptedOnce
<1>2. QED
  BY <1>1, Invariant, PTL

-----------------------------------------------------------------------------
(* Check-in: absences *)

\* A booking was prompted for, and nothing is recorded on it.
Owing(b) == Live(b) /\ Has(b, "prompted") /\ ~Has(b, "reported")

\* Its member got it in time, and alone.
Counted(b) == b \notin raced /\ bookings[b].owner \notin late

\* The bookings of an hour that has started keep their place in their chain;
\* Recent says that no full run of the job has begun since its deadline.
Recent(b) == /\ Started(bookings[b].hour) /\ FirstOfChain(b)
             /\ time <= missed + 2 * bookings[b].hour

\* A run that began after the deadline comes to the booking, or is at it.
Due(b) ==
  geo.at # "idle" /\ geo.now > 2 * bookings[b].hour =>
    /\ bookings[b].hour <= Looked
    /\ geo.at = "warn" => bookings[b].hour < Looked
    /\ geo.at = "absent" /\ bookings[b].hour = Looked => b \in geo.chain

\* A prompt is sent and recorded by a run that began in the check-in window.
Asking ==
  geo.at \in {"send", "mark"} /\ Live(geo.booking) =>
    /\ Counted(geo.booking) => Recent(geo.booking)
    /\ geo.now = 2 * bookings[geo.booking].hour

OwingKnown ==
  /\ Asking
  /\ \A b \in BookingIds : Owing(b) /\ Counted(b) => Recent(b) /\ Due(b)

\* Who has a row after the step had it before, or got it before its hour.
InTime(b) ==
  \/ Live(b) /\ bookings'[b].owner = bookings[b].owner
  \/ ~Started(bookings'[b].hour)
  \/ bookings'[b].owner \in late'

\* What a step makes of a row: of its hour, of its member, of what it owes.
Moved(b) ==
  \/ ~Live(b)'
  \/ /\ Live(b) /\ bookings'[b].hour = bookings[b].hour /\ InTime(b)
     /\ Owing(b)' => Owing(b) \/ (GeoMark /\ geo.booking = b)
  \/ /\ ~Live(b) /\ b = next /\ InTime(b) /\ ~Owing(b)'
     /\ \A c \in BookingIds : bookings[c].hour # bookings'[b].hour

\* Every step does so.
LEMMA RowsMove ==
  ASSUME IInv, [Next]_vars, NEW b \in BookingIds
  PROVE  Moved(b)
<1>1. /\ TableInv /\ TableInv' /\ time \in Nat /\ time' \in Nat /\ time <= time'
      /\ RowChange(b) \/ Noted(b)
      /\ bookings'[b].owner # bookings[b].owner /\ Live(b)'
           /\ 2 * bookings'[b].hour <= time' => bookings'[b].owner \in late'
  BY Types, RowStep
<1> SUFFICES ASSUME Live(b)' PROVE Moved(b)
  BY DEF Moved
<1>2. InTime(b)
  <2>1. bookings'[b].hour \in Nat /\ bookings'[b].owner \in Users
    BY <1>1, RowAfter
  <2>2. ~Live(b) => bookings[b].owner = Nobody
    BY <1>1, RowAfter DEF NoBooking
  <2>3. CASE Live(b) /\ bookings'[b].owner = bookings[b].owner
    BY <2>3 DEF InTime
  <2>4. CASE bookings'[b].owner # bookings[b].owner
    BY <1>1, <2>1, <2>4 DEF InTime, Started
  <2>5. QED
    BY <2>1, <2>2, <2>3, <2>4, TableAssumption
<1>3. CASE bookings'[b] = bookings[b]
  BY <1>2, <1>3 DEF Moved, Owing, Live, Has
<1>4. CASE Noted(b)
  BY <1>2, <1>4 DEF Noted, Moved, Owing, Has
<1>5. CASE Exchanged(b)
  BY <1>2, <1>5 DEF Exchanged, Moved, Owing, Has
<1>6. CASE Entered(b)
  BY <1>2, <1>6 DEF Entered, Moved, Owing, Has
<1>7. ASSUME NEW p \in Handlers, Given(b, p) PROVE Moved(b)
  <2>1. "prompted" \in accepting[p].seen <=> "reported" \in accepting[p].seen
    BY <1>7, GivenRow DEF OfferKnown
  <2>2. Owing(b)' => Owing(b)
    BY <1>7, <2>1 DEF Given, Owing, Has
  <2>3. QED
    BY <1>2, <1>7, <2>2 DEF Given, Moved
<1>8. QED
  BY <1>1, <1>3, <1>4, <1>5, <1>6, <1>7 DEF RowChange, Live

\* A row of a started hour whose member is not late was the same member's.
LEMMA WasLive ==
  ASSUME IInv, [Next]_vars, NEW b \in BookingIds, Live(b)',
         Started(bookings'[b].hour), bookings'[b].owner \notin late'
  PROVE  /\ Live(b) /\ bookings'[b].hour = bookings[b].hour
         /\ bookings'[b].owner = bookings[b].owner
         /\ bookings[b].owner \notin late
BY RowsMove, RowStep DEF Moved, InTime

\* Nothing gets in front of a booking that has started.
LEMMA PlaceKept ==
  ASSUME IInv, [Next]_vars, NEW b \in BookingIds, Live(b), Live(b)',
         Started(bookings[b].hour), FirstOfChain(b),
         bookings'[b].hour = bookings[b].hour, bookings'[b].owner \notin late'
  PROVE  FirstOfChain(b)'
<1>1. bookings'[b].owner = bookings[b].owner
  BY WasLive
<1>2. SUFFICES ASSUME NEW h \in Hours, h + 1 = bookings[b].hour,
                      NEW c \in BookingIds, Live(c)', bookings'[c].hour = h,
                      bookings'[c].owner = bookings[b].owner,
                      DayOf[h] = DayOf[bookings[b].hour]
               PROVE  FALSE
  BY <1>1 DEF FirstOfChain, At
<1>3. Started(h)
  <2>1. h \in Nat /\ time \in Nat /\ bookings[b].hour \in Nat
    BY Types, TableTypes
  <2>2. QED
    BY <1>2, <2>1 DEF Started
<1>4. Live(c) /\ bookings[c].hour = h /\ bookings[c].owner = bookings[b].owner
  BY <1>1, <1>2, <1>3, WasLive
<1>5. QED
  BY <1>2, <1>4 DEF FirstOfChain, At

\* The hour of a phase.
LEMMA HourOf ==
  ASSUME NEW n \in Nat
  PROVE  HourAt(n) \in Nat /\ 2 * HourAt(n) <= n /\ n <= 2 * HourAt(n) + 1
BY DEF HourAt

\* Time and the count of missed phases go on together, but for a run's end.
LEMMA Clocks ==
  ASSUME IInv, [Next]_vars, ~GeoDone
  PROVE  \/ time' = time /\ missed' = missed
         \/ time' = time + 1 /\ missed' = missed + 1
<1>1. CASE Geo \/ Crash
  BY <1>1, StartShape, WorkShape, ExpireShape, WarnShape, EndShape
     DEF Geo, counters
<1>2. CASE \E u \in Users : Loc(u)
  BY <1>2, LocShape
<1>3. CASE Change \/ Tick \/ UNCHANGED vars
  BY <1>3 DEF Change, Members, Tick, vars, tableVars, counters
<1>4. QED
  BY <1>1, <1>2, <1>3 DEF Next

\* A booking stays recent while no full run ends.
LEMMA RecentKept ==
  ASSUME IInv, [Next]_vars, ~GeoDone, NEW b \in BookingIds, Live(b), Live(b)',
         Recent(b), bookings'[b].hour = bookings[b].hour,
         bookings'[b].owner \notin late'
  PROVE  Recent(b)'
<1>1. bookings[b].hour \in Nat /\ time \in Nat /\ missed \in Nat
  BY Types, TableTypes
<1>2. FirstOfChain(b)'
  BY PlaceKept DEF Recent
<1>3. Started(bookings[b].hour)' /\ time' <= missed' + 2 * bookings[b].hour
  BY <1>1, Clocks DEF Recent, Started
<1>4. QED
  BY <1>2, <1>3 DEF Recent

\* What a booking owes after a step it owed before, or the job has just prompted.
LEMMA OwedBefore ==
  ASSUME IInv, OwingKnown, [Next]_vars, NEW b \in BookingIds,
         Owing(b)', Counted(b)'
  PROVE  /\ Live(b) /\ Live(b)' /\ Recent(b) /\ Counted(b)
         /\ bookings'[b].hour = bookings[b].hour /\ bookings[b].hour \in Nat
         /\ \/ Owing(b) /\ Due(b)
            \/ GeoMark /\ geo.booking = b /\ geo.now = 2 * bookings[b].hour
<1>1. Live(b) /\ Live(b)' /\ bookings'[b].hour = bookings[b].hour
      /\ (Owing(b) \/ (GeoMark /\ geo.booking = b))
  BY RowsMove DEF Moved, Owing
<1>2. bookings[b].hour \in Nat
  BY <1>1, Types, TableTypes
<1>3. Started(bookings[b].hour)
  BY <1>1 DEF Owing, IInv, RowKnown, GeoMark, GeoKnown, Held
<1>4. Counted(b)
  BY <1>1, <1>3, WasLive, RowStep DEF Counted
<1>5. CASE Owing(b)
  BY <1>1, <1>2, <1>4, <1>5 DEF OwingKnown
<1>6. CASE GeoMark /\ geo.booking = b
  BY <1>1, <1>2, <1>4, <1>6 DEF OwingKnown, Asking, GeoMark
<1>7. QED
  BY <1>1, <1>5, <1>6

\* The job prompts in the check-in window.
LEMMA AskingKept ==
  ASSUME IInv, OwingKnown, [Next]_vars
  PROVE  Asking'
<1>1. SUFFICES ASSUME geo'.at \in {"send", "mark"}, NEW b, b = geo'.booking, Live(b)'
               PROVE  /\ Counted(b)' => Recent(b)'
                      /\ geo'.now = 2 * bookings'[b].hour
  BY DEF Asking, Counted, Recent, Live, Started, FirstOfChain
<1>2. b \in BookingIds /\ ~GeoDone
  <2>1. /\ geo' \in Run \cup {Idle} /\ Idle.at = "idle"
        /\ geo'.at \in {"send", "mark"} => geo'.booking # 0
    BY TypesKept DEF TypeOK, Idle
  <2>2. geo' \in Run => geo'.booking \in BookingIds \cup {0}
    BY DEF Run
  <2>3. QED
    BY <1>1, <2>1, <2>2, EndShape
<1>3. CASE /\ geo.at \in {"send", "mark"} /\ geo.booking = b /\ geo'.now = geo.now
  <2>1. b < next /\ Held(b)
    BY <1>3 DEF IInv, GeoKnown
  <2>2. Live(b) /\ bookings'[b].hour = bookings[b].hour
    BY <1>1, <1>2, <2>1, HeldStays
  <2>3. (Counted(b) => Recent(b)) /\ geo.now = 2 * bookings[b].hour
    BY <1>3, <2>2 DEF OwingKnown, Asking
  <2>4. ASSUME Counted(b)' PROVE Recent(b)'
    <3>1. Counted(b)
      BY <1>1, <1>2, <2>1, <2>2, <2>4, WasLive, RowStep DEF Counted, Held
    <3>2. QED
      BY <1>1, <1>2, <2>2, <2>3, <2>4, <3>1, RecentKept DEF Counted
  <2>5. QED
    BY <1>3, <2>2, <2>3, <2>4
<1>4. CASE GeoStart
  <2>1. Promptable(b) /\ geo'.now = time /\ bookings' = bookings
    BY <1>1, <1>4, StartShape
  <2>2. /\ Live(b) /\ time = 2 * bookings[b].hour /\ FirstOfChain(b)
        /\ missed \in Nat /\ bookings[b].hour \in Nat
    BY <1>2, <2>1, Types, TableTypes DEF Promptable, OpenAt
  <2>3. Recent(b)
    BY <2>2 DEF Recent, Started
  <2>4. QED
    BY <1>1, <1>2, <2>1, <2>2, <2>3, RecentKept DEF Counted
<1>5. CASE GeoSend
  BY <1>1, <1>3, <1>5, WorkShape
<1>6. CASE GeoMark \/ GeoExpire \/ GeoAbsent \/ GeoWarn \/ Crash
  BY <1>1, <1>6, WorkShape, ExpireShape, WarnShape, EndShape
<1>7. CASE geo' = geo
  BY <1>1, <1>3, <1>7
<1>8. QED
  BY <1>2, <1>4, <1>5, <1>6, <1>7, OthersShape DEF Geo

\* A full run in the three phases after the deadline has come to the booking.
LEMMA DoneKeeps ==
  ASSUME IInv, OwingKnown, GeoDone, MaxMissed <= 2, NEW b \in BookingIds,
         Owing(b)', Counted(b)'
  PROVE  Recent(b)' /\ Due(b)'
<1>1. /\ UNCHANGED <<bookings, time, raced, late>> /\ geo'.at = "idle"
      /\ missed' = IF geo.now = time THEN 0 ELSE missed
      /\ geo.at = "expire" /\ geo.left = 0
  BY EndShape DEF history
<1>2. Due(b)'
  BY <1>1 DEF Due
<1>3. Owing(b) /\ Counted(b)
  BY <1>1 DEF Owing, Live, Has, Counted
<1>4. Recent(b) /\ Due(b) /\ bookings[b].hour \in Nat /\ time \in Nat
      /\ missed \in 0..(MaxMissed + 1)
  BY <1>3, Types, TableTypes DEF OwingKnown, Owing
<1>5. time <= missed' + 2 * bookings[b].hour
  <2>1. CASE geo.now # time
    BY <1>1, <1>4, <2>1 DEF Recent
  <2>2. CASE geo.now = time /\ ~(time <= 2 * bookings[b].hour)
    <3>1. bookings[b].hour <= HourAt(time) + 0 - 2
      BY <1>1, <1>4, <2>2 DEF Due, Looked, HoursToExpire
    <3>2. 2 * bookings[b].hour + 4 <= time
      <4>1. PICK q \in Nat : q = HourAt(time) /\ 2 * q <= time
        BY <1>4, HourOf
      <4>2. QED
        BY <1>4, <3>1, <4>1
    <3>3. time <= MaxMissed + 1 + 2 * bookings[b].hour
      BY <1>4, CheckInAssumption DEF Recent
    <3>4. QED
      BY <1>4, <3>2, <3>3, CheckInAssumption
  <2>3. CASE geo.now = time /\ time <= 2 * bookings[b].hour
    BY <1>1, <1>4, <2>3
  <2>4. QED
    BY <2>1, <2>2, <2>3
<1>6. Recent(b)'
  BY <1>1, <1>4, <1>5 DEF Recent, Started, FirstOfChain, At, Live
<1>7. QED
  BY <1>2, <1>6

\* A run that looks at an hour leaves nothing owing there.
LEMMA DueKept ==
  ASSUME IInv, OwingKnown, [Next]_vars, ~GeoDone, NEW b \in BookingIds,
         Owing(b)', Counted(b)'
  PROVE  Due(b)'
<1>1. /\ Live(b) /\ bookings'[b].hour = bookings[b].hour /\ bookings[b].hour \in Nat
      /\ Recent(b) /\ Counted(b)
      /\ \/ Owing(b) /\ Due(b)
         \/ GeoMark /\ geo.booking = b /\ geo.now = 2 * bookings[b].hour
  BY OwedBefore
<1>2. CASE geo' = geo
  <2>1. Due(b)
    BY <1>1 DEF GeoMark, Due
  <2>2. QED
    BY <1>1, <1>2, <2>1 DEF Due, Looked
<1>3. CASE GeoStart
  <2>1. /\ geo'.now = time /\ geo'.left = 2 /\ geo'.at \in {"send", "expire"}
        /\ time \in Nat
    BY <1>3, StartShape, Types, TableTypes
  <2>2. Looked' = HourAt(time) + 2 - 2
    BY <2>1 DEF Looked, HoursToExpire
  <2>3. PICK q \in Nat : q = HourAt(time) /\ time <= 2 * q + 1
    BY <2>1, HourOf
  <2>4. time > 2 * bookings[b].hour => bookings[b].hour <= Looked'
    BY <1>1, <2>1, <2>2, <2>3
  <2>5. QED
    BY <1>1, <2>1, <2>4 DEF Due
<1>4. CASE GeoSend \/ GeoMark
  <2>1. /\ geo'.now = geo.now /\ geo'.left = geo.left
        /\ geo'.at \in {"mark", "expire"} /\ geo.at \in {"send", "mark"}
        /\ geo.now \in Nat
    BY <1>4, WorkShape, Types
  <2>2. Looked' = Looked
    BY <2>1 DEF Looked
  <2>3. QED
    BY <1>1, <2>1, <2>2 DEF Due
<1>5. CASE GeoExpire
  <2>1. /\ geo.at = "expire" /\ geo.left \in 1..2 /\ geo.now \in Nat
        /\ geo'.now = geo.now /\ HourAt(geo.now) \in Nat
    BY <1>5, ExpireShape, Types, HourOf
  <2>2. Owing(b) /\ Due(b)
    BY <1>1, <2>1 DEF GeoMark
  <2>3. CASE /\ geo'.at = "absent" /\ geo'.left = geo.left
             /\ geo'.booking \in BookingIds /\ Candidate(geo'.booking)
             /\ geo'.chain = Chain(geo'.booking)
    <3>1. Looked' = Looked
      BY <2>1, <2>3 DEF Looked
    <3>2. PICK c \in BookingIds : c = geo'.booking
      BY <2>3
    <3>3. ASSUME bookings[b].hour = Looked PROVE b \in Chain(c)
      <4>1. b = c
        BY <1>1, <2>3, <3>2, <3>3 DEF Candidate, IInv, TableInv, OnePerHour
      <4>2. QED
        BY <2>3, <3>2, <4>1, CandidateHeld
    <3>4. QED
      BY <1>1, <2>1, <2>2, <2>3, <3>1, <3>2, <3>3 DEF Due
  <2>4. CASE /\ geo'.at = "expire" /\ geo'.left = geo.left - 1
             /\ \A c \in BookingIds : ~Candidate(c)
    <3>1. Looked' = Looked - 1 /\ Looked \in Int
      BY <2>1, <2>4 DEF Looked, HoursToExpire
    <3>2. ~(geo.now > 2 * bookings[b].hour /\ bookings[b].hour = Looked)
      <4>1. ~Has(b, "verified")
        BY <1>1, <2>2 DEF Owing, Counted, IInv, RowKnown
      <4>2. QED
        BY <1>1, <2>2, <2>4, <4>1 DEF Candidate, Expired, Owing, Recent
    <3>3. QED
      BY <1>1, <2>1, <2>2, <2>4, <3>1, <3>2 DEF Due
  <2>5. QED
    BY <1>5, <2>3, <2>4, ExpireShape
<1>6. CASE GeoAbsent
  <2>1. /\ geo'.now = geo.now /\ geo'.left = geo.left /\ geo.at = "absent"
        /\ geo'.at = "warn" /\ geo.left \in 0..2 /\ HourAt(geo.now) \in Nat
    BY <1>6, WorkShape, Types, HourOf
  <2>2. Looked' = Looked /\ Looked \in Int
    BY <2>1 DEF Looked, HoursToExpire
  <2>3. Due(b)
    BY <1>1, <2>1 DEF GeoMark
  <2>4. b \notin geo.chain
    <3>1. ASSUME b \in geo.chain PROVE FALSE
      <4>1. bookings'[b] = [bookings[b] EXCEPT
              !.marks = (@ \ Unverified(b)) \cup {"prompted", "reported"}]
        BY <1>1, <1>6, <3>1 DEF GeoAbsent
      <4>2. bookings[b] \in BookingRow
        BY <1>1, Types, TableTypes
      <4>3. QED
        BY <4>1, <4>2 DEF Owing, Has, BookingRow
    <3>2. QED
      BY <3>1
  <2>5. QED
    BY <1>1, <2>1, <2>2, <2>3, <2>4 DEF Due
<1>7. CASE GeoWarn
  <2>1. /\ geo'.now = geo.now /\ geo'.left = geo.left - 1 /\ geo.at = "warn"
        /\ geo'.at = "expire" /\ geo.left \in 0..2 /\ HourAt(geo.now) \in Nat
    BY <1>7, WarnShape, Types, HourOf
  <2>2. Looked' = Looked - 1 /\ Looked \in Int
    BY <2>1 DEF Looked, HoursToExpire
  <2>3. Due(b)
    BY <1>1, <2>1 DEF GeoMark
  <2>4. QED
    BY <1>1, <2>1, <2>2, <2>3 DEF Due
<1>8. CASE Crash
  BY <1>8, EndShape DEF Due
<1>9. QED
  BY <1>2, <1>3, <1>4, <1>5, <1>6, <1>7, <1>8, OthersShape DEF Geo

\* Every step keeps the account of what is owing.
LEMMA OwingStep ==
  ASSUME MaxMissed <= 2, IInv, OwingKnown, [Next]_vars
  PROVE  OwingKnown'
<1>1. Asking'
  BY AskingKept
<1>2. ASSUME NEW b \in BookingIds, Owing(b)', Counted(b)'
      PROVE  Recent(b)' /\ Due(b)'
  <2>1. CASE GeoDone
    BY <1>2, <2>1, DoneKeeps
  <2>2. CASE ~GeoDone
    <3>1. Live(b) /\ Live(b)' /\ Recent(b) /\ bookings'[b].hour = bookings[b].hour
      BY <1>2, OwedBefore
    <3>2. Recent(b)'
      BY <1>2, <2>2, <3>1, RecentKept DEF Counted
    <3>3. QED
      BY <1>2, <2>2, <3>2, DueKept
  <2>3. QED
    BY <2>1, <2>2
<1>3. QED
  BY <1>1, <1>2 DEF OwingKnown

(***************************************************************************)
(* A prompted booking is verified or absent by the end of the next hour,   *)
(* for any members, bookings, gifts under way and crashes, as long as a    *)
(* run of the job begins and ends in one of the three phases after the     *)
(* deadline: a job that is late for more than two phases in a row may miss *)
(* it.                                                                     *)
(***************************************************************************)
THEOREM Resolved == ASSUME MaxMissed <= 2 PROVE Spec => []ResolvedInTime
<1>1. Init => OwingKnown
  BY DEF Init, TableInit, OwingKnown, Asking, Owing, Live, Idle
<1>2. IInv /\ OwingKnown /\ [Next]_vars => OwingKnown'
  BY OwingStep
<1>3. IInv /\ OwingKnown => ResolvedInTime
  <2>1. SUFFICES ASSUME IInv, OwingKnown, NEW b \in BookingIds,
                        Owing(b), Counted(b),
                        time >= 2 * bookings[b].hour + 4
                 PROVE  FALSE
    BY DEF ResolvedInTime, Owing, Counted
  <2>2. bookings[b].hour \in Nat /\ time \in Nat /\ missed \in 0..(MaxMissed + 1)
        /\ MaxMissed \in Nat
    BY <2>1, Types, TableTypes, CheckInAssumption DEF Owing
  <2>3. time <= missed + 2 * bookings[b].hour
    BY <2>1 DEF OwingKnown, Recent
  <2>4. QED
    BY <2>1, <2>2, <2>3
<1>4. QED
  BY <1>1, <1>2, <1>3, Invariant, PTL DEF Spec

-----------------------------------------------------------------------------
(* The reminder job *)

\* The job is about to record a reminder of kind k on booking b.
AboutToMark(b, k) == job.at = "mark" /\ job.booking = b /\ job.kind = k

\* Without the marker, or a job that is about to write it, every reminder
\* that went out was one that a crash made the bot forget.
RepeatPaid ==
  \A b \in BookingIds \ again, k \in Kinds :
    IF k \in bookings[b].marks \/ AboutToMark(b, k)
    THEN told[b][k] <= lost + 1
    ELSE told[b][k] <= lost

\* What the job is about to send is not recorded.
SendUnmarked ==
  job.at = "send" => job.kind \notin bookings[job.booking].marks

\* Nobody was told about a missing booking.
ToldLive == \A b \in BookingIds : ~Live(b) => told[b] = NotTold

ReminderInv ==
  TableInv /\ ReminderTypeOK /\ RepeatPaid /\ SendUnmarked /\ ToldLive

\* The empty table satisfies the invariant.
LEMMA ReminderInitHolds == ReminderInit => ReminderInv
<1> SUFFICES ASSUME ReminderInit PROVE ReminderInv
  OBVIOUS
<1>1. TableInv
  BY TableAssumption
     DEF ReminderInit, TableInit, TableInv, TableTypeOK, Fresh, OnePerHour,
         Live, BookingIds, NotAccepting
<1>2. NotTold \in [Kinds -> Nat] /\ \A k \in Kinds : NotTold[k] = 0
  BY DEF NotTold
<1>3. ReminderTypeOK /\ ToldLive
  BY <1>1, <1>2, ReminderAssumption
     DEF ReminderInit, ReminderTypeOK, TableInv, ToldLive
<1>4. RepeatPaid /\ SendUnmarked
  BY <1>2 DEF ReminderInit, TableInit, RepeatPaid, SendUnmarked, NoBooking,
              NoJob, AboutToMark
<1>5. QED
  BY <1>1, <1>3, <1>4 DEF ReminderInv

\* What the types say.
LEMMA ReminderTypes ==
  ASSUME ReminderInv
  PROVE  /\ TableTypeOK /\ lost \in Nat
         /\ told \in [BookingIds -> [Kinds -> Nat]]
         /\ \A b \in BookingIds, k \in Kinds : told[b][k] \in Nat
         /\ NotTold \in [Kinds -> Nat] /\ \A k \in Kinds : NotTold[k] = 0
         /\ job.at \in {"send", "mark"} =>
              /\ job \in Job /\ job.booking \in BookingIds
              /\ job.kind \in Kinds /\ job.to \in Users
<1>1. job \in Job \cup {NoJob}
  BY DEF ReminderInv, ReminderTypeOK
<1>2. NoJob.at = "idle"
  BY DEF NoJob
<1>3. job.at \in {"send", "mark"} => job \in Job
  BY <1>1, <1>2
<1>4. job \in Job =>
        job.booking \in BookingIds /\ job.kind \in Kinds /\ job.to \in Users
  BY DEF Job
<1>5. QED
  BY <1>3, <1>4, ReminderAssumption DEF ReminderInv, ReminderTypeOK, NotTold

\* The job selects what is not recorded, or gives up.
LEMMA SelectKeeps ==
  ASSUME ReminderInv, Select \/ Refuse \/ SendFails \/ MarkLost
  PROVE  ReminderInv'
<1>0. bookings' = bookings /\ next' = next /\ accepting' = accepting
      /\ time' = time /\ told' = told /\ again' = again /\ time \in Nat
  BY ReminderTypes, TableTypes
     DEF Select, Refuse, SendFails, MarkLost, tableVars
<1>1. TableInv' /\ ToldLive'
  BY <1>0, TableStays DEF ReminderInv, ToldLive, Live
<1>2. lost' \in 0..MaxLost /\ lost \in Nat /\ lost <= lost'
      /\ (~MarkLost => lost' = lost) /\ (MarkLost => lost' = lost + 1)
  BY ReminderAssumption
     DEF Select, Refuse, SendFails, MarkLost, ReminderInv, ReminderTypeOK
<1>3. job' \in Job \cup {NoJob}
  <2>1. CASE Select
    <3>1. PICK b \in BookingIds, k \in Kinds :
            /\ ReminderDue(b, k)
            /\ job' = [at |-> "send", booking |-> b, kind |-> k,
                       to |-> bookings[b].owner]
      BY <2>1 DEF Select
    <3>2. bookings[b].owner \in Users
      BY <3>1, ReminderTypes, TableTypes DEF ReminderDue
    <3>3. QED
      BY <3>1, <3>2 DEF Job
  <2>2. CASE Refuse
    BY <2>2, ReminderTypes DEF Refuse, Job
  <2>3. QED
    BY <2>1, <2>2 DEF SendFails, MarkLost
<1>4. ReminderTypeOK'
  BY <1>0, <1>1, <1>2, <1>3 DEF ReminderInv, ReminderTypeOK, TableInv
<1>5. RepeatPaid'
  <2> SUFFICES ASSUME NEW b \in BookingIds \ again, NEW k \in Kinds
               PROVE  IF k \in bookings[b].marks \/ AboutToMark(b, k)'
                      THEN told[b][k] <= lost' + 1
                      ELSE told[b][k] <= lost'
    BY <1>0 DEF RepeatPaid
  <2>1. /\ told[b][k] \in Nat /\ told[b][k] <= lost + 1
        /\ k \notin bookings[b].marks /\ ~AboutToMark(b, k) =>
             told[b][k] <= lost
    BY <1>2, ReminderTypes DEF ReminderInv, RepeatPaid
  <2>2. CASE MarkLost
    BY <1>2, <2>1, <2>2
  <2>3. CASE ~MarkLost
    <3>1. ~AboutToMark(b, k)
      BY <2>3 DEF Select, Refuse, SendFails, AboutToMark, NoJob
    <3>2. QED
      BY <1>2, <2>1, <2>3, <3>1
  <2>4. QED
    BY <2>2, <2>3
<1>6. SendUnmarked'
  <2>1. CASE Select
    BY <1>0, <2>1 DEF Select, ReminderDue, Unrecorded, SendUnmarked
  <2>2. CASE ~Select
    <3>1. job'.at # "send"
      BY <2>2, ReminderTypes DEF Refuse, SendFails, MarkLost, NoJob, Job
    <3>2. QED
      BY <3>1 DEF SendUnmarked
  <2>3. QED
    BY <2>1, <2>2
<1>7. QED
  BY <1>1, <1>4, <1>5, <1>6 DEF ReminderInv

\* A reminder goes out for what is not recorded.
LEMMA DeliverKeeps ==
  ASSUME ReminderInv, Deliver
  PROVE  ReminderInv'
<1> DEFINE d == job.booking
           i == job.kind
<1>1. /\ job.at = "send" /\ job \in Job /\ d \in BookingIds /\ i \in Kinds
      /\ job.to \in Users
      /\ UNCHANGED <<bookings, next, time, accepting, again, lost>>
  BY ReminderTypes DEF Deliver, tableVars
<1>2. job' \in Job /\ job'.at = "mark" /\ job'.booking = d /\ job'.kind = i
  BY <1>1 DEF Deliver, Job
<1>3. told' = told \/ (Live(d) /\ told' = [told EXCEPT ![d][i] = @ + 1])
  <2>1. bookings[d].owner = job.to => Live(d)
    BY <1>1, TableAssumption DEF Live, NoBooking
  <2>2. QED
    BY <2>1 DEF Deliver
<1> HIDE DEF d, i
<1>4. \A b \in BookingIds, k \in Kinds :
        \/ told'[b][k] = told[b][k]
        \/ b = d /\ k = i /\ told'[b][k] = told[b][k] + 1
  BY <1>1, <1>3, ReminderTypes
<1>5. TableInv' /\ time \in Nat
  BY <1>1, ReminderTypes, TableTypes, TableStays DEF ReminderInv
<1>6. ReminderTypeOK'
  <2>1. told' \in [BookingIds -> [Kinds -> Nat]]
    BY <1>1, <1>3, ReminderTypes
  <2>2. QED
    BY <1>1, <1>2, <1>5, <2>1 DEF ReminderInv, ReminderTypeOK, TableInv
<1>7. RepeatPaid'
  <2> SUFFICES ASSUME NEW b \in BookingIds \ again, NEW k \in Kinds
               PROVE  IF k \in bookings[b].marks \/ AboutToMark(b, k)'
                      THEN told'[b][k] <= lost + 1
                      ELSE told'[b][k] <= lost
    BY <1>1 DEF RepeatPaid
  <2>1. /\ told[b][k] \in Nat /\ lost \in Nat /\ told[b][k] <= lost + 1
        /\ k \notin bookings[b].marks => told[b][k] <= lost
    BY <1>1, ReminderTypes DEF ReminderInv, RepeatPaid, AboutToMark
  <2>2. CASE b = d /\ k = i
    <3>1. k \notin bookings[b].marks
      BY <1>1, <2>2 DEF ReminderInv, SendUnmarked, d, i
    <3>2. AboutToMark(b, k)'
      BY <1>2, <2>2 DEF AboutToMark
    <3>3. QED
      BY <1>4, <2>1, <3>1, <3>2
  <2>3. CASE ~(b = d /\ k = i)
    BY <1>4, <2>1, <2>3
  <2>4. QED
    BY <2>2, <2>3
<1>8. SendUnmarked' /\ ToldLive'
  BY <1>1, <1>2, <1>3, ReminderTypes
     DEF ReminderInv, SendUnmarked, ToldLive, Live
<1>9. QED
  BY <1>5, <1>6, <1>7, <1>8 DEF ReminderInv

\* The marker of a reminder that went out is written.
LEMMA MarkKeeps ==
  ASSUME ReminderInv, Mark
  PROVE  ReminderInv'
<1> DEFINE d == job.booking
           i == job.kind
<1>1. /\ job.at = "mark" /\ job \in Job /\ d \in BookingIds /\ i \in Kinds
      /\ job' = NoJob
      /\ UNCHANGED <<next, time, accepting, told, again, lost>>
  BY ReminderTypes DEF Mark
<1>2. /\ \A b \in BookingIds \ {d} : bookings'[b] = bookings[b]
      /\ ~Live(d) => bookings'[d] = bookings[d]
      /\ Live(d) =>
           bookings'[d] = [bookings[d] EXCEPT !.marks = @ \cup {i}]
      /\ bookings' = [b \in BookingIds |-> bookings'[b]]
  BY <1>1, ReminderTypes, TableTypes DEF Mark
<1>3. i \in Columns
  BY <1>1 DEF Kinds, Columns
<1> HIDE DEF d, i
<1>4. Live(d) => /\ bookings'[d] \in BookingRow
                 /\ bookings'[d].hour = bookings[d].hour
                 /\ bookings'[d].marks = bookings[d].marks \cup {i}
  BY <1>1, <1>2, <1>3, ReminderTypes, TableTypes DEF BookingRow
<1>5. \A b \in BookingIds :
        /\ Live(b)' <=> Live(b)
        /\ ~Live(b) => bookings'[b] = bookings[b]
        /\ bookings'[b].hour = bookings[b].hour
        /\ bookings'[b].marks =
             IF b = d /\ Live(b) THEN bookings[b].marks \cup {i}
                                 ELSE bookings[b].marks
  BY <1>2, <1>4, RowIsLive DEF Live
<1>6. bookings' \in [BookingIds -> BookingRow \cup {NoBooking}]
  BY <1>1, <1>2, <1>4, ReminderTypes, TableTypes
<1>7. TableTypeOK'
  BY <1>1, <1>6, ReminderTypes DEF TableTypeOK
<1>8. TableInv'
  <2>1. \A b \in BookingIds :
          \/ bookings'[b] = NoBooking
          \/ Live(b) /\ bookings'[b].hour = bookings[b].hour
    BY <1>5 DEF Live
  <2>2. QED
    BY <1>1, <1>7, <2>1, TableKept DEF ReminderInv
<1>9. RepeatPaid'
  <2> SUFFICES ASSUME NEW b \in BookingIds \ again, NEW k \in Kinds
               PROVE  IF k \in bookings'[b].marks
                      THEN told[b][k] <= lost + 1 ELSE told[b][k] <= lost
    BY <1>1 DEF RepeatPaid, AboutToMark, NoJob
  <2>1. /\ told[b][k] \in Nat /\ lost \in Nat /\ told[b][k] <= lost + 1
        /\ k \notin bookings[b].marks /\ ~(b = d /\ k = i) =>
             told[b][k] <= lost
    BY <1>1, ReminderTypes DEF ReminderInv, RepeatPaid, AboutToMark, d, i
  <2>2. ~Live(b) => told[b][k] = 0
    BY ReminderTypes DEF ReminderInv, ToldLive
  <2>3. CASE k \in bookings'[b].marks
    BY <2>1, <2>3
  <2>4. CASE k \notin bookings'[b].marks
    <3>1. told[b][k] <= lost
      <4>1. CASE b = d /\ k = i
        <5>1. ~Live(b)
          BY <1>5, <2>4, <4>1
        <5>2. QED
          BY <2>1, <2>2, <5>1
      <4>2. CASE ~(b = d /\ k = i)
        <5>1. k \notin bookings[b].marks
          BY <1>5, <2>4, <4>2
        <5>2. QED
          BY <2>1, <4>2, <5>1
      <4>3. QED
        BY <4>1, <4>2
    <3>2. QED
      BY <2>4, <3>1
  <2>5. QED
    BY <2>3, <2>4
<1>10. SendUnmarked' /\ ToldLive' /\ ReminderTypeOK'
  BY <1>1, <1>5, <1>7
     DEF ReminderInv, SendUnmarked, ToldLive, ReminderTypeOK, NoJob
<1>11. QED
  BY <1>8, <1>9, <1>10 DEF ReminderInv

\* Whatever members do to bookings.
LEMMA ChangeKeepsReminders ==
  ASSUME ReminderInv, BookingsChange
  PROVE  ReminderInv'
<1>1. TableInv' /\ \A b \in BookingIds : RowChange(b)
  BY MembersKeepTable, MemberChanges DEF ReminderInv, BookingsChange
<1>2. /\ job' = job /\ lost' = lost /\ again' = again \cup GivenAgain
      /\ told' = [b \in BookingIds |-> IF HandedOn(b) THEN NotTold ELSE told[b]]
  BY DEF BookingsChange
<1>3. ReminderTypeOK'
  <2>1. told' \in [BookingIds -> [Kinds -> Nat]]
    BY <1>2, ReminderTypes
  <2>2. again' \subseteq BookingIds
    BY <1>2 DEF GivenAgain, ReminderInv, ReminderTypeOK
  <2>3. QED
    BY <1>1, <1>2, <2>1, <2>2 DEF ReminderInv, ReminderTypeOK, TableInv
<1>4. RepeatPaid'
  <2> SUFFICES ASSUME NEW b \in BookingIds \ again', NEW k \in Kinds
               PROVE  IF k \in bookings'[b].marks \/ AboutToMark(b, k)
                      THEN told'[b][k] <= lost + 1
                      ELSE told'[b][k] <= lost
    BY <1>2 DEF RepeatPaid, AboutToMark
  <2>1. CASE HandedOn(b)
    BY <1>2, <2>1, ReminderTypes
  <2>2. CASE ~HandedOn(b)
    <3>1. b \notin again /\ bookings'[b].marks = bookings[b].marks
          /\ told'[b] = told[b]
      BY <1>2, <2>2 DEF GivenAgain
    <3>2. QED
      BY <3>1 DEF ReminderInv, RepeatPaid
  <2>3. QED
    BY <2>1, <2>2
<1>5. SendUnmarked'
  <2> SUFFICES ASSUME job.at = "send"
               PROVE  job.kind \notin bookings'[job.booking].marks
    BY <1>2 DEF SendUnmarked
  <2>1. job.booking \in BookingIds /\ job.kind \notin bookings[job.booking].marks
    BY ReminderTypes DEF ReminderInv, SendUnmarked
  <2>2. \A b \in BookingIds : bookings'[b].marks \subseteq bookings[b].marks
    BY <1>1 DEF RowChange, NoBooking, Entered, Exchanged, Given
  <2>3. QED
    BY <2>1, <2>2
<1>6. ToldLive'
  <2> SUFFICES ASSUME NEW b \in BookingIds, ~Live(b)'
               PROVE  told'[b] = NotTold
    BY DEF ToldLive
  <2>1. bookings'[b] = NoBooking
    BY DEF Live
  <2>2. CASE Live(b)
    <3>1. HandedOn(b)
      BY <2>1, <2>2, ReminderTypes, TableTypes, TableAssumption
         DEF HandedOn, NoBooking
    <3>2. QED
      BY <1>2, <3>1
  <2>3. CASE ~Live(b)
    BY <1>2, <2>3 DEF ReminderInv, ToldLive
  <2>4. QED
    BY <2>2, <2>3
<1>7. QED
  BY <1>1, <1>3, <1>4, <1>5, <1>6 DEF ReminderInv

\* Every step keeps the invariant.
LEMMA ReminderStep == ReminderInv /\ [ReminderNext]_reminderVars => ReminderInv'
<1> SUFFICES ASSUME ReminderInv, [ReminderNext]_reminderVars
             PROVE  ReminderInv'
  OBVIOUS
<1>1. CASE HalfHour \/ UNCHANGED reminderVars
  <2>1. /\ UNCHANGED <<bookings, next, accepting, job, told, again, lost>>
        /\ time' \in Nat
    BY <1>1, ReminderTypes, TableTypes
       DEF HalfHour, reminderVars, tableVars
  <2>2. TableInv'
    BY <2>1, TableStays DEF ReminderInv
  <2>3. QED
    BY <2>1, <2>2 DEF ReminderInv, ReminderTypeOK, RepeatPaid, SendUnmarked,
                      ToldLive, TableInv, AboutToMark, Live
<1>2. QED
  BY <1>1, SelectKeeps, DeliverKeeps, MarkKeeps, ChangeKeepsReminders
     DEF ReminderNext

(***************************************************************************)
(* The inductive invariant of the reminder job holds in every reachable    *)
(* state.                                                                  *)
(***************************************************************************)
THEOREM ReminderInvariant == ReminderSpec => []ReminderInv
<1>1. ReminderInit => ReminderInv
  BY ReminderInitHolds
<1>2. ReminderInv /\ [ReminderNext]_reminderVars => ReminderInv'
  BY ReminderStep
<1>3. QED
  BY <1>1, <1>2, PTL DEF ReminderSpec

(***************************************************************************)
(* Every variable of Reminders keeps its type: the marker of a booking     *)
(* that is gone is not written.                                            *)
(***************************************************************************)
THEOREM ReminderTyped == ReminderSpec => []ReminderTypeOK
<1>1. ReminderInv => ReminderTypeOK
  BY DEF ReminderInv
<1>2. QED
  BY <1>1, ReminderInvariant, PTL

(***************************************************************************)
(* A member gets no reminder twice without a crash or a lost answer in     *)
(* between (process_reminders and the marker columns), but for a booking   *)
(* whose gift was accepted a second time.                                  *)
(***************************************************************************)
THEOREM RepeatsArePaid == ReminderSpec => []ToldOnce
<1>1. ReminderInv => ToldOnce
  <2>1. SUFFICES ASSUME ReminderInv, NEW b \in BookingIds \ again, NEW k \in Kinds
                 PROVE  told[b][k] <= 1 + lost
    BY DEF ToldOnce
  <2>2. told[b][k] \in Nat /\ lost \in Nat
    BY <2>1, ReminderTypes
  <2>3. told[b][k] <= lost + 1
    BY <2>1, <2>2 DEF ReminderInv, RepeatPaid
  <2>4. QED
    BY <2>2, <2>3
<1>2. QED
  BY <1>1, ReminderInvariant, PTL
=============================================================================
