------------------------------ MODULE CheckIn ------------------------------
(***************************************************************************)
(* Check-in: the geo job prompts for a location and records absences,      *)
(* members send locations, and bookings change meanwhile.                  *)
(*                                                                         *)
(* process_geo_checks runs every minute, one run at a time, with the time  *)
(* it read when it started. handle_location runs once for each location a  *)
(* member sends. Both read bookings and act on what they have read some    *)
(* awaits later.                                                           *)
(***************************************************************************)
EXTENDS BookingTable

CONSTANTS
  MaxFaults,      \* bound: crashes and answers of Telegram that are lost
  MaxMissed       \* phases in a row without a complete run of the geo job

ASSUME CheckInAssumption ==
  /\ MaxFaults \in Nat
  /\ MaxMissed \in Nat

\* Half hours are phases here: in phase 2h the check-in window of hour h is
\* open, in phase 2h + 1 its deadline has passed.
VARIABLES
  geo,       \* the geo job
  loc,       \* each member's location handler
  asked,     \* prompts sent for a booking
  charged,   \* absence warnings for a booking
  faults,    \* crashes and lost answers so far
  missed,    \* phases in a row, the present one included, with no full run
  raced,     \* bookings that two handlers have accepted at once
  late       \* members who got a booking after its hour had started

counters == <<asked, charged, faults, missed>>
history  == <<raced, late>>
vars     == <<tableVars, geo, loc, counters, history>>

Has(b, column) == column \in bookings[b].marks

HourAt(t)    == t \div 2
OpenAt(h, t) == t = 2 * h

\* The table with the rows of B marked in columns C.
Record(B, C) ==
  bookings' = [b \in BookingIds |->
                 IF b \in B /\ Live(b)
                 THEN [bookings[b] EXCEPT !.marks = @ \cup C]
                 ELSE bookings[b]]

\* get_chain_booking_ids: b and what follows without a gap.
Chain(b) ==
  {c \in BookingIds :
     \E h \in Hours :
       /\ c \in At(bookings[b].owner, h, bookings[b].hour)
       /\ \A g \in bookings[b].hour .. h :
            At(bookings[b].owner, g, bookings[b].hour) # {}}

-----------------------------------------------------------------------------
(* The geo job *)

Idle == [at |-> "idle", now |-> 0, left |-> 0, booking |-> 0,
         owner |-> Nobody, chain |-> {}]
Run  == [at : {"send", "mark", "expire", "absent", "warn"}, now : Nat,
         left : 0..2, booking : BookingIds \cup {0},
         owner : Users \cup {Nobody}, chain : SUBSET BookingIds]

\* Mutant of Promptable: location_prompted is not asked for.
PromptableAgain(b) ==
  /\ Live(b)
  /\ OpenAt(bookings[b].hour, time)
  /\ ~Has(b, "reported")
  /\ FirstOfChain(b)

Promptable(b) ==
  /\ Live(b)
  /\ OpenAt(bookings[b].hour, time)
  /\ ~Has(b, "prompted") /\ ~Has(b, "reported")
  /\ FirstOfChain(b)

\* Mutant of HoursToExpire: the current hour only.
CurrentHourOnly == 1

\* The hours a run looks at: the current one, then the previous one.
HoursToExpire == 2

\* The run reads the time, and in the check-in window of the hour whom to
\* prompt; there is one booking of an hour at most.
GeoStart ==
  /\ geo = Idle
  /\ LET run == [Idle EXCEPT !.now = time, !.left = HoursToExpire] IN
     \/ \E b \in BookingIds :
          /\ Promptable(b)
          /\ geo' = [run EXCEPT !.at = "send", !.booking = b,
                                !.owner = bookings[b].owner]
     \/ /\ \A b \in BookingIds : ~Promptable(b)
        /\ geo' = [run EXCEPT !.at = "expire"]
  /\ UNCHANGED <<tableVars, loc, counters, history>>

\* The member is asked for a location, or send_message raises and the booking
\* stays unmarked for a later tick. It raises without having sent the message,
\* or because the answer to a message that was delivered is lost.
GeoSend ==
  /\ geo.at = "send"
  /\ \/ /\ asked' = [asked EXCEPT ![geo.booking] = @ + 1]
        /\ geo' = [geo EXCEPT !.at = "mark"]
        /\ UNCHANGED faults
     \/ /\ geo' = [geo EXCEPT !.at = "expire"]
        /\ UNCHANGED <<asked, faults>>
     \/ /\ faults < MaxFaults
        /\ faults' = faults + 1
        /\ asked' = [asked EXCEPT ![geo.booking] = @ + 1]
        /\ geo' = [geo EXCEPT !.at = "expire"]
  /\ UNCHANGED <<tableVars, loc, charged, missed, history>>

\* Mutant of GeoMark: the row is written back, deleted or not.
GeoMarkBlind ==
  /\ geo.at = "mark"
  /\ bookings' = [bookings EXCEPT ![geo.booking].marks = @ \cup {"prompted"}]
  /\ geo' = [geo EXCEPT !.at = "expire"]
  /\ UNCHANGED <<next, time, accepting, loc, counters, history>>

\* location_prompted is written by id.
GeoMark ==
  /\ geo.at = "mark"
  /\ Record({geo.booking}, {"prompted"})
  /\ geo' = [geo EXCEPT !.at = "expire"]
  /\ UNCHANGED <<next, time, accepting, loc, counters, history>>

\* The hour a run looks at next, and whether its deadline had passed when the
\* run read the time.
Looked  == HourAt(geo.now) + geo.left - HoursToExpire
Expired == geo.now > 2 * Looked

Candidate(b) ==
  /\ Live(b) /\ bookings[b].hour = Looked /\ Expired
  /\ Has(b, "prompted") /\ ~Has(b, "reported") /\ ~Has(b, "verified")
  /\ FirstOfChain(b)

\* Candidates and their chains are read; absences are recorded later.
GeoExpire ==
  /\ geo.at = "expire" /\ geo.left > 0
  /\ \/ \E b \in BookingIds :
          /\ Candidate(b)
          /\ geo' = [geo EXCEPT !.at = "absent", !.booking = b,
                       !.owner = bookings[b].owner, !.chain = Chain(b)]
     \/ /\ \A b \in BookingIds : ~Candidate(b)
        /\ geo' = [geo EXCEPT !.left = @ - 1]
  /\ UNCHANGED <<tableVars, loc, counters, history>>

\* What record_absence takes back.
Unverified(b) == IF bookings[b].owner = geo.owner THEN {"verified"} ELSE {}

\* record_absence for each booking of the chain that is still the member's,
\* then one UPDATE of the whole chain by id.
GeoAbsent ==
  /\ geo.at = "absent"
  /\ bookings' =
       [b \in BookingIds |->
          IF b \in geo.chain /\ Live(b)
          THEN [bookings[b] EXCEPT
                  !.marks = (@ \ Unverified(b)) \cup {"prompted", "reported"}]
          ELSE bookings[b]]
  /\ geo' = [geo EXCEPT !.at = "warn"]
  /\ UNCHANGED <<next, time, accepting, loc, counters, history>>

\* add_warning, unless the member is banned or it fails.
GeoWarn ==
  /\ geo.at = "warn"
  /\ \/ charged' = [charged EXCEPT ![geo.booking] = @ + 1]
     \/ UNCHANGED charged
  /\ geo' = [geo EXCEPT !.at = "expire", !.left = @ - 1, !.chain = {}]
  /\ UNCHANGED <<tableVars, loc, asked, faults, missed, history>>

\* A run is complete. It counts for this phase if it began in it.
GeoDone ==
  /\ geo.at = "expire" /\ geo.left = 0
  /\ geo' = Idle
  /\ missed' = IF geo.now = time THEN 0 ELSE missed
  /\ UNCHANGED <<tableVars, loc, asked, charged, faults, history>>

Crash ==
  /\ geo # Idle /\ faults < MaxFaults
  /\ faults' = faults + 1
  /\ geo' = Idle
  /\ UNCHANGED <<tableVars, loc, asked, charged, missed, history>>

-----------------------------------------------------------------------------
(* The location handler *)

Quiet == [at |-> "idle", booking |-> 0]

SetLoc(u, at, b) == loc' = [loc EXCEPT ![u] = [at |-> at, booking |-> b]]

IsStill(b, u) == Live(b) /\ bookings[b].owner = u

\* A location from u while u has the current booking and nothing is recorded
\* on it, before its deadline or after it. Locations from outside the geofence
\* are answered and forgotten.
LocStart(u) ==
  /\ loc[u] = Quiet
  /\ \E b \in BookingIds :
       /\ IsStill(b, u)
       /\ bookings[b].hour = HourAt(time)
       /\ ~Has(b, "reported")
       /\ SetLoc(u, IF OpenAt(bookings[b].hour, time) THEN "verify"
                                                   ELSE "late", b)
  /\ UNCHANGED <<tableVars, geo, counters, history>>

\* What follows b without a gap and has nothing recorded on it.
Followers(b, u) ==
  {c \in BookingIds :
     \E h \in Hours :
       /\ h > bookings[b].hour
       /\ c \in At(u, h, bookings[b].hour)
       /\ \A g \in bookings[b].hour + 1 .. h :
            \E d \in At(u, g, bookings[b].hour) : ~Has(d, "reported")}

\* mark_attendance_chain_verified: the booking as it was read, and its
\* followers as they are. A booking that is gone ends the request.
LocVerify(u) ==
  LET b == loc[u].booking IN
    /\ loc[u].at = "verify"
    /\ \/ /\ IsStill(b, u)
          /\ Record({b} \cup Followers(b, u),
                    {"prompted", "reported", "verified"})
       \/ ~IsStill(b, u) /\ UNCHANGED bookings
    /\ SetLoc(u, "idle", 0)
    /\ UNCHANGED <<next, time, accepting, geo, counters, history>>

\* record_absence on the booking that was read. attendance_verified was read
\* as false, and a column that does not change is not written.
LocAbsent(u) ==
  LET b == loc[u].booking IN
    /\ loc[u].at = "late"
    /\ \/ /\ IsStill(b, u)
          /\ Record({b}, {"prompted", "reported"})
          /\ SetLoc(u, "warn", b)
       \/ /\ ~IsStill(b, u)
          /\ SetLoc(u, "idle", 0)
          /\ UNCHANGED bookings
    /\ UNCHANGED <<next, time, accepting, geo, counters, history>>

\* add_warning, unless the member is banned or it fails.
LocWarn(u) ==
  /\ loc[u].at = "warn"
  /\ \/ charged' = [charged EXCEPT ![loc[u].booking] = @ + 1]
     \/ UNCHANGED charged
  /\ SetLoc(u, "idle", 0)
  /\ UNCHANGED <<tableVars, geo, asked, faults, missed, history>>

-----------------------------------------------------------------------------
(* Everybody else *)

\* Bookings for which a second handler has an acceptance under way.
Contested ==
  {b \in BookingIds :
     \E p, q \in Handlers :
       p # q /\ accepting[p].booking = b /\ accepting[q].booking = b}

\* Who gets a booking whose hour has started.
Latecomers ==
  {u \in Users :
     \E b \in BookingIds :
       /\ bookings'[b].owner = u /\ bookings[b].owner # u
       /\ Started(bookings'[b].hour)}

Change ==
  /\ Members
  /\ raced' = raced \cup Contested'
  /\ late' = late \cup Latecomers
  /\ UNCHANGED <<geo, loc, counters>>

\* Time passes, but the scheduler is not late for ever: at most MaxMissed
\* phases in a row end without a complete run of the job.
Tick ==
  /\ time < Horizon /\ missed <= MaxMissed
  /\ time' = time + 1
  /\ missed' = missed + 1
  /\ UNCHANGED <<bookings, next, accepting, geo, loc, asked, charged, faults,
                 history>>

-----------------------------------------------------------------------------
(* Specification *)

Init ==
  /\ TableInit
  /\ geo = Idle
  /\ loc = [u \in Users |-> Quiet]
  /\ asked = [b \in BookingIds |-> 0]
  /\ charged = [b \in BookingIds |-> 0]
  /\ faults = 0
  /\ missed = 1
  /\ raced = {}
  /\ late = {}

Geo == GeoStart \/ GeoSend \/ GeoMark \/ GeoExpire \/ GeoAbsent \/ GeoWarn
         \/ GeoDone

Loc(u) == LocStart(u) \/ LocVerify(u) \/ LocAbsent(u) \/ LocWarn(u)

Next == Geo \/ Crash \/ (\E u \in Users : Loc(u)) \/ Change \/ Tick

Spec == Init /\ [][Next]_vars

-----------------------------------------------------------------------------
(* Properties *)

(***************************************************************************)
(* Every variable has its type.                                            *)
(***************************************************************************)
TypeOK ==
  /\ TableTypeOK
  /\ geo \in Run \cup {Idle}
  /\ geo.at \in {"send", "mark", "absent", "warn"} => geo.booking # 0
  /\ loc \in [Users -> [at : {"verify", "late", "warn"},
                        booking : BookingIds] \cup {Quiet}]
  /\ asked \in [BookingIds -> Nat]
  /\ charged \in [BookingIds -> Nat]
  /\ faults \in 0..MaxFaults
  /\ missed \in 0..(MaxMissed + 1)
  /\ raced \subseteq BookingIds
  /\ late \subseteq Users

(***************************************************************************)
(* What two jobs and two kinds of handler write on a booking fits          *)
(* together: a recorded booking is never prompted for, a verified booking  *)
(* is a recorded one, and a warning was given for a recorded one, whatever *)
(* was cancelled, given away or taken up again between result and warning. *)
(* Two acceptances of one booking at a time may break the last two.        *)
(***************************************************************************)
ColumnsAgree ==
  \A b \in BookingIds :
    /\ Has(b, "reported") => Has(b, "prompted")
    /\ b \notin raced =>
         /\ Has(b, "verified") => Has(b, "reported")
         /\ Live(b) /\ charged[b] > 0 => Has(b, "reported")

(***************************************************************************)
(* A booking is prompted for once, and every repeated prompt costs a crash *)
(* between the message and location_prompted, or an answer of Telegram     *)
(* that was lost after the message was delivered. Two acceptances of one   *)
(* booking at a time may have it prompted for again.                       *)
(***************************************************************************)
PromptedOnce == \A b \in BookingIds \ raced : asked[b] <= 1 + faults

(***************************************************************************)
(* A prompted booking is verified or absent by the end of the next hour,   *)
(* as long as the job completes a run in one of the three phases after the *)
(* deadline: that is what the previous hour is looked at for. A member who *)
(* gets a booking of an hour that has started may be missed.               *)
(***************************************************************************)
ResolvedInTime ==
  \A b \in BookingIds \ raced :
    /\ Live(b) /\ Has(b, "prompted")
    /\ bookings[b].owner \notin late
    /\ time >= 2 * bookings[b].hour + 4
    => Has(b, "reported")
=============================================================================
