----------------------------- MODULE Reminders -----------------------------
(***************************************************************************)
(* The reminder job against everybody who changes bookings meanwhile.      *)
(*                                                                         *)
(* process_reminders runs every minute, one run at a time: it selects the  *)
(* booking whose reminder is due and not yet recorded, sends a message,    *)
(* and records the reminder on the booking. Between any two of these the   *)
(* booking may be cancelled, given away or swapped, time may pass, and     *)
(* the process may die.                                                    *)
(***************************************************************************)
EXTENDS BookingTable

CONSTANTS
  Blocked,        \* members who have blocked the bot
  Ahead,          \* reminder_hours
  MaxLost         \* bound: crashes and lost answers

Kinds == {"hourly", "fifteen"}

ASSUME ReminderAssumption ==
  /\ Ahead \in Nat
  /\ MaxLost \in Nat

\* Half hours: the reminder_hours reminder is due within the first half of an
\* hour, the 15-minute reminder in the last.
VARIABLES
  job,       \* the running job: where it is, with which booking and member
  told,      \* reminders the present owner of a booking got about it
  again,     \* bookings given to their owner a second time
  lost       \* crashes and lost answers so far

reminderVars == <<tableVars, job, told, again, lost>>

NotTold == [k \in Kinds |-> 0]

NoJob == [at |-> "idle", booking |-> 0, kind |-> "none", to |-> Nobody]
Job   == [at : {"send", "mark"}, booking : BookingIds, kind : Kinds, to : Users]

-----------------------------------------------------------------------------
(* What is due *)

\* The hour whose reminder of kind k can be due now.
DueHour(k) ==
  (time \div 2) + (IF k = "hourly" THEN Ahead ELSE 1)

InWindow(k) == time % 2 = (IF k = "hourly" THEN 0 ELSE 1)

\* Mutant of Unrecorded: the marker column of the other kind.
UnrecordedMixed(b, k) == (Kinds \ {k}) \cap bookings[b].marks = {}

Unrecorded(b, k) == k \notin bookings[b].marks

\* Only the first booking of a chain is reminded.
ReminderDue(b, k) ==
  /\ Live(b) /\ InWindow(k)
  /\ bookings[b].hour = DueHour(k)
  /\ Unrecorded(b, k)
  /\ FirstOfChain(b)

-----------------------------------------------------------------------------
(* The job *)

\* Mutant of Select: the second call of _send_due_reminders is left out.
SelectHourly ==
  /\ job = NoJob
  /\ \E b \in BookingIds :
       /\ ReminderDue(b, "hourly")
       /\ job' = [at |-> "send", booking |-> b, kind |-> "hourly",
                  to |-> bookings[b].owner]
  /\ UNCHANGED <<tableVars, told, again, lost>>

\* Both queries of _send_due_reminders; nothing awaits between them and the
\* send but the end of the session.
Select ==
  /\ job = NoJob
  /\ \E b \in BookingIds, k \in Kinds :
       /\ ReminderDue(b, k)
       /\ job' = [at |-> "send", booking |-> b, kind |-> k,
                  to |-> bookings[b].owner]
  /\ UNCHANGED <<tableVars, told, again, lost>>

\* The message arrives at the member the booking had when it was selected.
Deliver ==
  /\ job.at = "send" /\ job.to \notin Blocked
  /\ told' = IF bookings[job.booking].owner = job.to
             THEN [told EXCEPT ![job.booking][job.kind] = @ + 1]
             ELSE told
  /\ job' = [job EXCEPT !.at = "mark"]
  /\ UNCHANGED <<tableVars, again, lost>>

\* A permanent error counts as handled.
Refuse ==
  /\ job.at = "send" /\ job.to \in Blocked
  /\ job' = [job EXCEPT !.at = "mark"]
  /\ UNCHANGED <<tableVars, told, again, lost>>

\* Any other error, or a crash before the message is out: a later tick tries
\* again.
SendFails ==
  /\ job.at = "send"
  /\ job' = NoJob
  /\ UNCHANGED <<tableVars, told, again, lost>>

\* Mutant of Mark: the row is written back, deleted or not.
MarkBlind ==
  /\ job.at = "mark"
  /\ bookings' = [bookings EXCEPT ![job.booking].marks = @ \cup {job.kind}]
  /\ job' = NoJob
  /\ UNCHANGED <<next, time, accepting, told, again, lost>>

\* _mark_reminded: by id, whoever owns the booking by now.
Mark ==
  /\ job.at = "mark"
  /\ bookings' = IF Live(job.booking)
                 THEN [bookings EXCEPT ![job.booking].marks = @ \cup {job.kind}]
                 ELSE bookings
  /\ job' = NoJob
  /\ UNCHANGED <<next, time, accepting, told, again, lost>>

\* The message is out, and the process dies, the answer of Telegram is lost,
\* or the UPDATE fails, before the marker is committed.
MarkLost ==
  /\ job.at = "mark" /\ lost < MaxLost
  /\ lost' = lost + 1
  /\ job' = NoJob
  /\ UNCHANGED <<tableVars, told, again>>

-----------------------------------------------------------------------------
(* Everybody else *)

\* Nobody was told about a booking they have just got. A second acceptance of
\* one gift gives its booking to the owner it has.
HandedOn(b) == bookings'[b].owner # bookings[b].owner
GivenAgain ==
  {b \in BookingIds : ~HandedOn(b) /\ bookings'[b].marks # bookings[b].marks}

BookingsChange ==
  /\ Members
  /\ told' = [b \in BookingIds |-> IF HandedOn(b) THEN NotTold ELSE told[b]]
  /\ again' = again \cup GivenAgain
  /\ UNCHANGED <<job, lost>>

HalfHour ==
  /\ time < Horizon
  /\ time' = time + 1
  /\ UNCHANGED <<bookings, next, accepting, job, told, again, lost>>

-----------------------------------------------------------------------------
(* Specification *)

ReminderInit ==
  /\ TableInit
  /\ job = NoJob
  /\ told = [b \in BookingIds |-> NotTold]
  /\ again = {}
  /\ lost = 0

ReminderNext ==
  \/ Select \/ Deliver \/ Refuse \/ SendFails \/ Mark \/ MarkLost
  \/ BookingsChange
  \/ HalfHour

ReminderSpec == ReminderInit /\ [][ReminderNext]_reminderVars

\* The scheduler starts the job every minute, the event loop runs it, and
\* Telegram does not fail for ever.
ReminderFairSpec ==
  /\ ReminderSpec
  /\ WF_reminderVars(Select) /\ WF_reminderVars(Mark)
  /\ SF_reminderVars(Deliver \/ Refuse)

-----------------------------------------------------------------------------
(* Properties *)

(***************************************************************************)
(* Every variable has its type.                                            *)
(***************************************************************************)
ReminderTypeOK ==
  /\ TableTypeOK
  /\ job \in Job \cup {NoJob}
  /\ told \in [BookingIds -> [Kinds -> Nat]]
  /\ again \subseteq BookingIds
  /\ lost \in 0..MaxLost

(***************************************************************************)
(* Nobody is reminded of a booking twice, unless a crash or a lost answer  *)
(* came between the message and the marker: every repeated reminder costs  *)
(* one of them. Whoever accepts one gift twice over gets the booking again *)
(* without its markers.                                                    *)
(***************************************************************************)
ToldOnce ==
  \A b \in BookingIds \ again, k \in Kinds : told[b][k] <= 1 + lost

(***************************************************************************)
(* A due reminder does not stay due: it is sent and recorded, on a later   *)
(* tick if it has to be, before its window closes or its booking changes.  *)
(***************************************************************************)
NoneLeftDue ==
  \A b \in BookingIds, k \in Kinds : ReminderDue(b, k) ~> ~ReminderDue(b, k)
=============================================================================
