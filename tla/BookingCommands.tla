--------------------------- MODULE BookingCommands --------------------------
(***************************************************************************)
(* Booking a slot, cancelling a booking, the admin's weekly slots and the  *)
(* weekly reset: booking_service.py, club_service.py, and the handlers     *)
(* that call them.                                                         *)
(***************************************************************************)
EXTENDS BookingStore

-----------------------------------------------------------------------------
(* Booking a slot *)

\* handle_pick_hour, handle_book_consecutive and handle_flash_book reject a
\* slot that has started and a member without access; the admin's form checks
\* access only. safe_create_booking then rejects a weekly reserved slot.
BookStart(p) ==
  \E r \in Requests :
    /\ r.op = "book"
    /\ r.by = "member" => ~Past(r.slot)
    /\ r.user \in access
    /\ ~IsReserved(r.slot)
    /\ IdLeft(serial.booking, MaxBookings, {"bookLimit", "bookInsert"})
    /\ Begin(p, r, {}, "bookLimit")
    /\ UNCHANGED <<tables, setting, draft, held>>

\* Mutants of LimitCheck: without the lock, and with one booking too many.
LimitCheckUnlocked(p, s, next) ==
  /\ GoTo(p, IF Count(req[p].user, WeekOf[s]) >= Limit THEN "closing" ELSE next)
  /\ UNCHANGED held

LimitCheckOffByOne(p, s, next) ==
  LET lock == LimitLock(req[p].user, WeekOf[s]) IN
    /\ Free(p, {lock})
    /\ held' = [held EXCEPT ![p] = @ \cup {lock}]
    /\ GoTo(p, IF Count(req[p].user, WeekOf[s]) > Limit THEN "closing" ELSE next)

\* The lock that serialises the limit check of one member and one week, for
\* a handler that is about to give that member slot s.
LimitCheck(p, s, next) ==
  LET u == req[p].user
      w == WeekOf[s]
  IN  /\ Free(p, {LimitLock(u, w)})
      /\ held' = [held EXCEPT ![p] = @ \cup {LimitLock(u, w)}]
      /\ GoTo(p, IF Count(u, w) >= Limit THEN "closing" ELSE next)

BookLimit(p) ==
  /\ pc[p] = "bookLimit"
  /\ LimitCheck(p, req[p].slot, "bookInsert")
  /\ UNCHANGED <<tables, setting, rows, draft>>

\* Mutant of Close: the lock outlives the request.
CloseHoldingLock(p) ==
  /\ pc[p] = "closing"
  /\ GoTo(p, "idle")
  /\ UNCHANGED <<tables, setting, rows, draft, held>>

\* The limit is reached: the session, and with it the lock, is only closed
\* when the handler has answered the member.
Close(p) ==
  /\ pc[p] = "closing"
  /\ Finish(p)
  /\ UNCHANGED <<tables, setting>>

\* Mutant of BookInsert: no unique constraint on date and hour.
BookInsertDuplicate(p) ==
  /\ pc[p] = "bookInsert"
  /\ bookings' = [bookings EXCEPT ![serial.booking] =
                     [slot |-> req[p].slot, owner |-> req[p].user]]
  /\ serial' = [serial EXCEPT !.booking = @ + 1]
  /\ Finish(p)
  /\ UNCHANGED <<gifts, swaps, setting>>

\* A transaction that has yet to commit has deleted the booking of slot s.
BeingDropped(s) ==
  \E q \in Handlers :
    pc[q] = "dropMember" /\ \E b \in rows[q] : bookings[b].slot = s

\* INSERT and COMMIT; an IntegrityError (the slot is taken, or the member is
\* gone) rolls back.
BookInsert(p) ==
  /\ pc[p] = "bookInsert"
  /\ ~BeingDropped(req[p].slot)
  /\ \/ /\ ~SlotTaken(req[p].slot) /\ req[p].user \in members
        /\ bookings' = [bookings EXCEPT ![serial.booking] =
                          [slot |-> req[p].slot, owner |-> req[p].user]]
        /\ serial' = [serial EXCEPT !.booking = @ + 1]
     \/ /\ SlotTaken(req[p].slot) \/ req[p].user \notin members
        /\ UNCHANGED <<bookings, serial>>
  /\ Finish(p)
  /\ UNCHANGED <<gifts, swaps, setting>>

-----------------------------------------------------------------------------
(* Cancelling a booking *)

\* A slot that starts within the hour.
Soon(s) == s <= now + 1

\* delete_booking: the booking is looked up by id and owner; whether the
\* cancellation is late is settled here.
CancelStart(p) ==
  \E r \in Requests :
    /\ r.op = "cancel"
    /\ bookings[r.booking].owner = r.user
    /\ ~Past(bookings[r.booking].slot)
    /\ Begin(p, r, {r.booking},
             IF Soon(bookings[r.booking].slot) THEN "lateDelete" ELSE "delete")
    /\ UNCHANGED <<tables, setting, draft, held>>

\* cancel_booking_by_admin: looked up by id, whatever its time.
RemoveStart(p) ==
  \E r \in Requests :
    /\ r.op = "remove"
    /\ Live(r.booking)
    /\ Begin(p, r, {r.booking}, "delete")
    /\ UNCHANGED <<tables, setting, draft, held>>

\* A late cancellation that finds its row to delete.
LateCancel(p) == pc[p] = "lateDelete" /\ \E b \in rows[p] : Live(b)

\* _do_delete_booking: DELETE ... WHERE id, whoever owns the row by now. With
\* no row left it rolls back.
Delete(p) ==
  /\ pc[p] \in {"delete", "lateDelete"}
  /\ Free(p, {RowLock(b) : b \in rows[p]})
  /\ DeleteBookings(rows[p])
  /\ \/ ~LateCancel(p) /\ Finish(p)
     \/ LateCancel(p) /\ GoTo(p, "warning") /\ UNCHANGED <<rows, draft, held>>
  /\ UNCHANGED <<swaps, serial, setting>>

\* add_warning, a transaction of its own: one warning too many is a ban, which
\* takes the room access away. The warnings themselves are not counted here.
Warn(p) ==
  /\ pc[p] = "warning"
  /\ access' \in {access, access \ {req[p].user}}
  /\ Finish(p)
  /\ UNCHANGED <<tables, weekly, skipped, members, now>>

\* Mutant of ResetRows: the bookable week goes too.
ResetThisWeek ==
  {b \in BookingIds : Live(b) /\ WeekOf[bookings[b].slot] <= CurrentWeek}

\* Sunday 22:00, or an admin's /reset_weekly_now: the bookings of the weeks
\* before the bookable one go.
ResetRows ==
  {b \in BookingIds : Live(b) /\ WeekOf[bookings[b].slot] < CurrentWeek}

WeeklyReset ==
  /\ ResetRows # {}
  /\ \A q \in Handlers : held[q] \cap {RowLock(b) : b \in ResetRows} = {}
  /\ DeleteBookings(ResetRows)
  /\ UNCHANGED <<swaps, serial, setting, locals>>

-----------------------------------------------------------------------------
(* Weekly slots *)

\* The bookings in the way of a new weekly slot. The panel looks at its
\* weekday and hour in the bookable week and the next, from today on; the
\* command at its date in the bookable week.
Conflicts(r) ==
  {b \in BookingIds :
     /\ Live(b)
     /\ KeyOf[bookings[b].slot] = r.key
     /\ \/ /\ r.by = "panel"
           /\ WeekOf[bookings[b].slot] \in {CurrentWeek, CurrentWeek + 1}
           /\ bookings[b].slot >= now
        \/ r.by = "command" /\ WeekOf[bookings[b].slot] = CurrentWeek}

\* The weekly slot is committed first, then the conflicts are loaded.
Reserve(p) ==
  \E r \in Requests :
    /\ r.op = "reserve"
    /\ weekly' = weekly \cup {r.key}
    /\ \/ Conflicts(r) = {} /\ AtOnce(p)
       \/ /\ Conflicts(r) # {}
          /\ Begin(p, r, Conflicts(r), "clearing")
          /\ UNCHANGED <<draft, held>>
    /\ UNCHANGED <<tables, skipped, members, access, now>>

\* One cancel_booking_by_admin per conflict, each its own transaction.
ClearConflict(p) ==
  /\ pc[p] = "clearing"
  /\ \E b \in rows[p] :
       /\ Free(p, {RowLock(b)})
       /\ DeleteBookings({b})
       /\ \/ rows[p] = {b} /\ Finish(p)
          \/ /\ rows[p] # {b}
             /\ rows' = [rows EXCEPT ![p] = @ \ {b}]
             /\ UNCHANGED <<pc, req, draft, held>>
  /\ UNCHANGED <<swaps, serial, setting>>

\* Deleting a weekly slot deletes its cancelled occurrences (CASCADE).
Unreserve(p) ==
  \E r \in Requests :
    /\ r.op = "unreserve" /\ r.key \in weekly
    /\ weekly' = weekly \ {r.key}
    /\ skipped' = {s \in skipped : KeyOf[s] # r.key}
    /\ AtOnce(p)
    /\ UNCHANGED <<tables, members, access, now>>

\* cancel_club_slot_occurrence: one date of a weekly slot becomes free.
Skip(p) ==
  \E r \in Requests :
    /\ r.op = "skip"
    /\ IsReserved(r.slot) /\ ~Past(r.slot) /\ ~SlotTaken(r.slot)
    /\ skipped' = skipped \cup {r.slot}
    /\ AtOnce(p)
    /\ UNCHANGED <<tables, weekly, members, access, now>>
=============================================================================
