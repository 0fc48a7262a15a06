# MusicRoomBot: models, model checking and proofs

MusicRoomBot is a Telegram bot (Python, asyncio, aiogram, SQLAlchemy over
PostgreSQL, APScheduler) that books the hours of one music room. This directory
models what can go wrong when its handlers and jobs run at the same time: TLA+
modules translated from `src/app`, TLC configurations that check them on small
instances, and theorems that TLAPS checks for every instance.

`src/` is never changed; line numbers below are those of `src/app/...`.

## 1. The system

One process runs an asyncio event loop. A Telegram update becomes a *handler*
task with one database session; APScheduler starts *jobs* (weekly reset,
reminders, geo checks, expired bans) under advisory locks, because a second
process may run. All shared state is in PostgreSQL, at READ COMMITTED: a
statement sees what is committed when it starts, row locks and advisory locks
belong to a transaction, and between any two statements (every `await`) any
other task may run. The session keeps loaded objects (`expire_on_commit=False`)
and writes changed columns by primary key.

| Component | State | Operations | Hard behaviour | What makes it correct |
|---|---|---|---|---|
| Bookings (`booking_service`, `booking_limits`, handlers `booking`, `flash_book`, `my_bookings`, `admin_bookings`) | `bookings`: one row per room hour | book, cancel, admin booking, admin removal | count then insert; look up by owner then delete by id; lock waits; failures | unique slots, weekly limit, members cancel their own bookings |
| Gift offers (`booking_service`, 188-481) | `gift_offers`, cascade on bookings | offer, accept, decline | reads without row locks, writes by primary key | only an owner's offer moves a booking |
| Swap offers (`swap_service`) | `swap_offers`, slots by date and hour | create, accept, decline | three rows locked one after another, deadlocks | decided once, both bookings move or none |
| Weekly slots, clubs (`club_service`, `admin_booking_service`) | `weekly_slots`, `club_slot_cancellations` | reserve and clear conflicts, unreserve, cancel one date | several transactions per request | no booking in a reserved hour |
| Weekly reset, bookable week (`date_service`, `scheduler_service`) | derived from the clock | delete the bookings of past weeks | the week switches on Sunday 22:00 | only past bookings go |
| Reminders (`reminder_service`) | `reminded_hourly_at`, `reminded_15_at` | send, then mark | crash between send and mark; stale marks | at most one reminder per owner |
| Check-in (`geo_service`, `attendance_service`, handler `location`) | `location_prompted`, `absence_reported`, `attendance_verified` | prompt, verify, record absence | job against handler; chains; missed ticks | verified stays verified; one warning per chain |
| Warnings, bans, appeals (`warning_service`, `admin_user_commands`) | `users.allowed`, `banned`, `banned_until`, `ban_count`, `warnings` | warn, remove, reset, revert, appeal, ban, unban, allow, add, revoke, expire | decisions on a loaded member, written later, column by column | a warning at the limit bans, a ban is counted, bans end |
| Equipment requests: the member's dialog (handlers `equipment_request`, `equipment_request_ranges`) | one dialog state and dictionary per chat, in memory | open, agree, type, pick, go back, edit, submit | buttons of old messages, double taps, awaits between read and write | what is saved is complete; one request per draft |
| Equipment requests: the review (`equipment_request_service`, `admin_equipment_requests`) | `equipment_requests` and their ranges, review message, posts | approve, decline, edit, replace ranges | several admins, stale objects, messages that fail, buttons that write over the message they are below | verdict, row, messages and post agree |
| Users and access (`user_service`, `admin_user_commands`, `form_pass_service`, `invite_service`, `kick_service`) | `users`, `admins`, the members chat | start, allow, add, form pass, revoke, ban, revert, lift, delete, appoint, bulk sync | placeholders merged with real accounts, usernames that change hands | access only for whom somebody decided to let in |
| Runtime configuration (`config_runtime`, `config_service`, handlers `admin_config_flow`, `admin_inputs`, `admin_commands_config`) | `config`, a cache per process, the admin's dialog | get, set, invalidate; type, preview, confirm | load against invalidate, two previews of one dialog | no stale value beyond a bound |
| Backpressure (`core/limits`, `core/database`) | semaphore, reset gate, pool | acquire, release, connect, time out | sizes against the pool | who holds a slot gets a connection |
| Scheduler locks (`scheduler_service`) | session advisory locks | try, run, release or invalidate | failure of the release, loss of the connection | one run at a time, the lock never leaks |
| Clubs and their leaders (`club_service`), the rate limit, start-up | `clubs`, a window per user | | | not modelled, section 8 |
| Menus, texts, metrics, migrations | none of interest | | | not modelled |

Handlers call services directly; components meet in the tables, and, within one
process, in what `Runtime` models: pool, semaphore, cache lock, reset gate. A gift
and a swap change `bookings.user_id` under a cancellation; a weekly slot cancels
bookings; an absence and a late cancellation end in `add_warning`, which may
take room access away; the deletion of a member deletes the member's bookings and
offers; every decision looks at access, the clock and the
configuration.

## 2. Modules

| Module | Models | Extends |
|---|---|---|
| `BookingStore` | tables, locks, a handler's locals; the shared helpers | |
| `BookingCommands` | book, cancel, remove, weekly slots, weekly reset | `BookingStore` |
| `GiftCommands` | gift offers | `BookingCommands` |
| `SwapCommands` | swap offers | `GiftCommands` |
| `MemberCommands` | access to the room; the deletion of a member with bookings and offers | `SwapCommands` |
| `SlotLedger` | abstract specification: who owns which slot | |
| `BookingTable` | the table of bookings as the two jobs meet it: rows with the columns they record, and everybody who changes rows | |
| `Bookings` | composition, failures, deadlock detection, fairness, properties | `MemberCommands`, instantiates `SlotLedger` and `BookingTable` |
| `MCBookings` | calendars and requests of the TLC runs | `Bookings` |
| `Bookings_proofs` | inductive invariant; how bookings are made, move and disappear; the weekly limit; the ledger; the table of the jobs | `Bookings`, `FiniteSetTheorems`, `TLAPS` |
| `Reminders` | the reminder job | `BookingTable` |
| `MCReminders` | calendar of its runs | `Reminders` |
| `CheckIn` | the geo job and the location handler | `BookingTable` |
| `MCCheckIn` | calendar and symmetry of its runs | `CheckIn` |
| `CheckIn_proofs` | inductive invariants and theorems of both jobs that write to members about bookings | `CheckIn`, `Reminders`, `TLAPS` |
| `Warnings` | the columns of a member that warnings, bans and access write | |
| `MCWarnings` | symmetry of its run | `Warnings` |
| `Warnings_proofs` | its inductive invariant and theorems | `Warnings`, `TLAPS` |
| `EquipmentWizard` | the dialog in which a member writes an equipment request, and its submission | |
| `MCEquipmentWizard` | fields and symmetry of its run | `EquipmentWizard` |
| `EquipmentWizard_proofs` | its inductive invariant and theorems | `EquipmentWizard`, `TLAPS` |
| `EquipmentReview` | one saved request under the hands of several admins | |
| `MCEquipmentReview` | lists of ranges of its run | `EquipmentReview` |
| `EquipmentReview_proofs` | its inductive invariant and theorems | `EquipmentReview`, `FiniteSetTheorems`, `TLAPS` |
| `RuntimeConfig` | settings: table, cache, dialogs and commands | |
| `MCRuntimeConfig` | symmetry and constraint of its run | `RuntimeConfig` |
| `RuntimeConfig_proofs` | its inductive invariant and theorems | `RuntimeConfig`, `SequenceTheorems`, `TLAPS` |
| `Runtime` | what handlers and jobs of one process share | |
| `MCRuntime` | names of its handlers and jobs | `Runtime` |
| `Runtime_proofs` | the job locks; what handlers hold; the pool | `Runtime`, `FiniteSetTheorems`, `SequenceTheorems`, `TLAPS` |
| `Members` | rows, placeholders, grants, the members chat | |
| `MCMembers` | symmetry of its run | `Members` |
| `Members_proofs` | who has access; what members are told and kicked for | `Members`, `TLAPS` |

The first ten are the booking core. `Reminders` and `CheckIn` meet it in
`BookingTable`, which both extend: a row has an hour, an owner and the columns
that the jobs record, and `Members` is everything that can happen to rows while
a job is between a read and a write. That it is everything is checked and
proved: `Bookings` implements `BookingTable` (`ImplementsTable`), however its
handlers interleave statement by statement. `Warnings` meets it in the rows of
`users`: an absence and a late cancellation are its `warn` requests, and what it
writes is what the core calls `access`. `Members` has the same rows with the columns that say whose they
are; there `ban` is one flag. `EquipmentWizard` ends where `EquipmentReview`
begins: with the COMMIT of `create_equipment_request`; the two steps of the
submission that follow, the message to the admins and the record of its id, are
in both, because admins may answer before the id is recorded. `Runtime` has of
every handler and job only what it takes and gives back, and `RuntimeConfig`
what its readers get.

### How the state corresponds to the code

* `bookings`, `gifts`, `swaps` are functions from ids to rows, a missing row
  being `NoBooking`, `NoGift`, `NoSwap`; `serial` are the id sequences. Ids are
  not reused, as in PostgreSQL; `MaxBookings`, `MaxGifts`, `MaxSwaps` bound how
  many are ever taken.
* A slot (date and hour) is a number, in the order of time; `now` is the number
  of the last slot that has started, so one unit is one hour. `WeekOf` and
  `KeyOf` give a slot its week and its weekday and hour; `WeekOpens` says when
  a week becomes the bookable one (Sunday 22:00). "From today on" in the
  clearing of conflicts is "from the slot of this hour on".
* `members` are the rows of `users`, `access` those that are `allowed` and not
  `banned`. A deleted member who comes back is a new row, and somebody else here.
* `pc`, `req`, `rows`, `draft`, `held` are a handler's locals: stage, request,
  loaded bookings, the swap offer under construction, the locks of its
  transaction. `Handlers` is how many requests may be under way at once.

### How the actions correspond to the code

An action is what a handler does from one point where another task can change
what it relies on to the next: a read that it acts on later, a wait for a lock,
a write with its COMMIT. Consecutive reads before the first lock or write are
one step (`BookStart`, `GiftStart`, `GiftAcceptStart`, `SwapStart`); the counts
and rows that matter are read again under a lock in later steps. A rejected
request leaves the tables alone and is not a step, except where it keeps a lock
(`Close`: the limit was reached, and the advisory lock lives as long as the
session). Messages to Telegram have no effect on this state and are left out.

* Booking: `BookStart` (access, past, reserved), `BookLimit` (advisory lock and
  count), `BookInsert` (unique constraint, COMMIT) or `Close`.
* Cancelling: `CancelStart` or `RemoveStart`, `Delete` (by id, after waiting for
  the row lock), `Warn` for a late cancellation.
* Weekly slots: `Reserve` commits the slot and loads the conflicts,
  `ClearConflict` cancels one at a time; `Unreserve`, `Skip`; `WeeklyReset`.
* Gifts: `GiftStart`, `GiftInsert`; `GiftAcceptStart`, `GiftLimit`, `GiftWrite`;
  `GiftDeclineStart`; `GiftClose` writes a decision that leaves the booking.
* Swaps: `SwapStart`, `SwapInsert`; `SwapAcceptStart`, `SwapGive`, `SwapWant`
  (one FOR UPDATE each, in this order), `SwapWrite`; `SwapDecline`.
* Members: `ChangeAccess`; a deletion is one transaction of three statements,
  `DeleteUserStart`, `DropOffers`, `DropBookings`, `DropMember` with its COMMIT.
  Until then nobody sees it, but the rows are locked, and an insert of the same
  slot waits to learn whether its key will be free (`BeingDropped`). The
  transaction fails on a foreign key if a booking has come to the member since
  (`DropMember`), and so does whatever inserts for a member who is gone.
* The world: `Tick`, `Fail` (a handler dies between two
  statements), `DeadlockVictim` (PostgreSQL ends one of a cycle of waiters).

### The table of bookings

`Book` inserts a row, `Remove` takes rows away (a cancellation one, the weekly
reset many), `Swap` exchanges two owners and clears the reminder columns
(`Traded`). A gift is three steps: `AcceptStart` is what `accept_gift_offer`
reads, while the booking lies ahead; `AcceptWrite` its flush and COMMIT, some
awaits later; `AcceptEnd` an acceptance that writes nothing. What is in between
matters: `_reset_booking_attendance_for_gift` clears every column of the object
in memory, but the flush writes only the columns that differ from what was read
(`Cleared`), so that what a job recorded meanwhile stays on the new owner's row.
`accepting` is what each handler has read. In `Bookings` the columns are empty,
since the core says nothing about them; ids, owners, hours and acceptances are
mapped (`Table`).

### Reminders

Time counts half hours, because two kinds of reminder have disjoint windows
within an hour: the one `reminder_hours` ahead after the full hour, the other
in the last quarter (`due_slot_start`). `job` is the run of
`process_reminders`, which the scheduler's lock keeps to one: `Select` is the
query and the choice of the first booking of a chain, `Deliver`, `Refuse` and
`SendFails` what `send_message` may do, `Mark` the UPDATE by id, `MarkLost` a
death, or an answer of Telegram that is lost, between the last two.
`BookingsChange` is a step of the table. `told`, `again` and `lost` are history:
how often the present owner of a booking has got its reminder, which bookings
were given to the owner they had, and what went wrong so far.

### Check-in

Time counts phases, two for an hour: its check-in window is open, or its
deadline has passed. `geo` is the run of `process_geo_checks` with the time it
read at its start: `GeoStart` (time, query, chain), `GeoSend` (the prompt is
sent, refused, or delivered with its answer lost), `GeoMark`, then
for the current and the previous hour `GeoExpire` (query, chain), `GeoAbsent`
(one transaction), `GeoWarn`, and `GeoDone`. A room hour has one booking, so a
run has one booking to prompt and one candidate for each hour at most. `loc` is
a location handler for each member: `LocStart` reads the booking and decides,
`LocVerify`, or `LocAbsent` and `LocWarn`, carry the decision out. SQLAlchemy
writes only columns that differ from what was loaded, which is why a late
location leaves `attendance_verified` alone and the job does not. `Change` is
a step of the table. `asked` and `charged` are history, and so are `raced`, the
bookings that two handlers have accepted at once, and `late`, the members who
got a booking after its hour had started; `missed` bounds how late the scheduler
may be.

### Warnings

Time counts months. `users` are the rows, `until` is 0 where `banned_until` is
NULL; `task` is a handler's request with the member it has loaded (`seen`), and
`lifting` the members the nightly job has loaded. A request is two steps.
`Load` is the SELECT with the early returns that go by it (`Accepts`). The
second step is the write with its COMMIT: `AddWarning` and `RemoveWarning`
count in the database, `BanUser` and `ChangeUser` flush what they made of the
loaded object (`Changed`). `Flush` writes the columns in which the object
differs from what was loaded, and no others: that is how two operations of one
member mix. `JobLoad`, `JobLift`, `JobFail` are `unban_expired_users`; `ResetAll`
and `UnbanAll` one statement each; `Fail` a request that rolls back.

### The equipment dialog

The module is one chat: `state` and `data` are its FSM state and dictionary.
`Button` are the taps that are handled without an await between reading and
writing them, one action per callback handler; the buttons of old messages stay,
and no handler looks at the state, so all of them are enabled whenever their own
guards hold. `Message` are the texts, which do go by the state. Two handlers
await in between: agreeing to the rules (`RulesAgree`, then `BeginWizard` or
`RefuseWizard`) and submitting (`SubmitStart` reads the draft, `SubmitCreate` is
the transaction, `SubmitAnnounce` the message, `SubmitFinish` the record and
`state.clear()`); `tap` are those under way. `drafts` numbers the drafts, and
`repeated` remembers which were submitted again while a first submission was
under way or after its message failed; both are history. Fields hold no text:
`filled` are the required fields that have one. `Crash` loses the dialog.

### The review of a request

`row` and `ranges` are the tables, `h` the handlers with the object each has
loaded (`req`). `Load` is a tap on Accept or Decline, `Decide` the status check
on the loaded object with its COMMIT and refresh; then `SendDm` or `DmFails`,
`RecordDm`, and for an approval `SendPost` or `PostFails` and `RecordPost`, and
last `RefreshReview`. A message that fails was not delivered, or its answer was
lost. The buttons write over the message they are below, in two steps, the read
(`Refresh`, `OpenMenu`, `PickField`) and the edit (`Show`): the request again,
the menu of fields, or the question for a value, which asks for the admin's next
message (`dialog`). The reply to an edit has the same buttons below a message of
its own (`PickElsewhere`). The edit itself is `LoadEdit`, then `WriteField` or
`DeleteRanges` and `ReplaceRanges`, `EditReview`, `EditPost`; Telegram refuses to
edit a message into what it is already, and the handler ends there
(`EditRefused`). A message is the status, the version of the texts and the list
of ranges as the handler has them (`Rendered`): `list` is loaded with the object,
loaded again by the refresh of a decision and of a text, and by nothing after a
replacement, because the SELECT that follows it finds the request in the session.
`Merge` is the
flush: columns that differ from what was loaded. `DeleteRanges` is a step of its
own because a DELETE finds the rows committed when it starts, and another
transaction may insert before the new rows are. `Submit` is the rest of the
member's handler. `raced` and `missed` are history: a handler committed while
another was under way; a message was not sent, was refused or its answer lost, or
a handler died. `before` is what the ranges were before their last replacement.

### Settings

A value is the number of the text or the tap that gave it, 0 the default.
`GetMany`, `EnterLock`, `Load`, `Store` are `get_many`: what is cached is
answered, the rest waits for `_CACHE_LOCK`, is looked up again, queried and
stored with its expiry. `SelectRow`, `CommitRow`, `Invalidate` are
`set_config_value` and the invalidation, once for each row of `todo` (the centre
of the geofence has two). The admin's dialog is one state and one dictionary;
prompts can be opened at any time, `TypeRules` and `TypeHours` show a preview,
`ConfirmRules` and `ConfirmHours` save what the dictionary then holds. `replaced`
(when a value was replaced) and `raced` are history.

### What handlers share

A handler or job is a script: the list of what it takes (`slot`, `connect`,
`limit`, `trylock`, `shut`) and gives back (`unslot`, `close`, `open`,
`unlock`), in the order of its code, with `config` where it reads settings. Each
word has an action. `config` that is not in the cache goes through the cache
lock and a second connection (`EnterCache`, `Connect`, `LoadConfig`). `Fails`
is an exception at any point, and `Unwind` what every `with` and `finally` on
the stack then does; `PoolTimeout` is such an exception. Jobs hold their
advisory lock on a connection of their own, which may be lost (`LoseLock`);
`OtherStarts` and `OtherEnds` are a second instance during a deployment.

### Members

`rows` is the `users` table: account (none for a placeholder), username, full
name, `allowed`, `banned`. A handler (`task`) reads in one step and writes in a
later one: `/start` is `Receive`, `StartLookup`, `StartBind` or `StartCreate`,
`StartFinish`, with the full name the update carries; the commands about one username load their row (`LoadRow`) and
write it (`ChangeRow`, `DeleteRow`, `AddAdmin`). A warning that bans and the
revert of one, by an admin or by an accepted appeal, find it by id (`AutoBan`,
`Revert`) and write it in the same way; `LiftLoad` and `LiftWrite` are the nightly
job. `AddUser` and `FormPass` match
a member and later write the grant and delete the merged placeholders
(`GrantWrite`), or insert one (`AddPlaceholder`); `BulkLoad`, `BulkWrite`,
`BulkCheck` are the sync with the sheet. `SendDm` and `Kick` follow the COMMIT.
`uname`, `chat` and `invited` are Telegram's. `granted`, `had`, `told` and
`overtaken` are history: whom admins meant when they let somebody in, which
usernames an account has had, which full names it has come with, and whether
another handler has written a row since this one read it. Whom an admin means
(`Meant`) does not go by the row that is written: it is whoever has had the
username of the command, or has come with its full name where the row was found
by that, or the member whose warning is reverted.

An operator called a mutant in its comment is not part of the specification: it
is the definition below it with a plausible bug, and TLC finds the property
that `PROJECT.json` pairs it with violated when it takes that place.

## 3. Runs

| Run | Instance | Shows |
|---|---|---|
| `limit` | 2 members, 2 handlers, 2 hours of a week, limit 1; bookings, cancellations, gifts, swaps | what was counted under the advisory lock stays true until the write, the limit holds, the tables implement `SlotLedger` and `BookingTable` |
| `swap` | 2 members, 2 handlers, 2 swap offers over two hours, removals, a deletion, time | a decision sees rows that do not change, is final, exchanges both slots or none; a booking moves only along an offer; every request ends, deadlocks included |
| `weekly` | 2 weeks with the same weekday and hour; the admins' requests, deletions among them, and the reset | no booking that lies ahead disappears without a cause |
| `cancel_race` | cancellation against an accepted swap | violates `CancelsOwn` |
| `reminders` | 2 members, one of whom has blocked the bot, 2 consecutive hours, 2 ids, 1 acceptance at a time, 1 crash or lost answer | nobody is reminded twice except for a crash or a lost answer; no due reminder is left lying |
| `checkin` | 2 members, 2 consecutive hours, 2 ids, 1 acceptance at a time, 1 crash or lost answer, 6 phases of which 2 in a row may be missed | columns fit together, and a warning is one for a recorded absence; prompts repeat only for a crash or a lost answer; every prompted booking is resolved in time |
| `warnings` | 1 member, 2 handlers, 6 requests of any kind, 2 months | a warning at the limit bans, a standing ban is counted, bans that are over are lifted |
| `wizard` | 1 chat, 2 handlers under way, 4 of the 7 fields, 3 hours, 2 ranges, 1 draft, 2 requests | ranges stay disjoint and fit their text in whatever order buttons are tapped; what is saved is complete; a second request of a draft needs a second submission |
| `review` | 1 admin with 2 handlers and every button, 1 edit, 1 failure or lost answer, lists of ranges that overlap each other | without overlap, verdict, message, post and record agree, but for ranges that are one replacement behind; whatever overlaps, the requester of a decided request is told |
| `config` | 2 readers, 2 writers, 1 typed text, 1 failure, entries live 2 ticks, a query takes 1 at most, 4 ticks | an old value is served for a bounded time; after an update only where a load was overtaken |
| `runtime` | 2 updates, the weekly reset and one checking job, 1 slot, 6 connections | who holds a slot or is a job gets its connections; nothing leaks; a job runs once |
| `members` | 2 accounts, 2 usernames, 2 full names, 2 handlers, 3 rows, 5 requests and renames | access is had only by whom somebody decided to let in; messages and kicks follow what was committed |

**Bounds.** Two handlers are enough for every race of two transactions, which
is what the lock order of this code allows to go wrong: a booking locks one
member's week, a gift one, a swap offer two booking rows. With `Limit` 1 the
second booking is already one too many, so a limit that can be passed is passed
by two handlers. `MaxBookings` 3 over two slots gives a slot a second life
after a cancellation, with a fresh id. `MaxSwaps` 2 gives two offers that lock
the same two bookings in opposite orders. `Horizon` lets a slot start while
handlers are at work. The ids bound how much is ever created, not what is live.

A chain needs two hours, and a change of hands two members: `reminders` and
`checkin` have both, and one crash, which lets the properties that count
crashes be exact (1 repeat, not 2). One handler accepts gifts: a second one adds
acceptances of the other booking, or of the same one, and the latter is what
`raced` leaves out of the properties (section 4); the theorems are for any
number of them. Six phases reach the end of the hour after the first one, which
is when `ResolvedInTime` is due. `OneMishap`, a CONSTRAINT of `checkin`, follows
one mishap at a time: a member gets a booking whose hour has started, or the job
dies or misses a phase. `MaxMissed` 2 is the most that
`ResolvedInTime` allows: the absence of hour h is recorded by a run that starts
in the second phase of h or in either phase of h + 1, three phases in all.
With 3 it would fail: the docstring of the job promises the previous hour, no
more (`geo_service.py:185`).

`warnings` has one member because no operation relates two. Six requests are
three warnings, a ban that follows, and a race of two more; two months are the
first ban of one month, its end, and a month in which nothing is done about it.

`wizard` leaves `club_name`, `event_name` and `venue` out of `CREATE_FLOW`:
they are asked and stored as `equipment_text` is. Three hours give ranges that
touch, overlap and contain one another; two handlers are a double tap. With one
draft, `DraftSubmittedOnce` is about that draft's two requests, and the clearing
of the dialog by a late first submission is what the second tap meets.

`review` has one admin because handlers, not admins, race (two taps of one admin
are handled as two updates are); one edit is what can overlap the decision or
the rest of the submission, and one failure ends any one handler at any point.
Overlapping edits need two and belong to the premise of the properties, and so
does what a second replacement leaves shown: with one, `before` is the list the
request was made with.

`config`: an entry that is stored one tick after its query, two ticks of life and
one more tick after the bound are four. `weekly_limit` and `admin_chat_id` stand
for the other numbers and chats, two weekdays for the seven. `DialogApart`, a
CONSTRAINT, keeps TLC from multiplying the states of the dialog with those of
the cache: a typed text reaches the cache through a writer, as a command does,
and commands are followed with the cache in full.

`runtime`: `Pool` is exactly what the premise of `PoolSuffices` asks for
(one for the slot, two for each of two jobs, one for the cache), so one
connection less, or a lock less, shows. Two updates are one in the slot and one
outside.

`members`: one account to grant and one to take its name over; three rows are
both accounts' and a placeholder. In five requests fit a grant to a username, a
rename, the `/start` of the new holder, and two more of any kind; two full names
are the one a grant is made out to and another. The guard of
`Rename` is a bound too: no account takes a username while a `/start` that
carries it is under way (section 4).

**Symmetry.** Handlers are interchangeable and no definition chooses one, so the
safety runs use `Permutations(Handlers)`; `swap` and `warnings` check liveness
and use none. Members are not permuted there, because the requests name them; in
`checkin` nothing names a member, and they are. `wizard` permutes its handlers,
`config` readers and writers, `members` accounts, usernames, full names and
handlers; none
of the three checks liveness. `review` does, and has no symmetry.

**Deadlock.** `runtime` leaves the check on, which says little there: the
process may always crash, or start a job or an update. The other runs say
`CHECK_DEADLOCK FALSE`: when all ids are used up and the horizon is reached
nobody has to send another request, and the program may stand still. That
requests do not wait for each other for ever is what `RequestEnds` states.

## 4. Where code and text disagree

`cancel_race` is a run that TLC finds violated: `delete_booking` finds the
booking by id and owner, then deletes by id alone. A swap or a gift committed in
between makes the member cancel somebody else's booking. `PROJECT.json` quotes
the sentence it contradicts.

Other disagreements met while modelling are in the model, and reachable in it,
but no run is spent on them. Each is a premise of a property or a hazard's note:

* Gift against swap. `accept_gift_offer` reads without locks and writes the owner
  by primary key, over a swap committed in between (`GiftWrite` after
  `SwapWrite`).
* Limit. A swap never counts. It needs a booking of next week, which an admin
  can make (`create_admin_booking`), or which exists after the switch.
* Reserved and booked. The check for a reserved slot and the insert are two
  statements; the clearing of conflicts runs before the insert commits
  (`BookStart`, `Reserve`, `BookInsert`).
* Reminder lost. `_mark_reminded` writes by id. A gift or a swap clears the
  marker for the new owner while the old owner's message is on its way, the job
  then sets it, and the new owner is never reminded. A marker set while an
  acceptance is under way has the same effect: the acceptance read none, and
  writes none.
* Gift across the hour. `accept_gift_offer` looks at the time once and commits
  some awaits later. If the hour starts in between and the job prompts the giver,
  or records a result, the recipient gets the booking with that result
  (`Cleared`). The booking may also change hands after the start of its hour:
  its new owner joins a chain, or leaves one, that the job has dealt with, and
  may be passed over (`late`). A swap that commits late does the same.
* Accepted twice. Two acceptances of one gift read different columns; the second
  clears what the first did not see, and leaves a verified booking that is not
  recorded, or one that is reminded and prompted again. `raced` and `again` are
  the premises of `ColumnsAgree`, `PromptedOnce`, `ResolvedInTime` and
  `ToldOnce`.
* Prompted twice. The comment above the prompts (`geo_service.py:218`) says that a
  booking is never prompted twice. The prompt is sent before the column is
  written: a crash in between repeats it, and so does an answer of Telegram that
  is lost after delivery, which the job takes for a prompt that failed
  (`GeoSend`). `PromptedOnce` counts both.
* Punctual and warned. The geo job reads its candidates, and records the absence
  and warns without a second look. A location that was received in time, and
  verified in between, ends in a warning.
* Two verdicts. Accept and Decline of two admins look at the object each has
  loaded: the second overwrites the first, and the requester hears both. Two
  replacements of the ranges leave both lists. `VerdictStands`, `RangesAgree` and
  `ShownAsIs` have the premise `~raced`.
* Ranges of yesterday. After a replacement the request is selected again
  (`equipment_request_service.py:347`), but it is in the session, which keeps what
  it has loaded (`database.py:50`): the review message and the post are edited to
  the new `needed_at_text` and the old list. The next decision, text or tap on
  Back shows the new one.
* A field instead of the request. Edit and the fields write over the review
  message, and an admin who leaves it at that leaves a menu where the other admins
  look for the request. A tap on Back, a decision or an edit brings it back.
* Hours of another weekday. Hours typed for one weekday are confirmed for the
  weekday picked last (`PromptHours` after `TypeHours`, `ConfirmHours`). What is
  saved need not be what a preview showed, and no property says so.
* Access for the first time. A revert or an accepted appeal of a banned member
  "restores access" (`warning_service.py:366`) by writing `allowed`, also where the
  member had none before the ban (`Revert`). `AccessWasGranted` counts it as a
  decision to let that member in.
* Gated or not. `core/limits.py:18` names "pick day" among the handlers the
  semaphore is for; `handle_pick_day` takes no slot. It is a handler without a
  slot in the premise of `PoolSuffices`.
* One placeholder, two accounts. A `/start` carries the username of the moment;
  if that account gives it up and another takes it and starts too, both have
  loaded the same placeholder and the last writer keeps it. The guard of
  `Rename` leaves this out.

More races are in `Members` and contradict nothing the repository says: a
refusal (`already_allowed`, `banned`) leaves the placeholders it would have
merged (`admin_user_commands.py:145`); a merge deletes a placeholder that
a `/start` has bound since (`125`, `158`); two additions of one unknown username
insert two placeholders, and every later lookup of that name fails (`169`); a
grant to a placeholder is lost when its holder, known under an older username,
starts again (`user_service.py:72`); a grant leaves a ban that was given in
between, with `allowed` set (`admin_user_commands.py:81`). And
`accept_swap_offer` never looks at access (`swap_service.py:173`).

A deletion of a member takes every booking of the member, also those ahead, and
tells nobody. It fails on a foreign key, and leaves everything as it was, if the
member gets a booking while it is under way, or has ever cancelled a club's slot
(`club_slot_cancellations.cancelled_by` has no cascade); the latter is not
modelled but as `Fail`.

In the core, in the same way: two
pending gift offers of a booking (`GiftStart` checks, then inserts), an offer
both declined and carried out, and a late location that warns for one booking
of a chain before the job warns for the rest of it. In `Warnings`: a warning
lost to a revert, a count of warnings below zero (`remove_warning` looks, then
decrements), one appeal approved twice, a grant of access that a ban does not
take back because the flush of either leaves the other's column alone.

With working hours past 22:00 on a Sunday, `weekly_reset` would delete a booking
that lies ahead: its cutoff is the Monday of the bookable week, which by then is
tomorrow. `weekly` has the calendar without such hours.

## 5. Fairness

`FairSpec` is used by `swap` for `RequestEnds`.

* `SF` of each handler's `Work`. The event loop resumes every ready task, and a
  task that waits for a lock is in PostgreSQL's queue for it, first in, first
  out. The lock may be free and taken again many times in between, so weak
  fairness would not say that the task gets it.
* `WF` of `DeadlockVictim` as a whole: PostgreSQL checks for a cycle once a
  wait lasts `deadlock_timeout`, and ends one of the cycle.
* None for `Start`, `Tick`, `WeeklyReset` and `Fail`: nobody has to ask for
  anything, time may pass or not, handlers need not fail.

`ReminderFairSpec` is used by `reminders` for `NoneLeftDue`. `WF` of
`Select`: the scheduler starts the job every minute. `WF` of `Mark`: the event
loop resumes it. `SF` of `Deliver \/ Refuse`: a message may fail any number of
times, but not for ever, while the job keeps trying. Nothing is assumed of
members, time and crashes.

`FairSpec` of `Warnings` is used by `warnings` for `BansEnd`. `WF` of `JobLoad`:
the scheduler starts the job every night. `SF` of `JobLift`: runs may fail, but
not all of them. Nothing is assumed of admins and members.

`FairSpec` of `EquipmentReview` is used by `review` for `DecisionTold`. `WF` of
`Submit` and of each handler's `Continue`: the event loop resumes a handler that
has begun until it ends. Failures are not part of either, and no admin has to
tap anything.

`EquipmentWizard`, `RuntimeConfig`, `Runtime` and `Members` are checked for
safety: what should happen at last in them is up to people, or is a deadline
(`StaleBounded`), or the absence of a deadlock (`runtime`).

`CheckIn` is checked for safety alone. `ResolvedInTime` is a deadline, and what
it needs of the scheduler is a guard: `Tick` stops after `MaxMissed` phases
without a run.

`Close` is the step that releases the advisory lock of a booking over the limit,
when the session is closed; a session that kept it would stop that member's next
requests for ever, which is the mutant of `RequestEnds`.

## 6. Proofs

Every safety property and every action property that a passing run checks is
also proved, for every value of the constants that the named assumption of its
module allows; where a theorem needs a premise of its own, it is named below.

### The booking core

Assumptions: `CalendarAssumption` (slots are numbers, weeks are finitely many
numbers, every slot has a week, some week is bookable at the start) and
`StoreAssumption` (nobody is not a member, bounds are naturals, requests are
well formed). Nothing is assumed about the number of members, handlers, slots or
ids.

`Bookings_proofs` proves `Spec => []IInv` with

    IInv == TypeOK /\ Fresh /\ SlotUnique /\ LockExclusive /\ HandlersOK

`TypeOK` and `SlotUnique` (`NoDoubleBooking`) are the goals. They are not
inductive alone. `Fresh` says that no row has an id the sequence has not given
out: without it an insert could hit a live row. `HandlersOK` says what each
handler may rely on at its stage: which kind of request it carries (`Asked`), that the ids of the rows it
has loaded were given out before, so that no insert brings them back (`Loaded`),
that an accepted gift still points at the loaded booking, if that still is
(`GiftKnown`), and that an accepted swap holds the locks of its offer and of the
loaded rows, which still are the two parties' (`SwapKnown`); `LockExclusive` is
what keeps another handler from changing them, since every action that changes
an owner or deletes a row asks for the row lock. In the same way a handler that
deletes a member holds the locks of the bookings it is about to delete, which
still are the member's (`DropKnown`). The proof has a lemma for each
action; `Preserved` and `OthersKeep` carry over what a step says nothing about.
`SwapRowsHeld` follows from `SwapKnown`.

The action properties start from two lemmas about frames: only seven operations
write a booking (`WhoWrites`), only four a swap offer (`WhoDecides`), the deletion
of a member among both; `DecidedOnce` lets a decided offer go only with one of its
parties. `DecidedOnce` and `BothExchanged` (`SwapDecidedOnce`, `SwapExchanges`) then need
of each of these what the handler knows: a decision that is written finds its
offer pending and both rows as it has locked them (`SwapKnown`), or it writes
nothing. `Exchanged` says what the exchange does to the two rows, and
`SlotOwners` what that means for the owners of slots, because `SlotUnique` makes
the booking of a slot a function of the slot.

`RemovedOnlyForCause` (`RemovedForCause`) needs in addition

    CauseInv == \A p \in Handlers : CauseKnown(p)

a handler that deletes has loaded the booking it was asked to delete, a handler
that clears conflicts only bookings of the hour it reserves, and one that
accepts a gift is the offer's recipient. The third cause, that the owner is being
deleted, is `DropKnown`. The theorem is proved for calendars
with `HoursOverAtSwitch`: the working hours of a week are over when a later week
becomes bookable (Sunday 22:00), as they are by default. Without it the weekly
reset removes bookings that lie ahead (section 4). The weeks are finite because
the cutoff of the reset is a greatest one (`Greatest`).

`MovedWithConsent` (`ConsentedMove`) is proved of the behaviours in which every
gift that is written still stands: the offer is pending, and the booking its
giver's (`GiftStands`). That is exactly what `accept_gift_offer` reads and does
not read again, and where it is not so the property fails (section 4: gift
against swap). `swap` checks it where no gift is offered; the theorem covers
gifts, bookings, removals, the reset and swaps together.

`WithinLimit` and `CountStaysTrue` (`WeeklyLimit`, `CountHolds`) are proved from

    LimitInv == CountHolds /\ WeeklyLimit /\ AddingLocked /\ \A p : OneRow(p)

`AddingLocked` is the reason `CountHolds` is inductive: whoever has counted
holds the lock of that member and week, so nobody else is about to add to it.
The premise `[]SwapsInWeek` (no swap offer crosses a week) cannot be dropped
(section 4). `ExchangeCounts` is where it is used.

`LedgerImplemented` (`ImplementsLedger`) is the refinement of `SlotLedger`, under
the same premise: the mapping takes the three tables to the owner of each slot;
`InsertBooks`, `GiftGives`, `SwapTrades` and `DeleteReleases` show that a COMMIT
of each kind is the ledger's `Book`, `Give`, `Trade` or `Release`, whose guards
about the limit come from `CountHolds`, and `StepMaps` puts them together by
`WhoWrites`. A step that writes no booking stutters. `LedgerKeepsLimit` proves
what the ledger itself promises (`LedgerSpec => []LedgerWithinLimit`) from the
guards of its four actions and counting alone; the corollary `PromiseKept`
carries it over to the tables.

`TableImplemented` (`ImplementsTable`) is the refinement of `BookingTable`, with
no premise. The mapping takes a booking's slot and owner, and what a handler
between the reads and the write of an acceptance has loaded; the clock counts
half hours. `ReadsOpen` shows that such a handler has loaded one booking that lay
ahead and was the giver's, `GiftStartMaps`, `GiftWriteMaps`, `InsertMaps`,
`RemoveMaps`, `SwapMaps` and `TickMaps` that each kind of step is one of the
table. It needs on top of `IInv`

    PartiesInv == OffersApart /\ \A p : PartiesOf(p) /\ serial.booking # 0

nobody offers a booking to himself (`OffersApart`), which the handlers check
before they insert an offer and never again; otherwise an acceptance could be one
of the reader's own booking, and a swap no trade.

`CancelledByOwner` is `CancelsOwn`, which `cancel_race` finds violated, under the
premise that no gift or swap of a booking is written between the SELECT and the
DELETE of its cancellation (`NoneGivenAway`). What a cancellation has read then
stays true (`CancelInv`) whatever other cancellations, removals, resets, bookings
and failures interleave: the handover is the only way to lose a booking to
another member's cancellation.

### Reminders and check-in

`CheckIn_proofs` begins with the table: `TableInv` says that its types hold, ids
are given out once and date and hour are unique (`Fresh`, `OnePerHour`), and
`MemberChanges` that whatever members do, a row stays, goes, is new, was traded,
or was given by an acceptance under way (`RowChange`). Both jobs start from it.

`TypeOK`, `ColumnsAgree` and `PromptedOnce` are proved from

    IInv == /\ TableInv /\ TypeOK
            /\ \A b \in BookingIds : RowKnown(b) /\ CountKnown(b)
            /\ \A b \in BookingIds \ raced : Alone(b)
            /\ \A p \in Handlers : OfferKnown(p)
            /\ \A u \in Users : LocKnown(u)
            /\ GeoKnown /\ Paid

`RowKnown` is the part of `ColumnsAgree` about columns alone. The rest is there
because an acceptance clears what it has read, whenever it writes: what it has
read must not be one half of a pair of columns. `OfferKnown` says that it has
read both or neither; `Untouched` that, of a booking without a result, nobody who
is accepting it has read one; `Alone` that one handler at a time accepts a booking
outside `raced`, so that nobody else has changed what it read. `CountKnown`,
`GeoKnown` and `LocKnown` are about the job and the handlers: the booking they
are at has begun, so that nobody begins to accept it any more (`Held`), and once
its result is recorded it stays (`Recorded`). `Paid` says what a repeated prompt
costs: a booking that is not marked as prompted, and which the job is not about
to mark, was prompted for `faults` times at most. Each step is shown to change a
row in one of a few ways (`RowStep`, `Noted`), and each part of the invariant to
be kept by all of them.

`Resolved` proves `ResolvedInTime` with

    OwingKnown == /\ Asking
                  /\ \A b \in BookingIds :
                       Owing(b) /\ Counted(b) => Recent(b) /\ Due(b)

of each booking that was prompted for and has no result (`Owing`), and that its
member got in time and alone (`Counted`). `Recent`: it has begun, it is the first
of its chain, and no full run of the job has started since its deadline, so that
`missed` counts every phase that went by. `Due`: a run that did start since then
is on its way to it, because it looks at the current and the previous hour in
this order, and the chain it loads for that hour contains it. That the booking
stays the first of its chain is the point: whoever gets the hour before it after
that hour has started is in `late`, and is somebody else (`RowsMove`,
`PlaceKept`). The premise `MaxMissed <= 2` is the assumption on the scheduler
that the docstring of the job makes (section 3): with 3 TLC finds the property
violated.

The last section of `CheckIn_proofs` is about `Reminders`: `ReminderTyped` and
`RepeatsArePaid` prove `ReminderTypeOK` and `ToldOnce` from

    ReminderInv == TableInv /\ ReminderTypeOK /\ RepeatPaid
                     /\ SendUnmarked /\ ToldLive

`RepeatPaid` is what a repeated message costs: a booking whose reminder is not
recorded, and which the job is not about to mark, was told of `lost` times at
most. It needs that what is being sent is not recorded (`SendUnmarked`), that
nobody was told about a booking that does not exist (`ToldLive`), and that ids
are given out once. The assumptions are `TableAssumption`, `CheckInAssumption`
and `ReminderAssumption`: hours are positive numbers, bounds are naturals, nobody
is not a member.

### Warnings

`Warnings_proofs` proves `TypeOK`, `BanCounted` and `LimitBans` from

    IInv == TypeOK /\ BanCounted /\ WarnsUnbanned

`WarnsUnbanned` says that a member whom `add_warning` has loaded was not banned
then: only for that reason does the flush of a ban write `banned`, and a ban
that was lifted meanwhile is written again. `FlushKeeps` is the reason for
`BanCounted`: an operation that changes the count of bans, other than a ban,
also lifts the ban. `WarningAssumption` says that the bounds are naturals.

### Equipment requests

`EquipmentWizard_proofs` proves `TypeOK` and the three safety properties of the
dialog from

    IInv == Typed /\ PickedRanges /\ Numbered /\ ReadySound /\ SubmittedSound
            /\ Reviewed /\ Single /\ SavedOnce

`SubmittedSound` needs `ReadySound`: what a submission has read, and will save
after its awaits, was valid when it was read, and nobody but itself changes it.
That a draft is saved once needs the way of a draft from the dictionary to the
table: drafts are numbered (`Numbered`); a submission that was not repeated is
the only one that has its draft, and until it writes the table has nothing of
it (`Single`); and when a submission has ended its draft is no longer in the
dictionary, so that it cannot be submitted again (`Reviewed`). `Appended` and
`Shortened` say that picking a range and taking the last one back keep the list
in order; `DialogKeeps` carries every button and every text, `LeavesNoTrace`
the handlers that end. `WizardAssumption` names the fields that the code treats
apart, and says that hours are positive.

`EquipmentReview_proofs` proves `TypeOK`, `VerdictStands`, `RangesAgree` and
`ShownAsIs` from

    IInv == TypeOK /\ IsFiniteSet(posts) /\ Deciding /\ (~raced => Apart)

`Apart` says what is so while no handler has committed under another. What a
handler has loaded is the row, except that the submission may have recorded the
id of the review message since (`SeenIsRow`); one handler at most is past its
COMMIT (`OneWriter`); and that one knows, at each of its stages, which messages
are out and which are recorded (`Knows`): before the direct message nobody was
told, before the post there is none, the ranges it is about to delete are those
of the table, and the list it will render is the table's, or, once it has
replaced that, perhaps the one before (`before`). `Verdict` (nobody was told anything but the status that
stands, a post belongs to an approval and there is one at most) is inductive with
these, and so is `ranges = row.needed`. `Shown` says of the messages what `ShownAsIs` does, with
exceptions for what the one handler at work has still to do. The review message
has the row's status and text with the ranges of the table or those before them,
or it is the menu or the question that an admin left in its place (`Mirrored`);
the post has the same, of the request when it was last rendered. `Shown` holds as long as no message was
lost (`missed`), and when all is quiet the exceptions are void, which is
`ShownAsIs`. A step that commits while another handler is past its load sets
`raced`, and then nothing but types is left to show, which is where the proof
splits. `ReviewAssumption` says that handlers are finitely many, that the lists an
admin may type are finite sets of ranges, and that bounds are naturals.

### Members

`Members_proofs` proves `AccessWasGranted` from

    IInv == Typed /\ Fresh /\ Usernames /\ RowsGranted /\ TasksKnown /\ OneCarrier

`RowsGranted` says `Sound` of every row: an account's row is allowed only where
an admin has meant that account or a username it has had (`Entitled`), and a
placeholder has a username an admin meant. This alone is not inductive. A command
finds the row it grants access to by a username or by a full name, so `Sound`
also says whose those are: an account that is not entitled has in its row only
names it came with. And commands and `/start` write to a row they have loaded
some steps before. `SeenKnown` says what can have become of that row: it is gone,
it is still the same account's, or it was a placeholder that an account bound
which has had its username; `HoldsRow` that a command has found it by the names
the admin gave. `StartKnown` says that no other account has the username a
`/start` carries, and `OneCarrier` that no other `/start` carries it; this is
where the bound on `Rename` is needed, without which the property fails
(section 4). A revert and an accepted appeal find the row by its id; the admin
means the member who was warned, so what they need of `SeenKnown` is that the row
is still that account's when they write. What has been granted only grows (`Grows`), so that a row that was sound
stays so (`SoundStays`). `RowStep` and `Continued` say that a step takes each row
from one to another of the three cases, `SoundFlush` and `Commits` that a write of
the changed columns keeps `RowsGranted`. `MembersAssumption` says that the names
for nobody and no name are not names, and that bounds are naturals.

`ToldAndKickedAfter` (`OutcomeAfterCommit`) comes from

    OutcomeKnown == OneRow /\ \A p \in Handlers : Ready(task[p])

A handler is ready when it is `overtaken`, or (`InHandKnown`) the rows in its hand
are what it has read while it has not written, and what it has written once it
has: a link is about to go to the account of a row that is allowed, a kick to
one whose row is not. `OneRow`, that an account has one row, turns this row into
what `HasAccess` asks about; it is needed because a grant to another row of the
same account would not mark the handler as overtaken. `StaysReady` and
`OvertakenReady` are about the others: a step that writes a row marks whoever has
it in hand. `OneRow` itself is the UNIQUE constraint of the column, which is a
guard of `StartBind` and `StartCreate`.

### What handlers share

`Runtime_proofs` proves `JobExclusive`: a job of this instance whose connection
lives has the lock (`LockIsMine`), a job of another instance has it
(`LockIsOther`), and both are kept by the way out of a job, because it gives
back only what it has. `InConfig`, that a handler in `get_many` has not come to
its end, is there for the types.

`NothingStays` (`NothingLeaks`) and `PoolIsEnough` (`PoolSuffices`) come from

    HoldInv == OnPlan /\ SlotsHeld /\ CacheHeld /\ MineHeld /\ Basics

A plan is a script of the model with what a handler holds at each of its places:
how many connections, whether the slot, whether the gate is shut. `OnPlan` says
that every handler is at a place of one of its plans and holds what the plan
says, and one connection more while it loads the settings. That the plans fit
the scripts, and end with nothing held, is proved script by script
(`WellPlanned`); a step along a script then needs only the place it starts from
(`Held`). An exception leaves the script: `Unwind` is shown to give back all that
`OnPlan` says is held, in one step. `SlotsHeld` counts the semaphore by
`FS_AddElement` and `FS_RemoveElement`; the
connections in use are all in a set of the size the pool was given (`Sized`), one
for each holder of a slot and two for each job, but for the one of whoever loads
the settings, of whom there is one (`CacheHeld`); and the one that is waited for
is in that set, and not in use. `RuntimeAssumption` says that handlers and
jobs are finitely many and apart, and that there is a slot.

### Settings

`RuntimeConfig_proofs` proves `TypeOK`, `StaleBounded` and `FreshAfterWrite` from

    ConfigInv == ConfigTyped /\ AnswersRecent /\ EntriesExpire /\ StaleBounded
                   /\ AnswersFresh /\ FreshAfterWrite

which has three parts that hardly touch one another; `StepTyped`, `StepRecent`
and `StepFresh` keep one each.

* Types, with two facts that make a write well formed: a writer under way has
  something to write (`WritersBusy`), and the dialog knows what it was opened for
  (`DialogKnown`). That a confirmation of hours has a weekday is here.
* `StaleBounded`, with `AnswersRecent` and `EntriesExpire`. An answer is `Slow`
  old at most, and if it differs from the table, its value was replaced no sooner
  than it was queried; so an entry made of it expires `TTL + Slow` after that at
  the latest, and no entry outlives `TTL` from now, which is what bounds an entry
  that was right when it was made and is replaced now.
* `FreshAfterWrite`, with the same said of answers that are on their way to the
  cache (`AnswersFresh`). Whoever replaces a setting is about to tell the cache
  (`Replacing`), and when it does, each reader that had queried before is
  remembered as `raced`.

`ConfigAssumption` says that the keys of `DEFAULTS` are different ones, and
bounds are naturals.

## 7. What is only model-checked

* Liveness, which is out of the prover's reach: `RequestEnds`, `NoneLeftDue`,
  `BansEnd`, `DecisionTold`. The fairness in section 5 is of actions whose
  ENABLED the prover does not know.
* That the premises of section 6 are needed. `SwapsInWeek`, `HoursOverAtSwitch`
  and `MaxMissed <= 2` are constants, or the requests, of the instance that a run
  takes; `GiftStands` is the absence of gifts in `swap`; `NoneGivenAway` is what
  `cancel_race` does not keep to. Section 4 says what goes wrong without each.

## 8. Abstractions, and what is not modelled

* Several reads in a row, before the first lock or write, are one step. What
  they decide is either read again later (the limit) or is a hazard at the
  later write, where the model lets other handlers in.
* Dates and hours are slot numbers. "From today on", in the clearing of
  conflicts, is "from the current hour on": it tells apart past and future.
* In the booking core `allowed` and `banned` are one set, `access`. `Warn` says
  only that a late cancellation may end in a loss of access.
* `Warnings` leaves reasons, notices, invites and names out. A month has no
  days, so the job's midnight and the instant a ban ends are the same; two bans
  never end at the same instant (`FlushBan`), as timestamps do not.
* A handler that fails rolls back; one that loses its connection after COMMIT
  has committed. Where Telegram delivers a message and its answer is lost, the
  handler takes the path of a failed call and what it would have recorded is not.
* `GeoStart` and `Select` read the time and query at once: the phases are half
  an hour long, the reads milliseconds apart. What is read is acted on in later
  steps, any time later.
* A location is inside the geofence or it changes nothing. `LocAbsent` and
  `GeoAbsent` are a transaction each. The warning an absence ends in is counted
  (`charged`), or not, when the member is banned or `add_warning` fails.
* A member who was deleted and comes back gets a new row and a new id; in the
  booking core a deleted member does not come back.
* What an exception in the middle of a transaction of the review does is
  `HandlerFails`, whatever it comes from. Whether the ORM can raise one itself,
  when a request is flushed after a bulk DELETE of its ranges
  (`equipment_request.py:83-88`), was not settled.
* Of a review message, `Message` has the status, the text and the ranges; the
  lines about the direct message and the post (`render_status`) are left out.
* `slot_length` is an hour, as in the default configuration.

Not modelled:

* Clubs and their leaders (`club_service`, `admin_clubs`): names, and who may
  cancel one occurrence of a weekly slot. The booking core lets anybody (`Skip`).
* The dialogs of swaps and of a member's bookings (`swap`, `my_bookings`): which
  bookings are shown. What is chosen reaches the services as ids that may be
  stale, and that is how the booking core takes its requests.
* The rate limit (`core/rate_limit`): a sliding window per user that one
  function updates without an await, so nothing interleaves with it.
* The dictionary of flash-book messages (`flash_book_store`): which messages of
  which chats are edited when a slot is taken. The booking itself is modelled.
* The start of the bot gives the configured first admin a row with access
  (`bootstrap.py:132-140`), before any update is handled. `Members` starts after
  it, from a table without rows.
* Start-up, health check, metrics, logging, migrations, keyboards, texts:
  nothing here decides what is in the tables.

## 9. What is left

1. Clubs: the right to cancel an occurrence of a weekly slot, checked by a
   handler that acts on it later.
2. The columns of the jobs in the booking core itself. `ImplementsTable` leaves
   them out: that a gift and a swap clear what `BookingTable` says they clear is
   read off the code, not derived from `Bookings`.
3. `Warn` of the booking core and `warn` of `Warnings` as one operation, as the
   table of bookings now is for the jobs.
