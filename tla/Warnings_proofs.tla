-------------------------- MODULE Warnings_proofs --------------------------
(***************************************************************************)
(* For any members, handlers, requests and months: a standing ban is       *)
(* counted, and a warning that reaches the limit leaves its member banned. *)
(***************************************************************************)
EXTENDS Warnings, TLAPS

\* A member who was banned when loaded gets no warning.
WarnsUnbanned ==
  \A p \in Handlers : task[p].op = "warn" => ~task[p].seen.banned

IInv == TypeOK /\ BanCounted /\ WarnsUnbanned

\* BanCounted, of one row.
Counted(row) == row.banned => row.bans > 0

-----------------------------------------------------------------------------
(* Rows *)

\* No operation is called none.
LEMMA Busy ==
  ASSUME IInv, NEW p \in Handlers, task[p].op \in Ops
  PROVE  task[p] \in Task
BY DEF IInv, TypeOK, Idle, Task, Ops

\* A ban lasts for some months.
LEMMA MonthsNat == \A n \in Nat : Months(n) \in Nat
BY DEF Months, BAN_DURATIONS_MONTHS

\* A flushed row is a row.
LEMMA FlushTyped ==
  ASSUME NEW row \in UserRow, NEW seen \in UserRow, NEW new \in UserRow
  PROVE  Flush(row, seen, new) \in UserRow
BY DEF Flush, UserRow

\* A row with some of its columns set.
SetBan(r, n, t)   == [r EXCEPT !.allowed = FALSE, !.banned = TRUE,
                               !.bans = n, !.until = t]
SetWarnings(r, n) == [r EXCEPT !.warnings = n]
SetBans(r, n)     == [r EXCEPT !.bans = n]
SetAllowed(r, a)  == [r EXCEPT !.allowed = a]
SetFree(r, n)     == [r EXCEPT !.allowed = TRUE, !.bans = n]
SetUntil(r, t)    == [r EXCEPT !.until = t]

\* It is a row.
LEMMA SetRow ==
  /\ \A r \in UserRow, n \in Nat, t \in Nat : SetBan(r, n, t) \in UserRow
  /\ \A r \in UserRow, n \in Nat : SetBans(r, n) \in UserRow
  /\ \A r \in UserRow, n \in Nat : SetFree(r, n) \in UserRow
  /\ \A r \in UserRow, n \in Nat : SetUntil(r, n) \in UserRow
  /\ \A r \in UserRow, n \in Int : SetWarnings(r, n) \in UserRow
  /\ \A r \in UserRow, a \in BOOLEAN : SetAllowed(r, a) \in UserRow
  /\ \A r \in UserRow : Clear(r) \in UserRow
BY DEF Clear, SetBan, SetWarnings, SetBans, SetFree, SetAllowed, SetUntil,
       UserRow

\* A ban bans, lifting it lifts it, the rest leaves it alone.
LEMMA SetBanned ==
  /\ \A r \in UserRow, n \in Nat, t \in Nat : SetBan(r, n, t).banned
  /\ \A r \in UserRow, n \in Nat : SetBans(r, n).banned = r.banned
  /\ \A r \in UserRow, n \in Nat : SetFree(r, n).banned = r.banned
  /\ \A r \in UserRow, n \in Nat : SetUntil(r, n).banned = r.banned
  /\ \A r \in UserRow, n \in Int : SetWarnings(r, n).banned = r.banned
  /\ \A r \in UserRow, a \in BOOLEAN : SetAllowed(r, a).banned = r.banned
  /\ \A r \in UserRow : ~Clear(r).banned
BY DEF Clear, SetBan, SetWarnings, SetBans, SetFree, SetAllowed, SetUntil,
       UserRow

\* What becomes of the count of bans.
LEMMA SetCount ==
  /\ \A r \in UserRow, n \in Nat, t \in Nat : SetBan(r, n, t).bans = n
  /\ \A r \in UserRow, n \in Nat : SetBans(r, n).bans = n
  /\ \A r \in UserRow, n \in Nat : SetFree(r, n).bans = n
  /\ \A r \in UserRow, n \in Nat : SetUntil(r, n).bans = r.bans
  /\ \A r \in UserRow, n \in Int : SetWarnings(r, n).bans = r.bans
  /\ \A r \in UserRow, a \in BOOLEAN : SetAllowed(r, a).bans = r.bans
  /\ \A r \in UserRow : Clear(r).bans = r.bans
BY DEF Clear, SetBan, SetWarnings, SetBans, SetFree, SetAllowed, SetUntil,
       UserRow

\* What becomes of the count of warnings.
LEMMA SetWarned ==
  /\ \A r \in UserRow, n \in Nat, t \in Nat :
       SetBan(r, n, t).warnings = r.warnings
  /\ \A r \in UserRow, n \in Nat : SetUntil(r, n).warnings = r.warnings
  /\ \A r \in UserRow, n \in Int : SetWarnings(r, n).warnings = n
BY DEF Clear, SetBan, SetWarnings, SetBans, SetFree, SetAllowed, SetUntil,
       UserRow

\* The count of bans is not negative.
LEMMA BansNat == \A r \in UserRow : r.bans \in Nat
BY DEF UserRow

\* The count of warnings may be negative.
LEMMA WarningsInt == \A r \in UserRow : r.warnings \in Int
BY DEF UserRow

\* The end of a ban is a time.
LEMMA UntilNat == \A r \in UserRow : r.until \in Nat
BY DEF UserRow

\* apply_progressive_ban makes a counted ban of a row.
LEMMA BanRowTyped ==
  ASSUME time \in Nat, NEW row \in UserRow
  PROVE  /\ BanRow(row) \in UserRow
         /\ BanRow(row).banned
         /\ BanRow(row).bans = row.bans + 1
         /\ BanRow(row).warnings = row.warnings
<1>1. row.bans + 1 \in Nat
  BY BansNat
<1>2. time + Months(row.bans + 1) \in Nat
  BY <1>1, MonthsNat
<1>3. BanRow(row) = SetBan(row, row.bans + 1, time + Months(row.bans + 1))
  BY DEF BanRow, SetBan
<1>4. BanRow(row) \in UserRow
  BY <1>1, <1>2, <1>3, SetRow
<1>5. BanRow(row).banned
  BY <1>1, <1>2, <1>3, SetBanned
<1>6. BanRow(row).bans = row.bans + 1
  BY <1>1, <1>2, <1>3, SetCount
<1>7. BanRow(row).warnings = row.warnings
  BY <1>1, <1>2, <1>3, SetWarned
<1>8. QED
  BY <1>4, <1>5, <1>6, <1>7

\* Writing it to a row leaves a counted row, with the row's own warnings.
LEMMA FlushBanKeeps ==
  ASSUME time \in Nat, NEW row \in UserRow, NEW seen \in UserRow
  PROVE  /\ FlushBan(row, seen) \in UserRow
         /\ FlushBan(row, seen).bans > 0
         /\ FlushBan(row, seen).warnings = row.warnings
         /\ ~seen.banned => FlushBan(row, seen).banned
<1> SUFFICES ASSUME NEW new \in UserRow, new = BanRow(seen)
             PROVE  /\ FlushBan(row, seen) \in UserRow
                    /\ FlushBan(row, seen).bans > 0
                    /\ FlushBan(row, seen).warnings = row.warnings
                    /\ ~seen.banned => FlushBan(row, seen).banned
  BY BanRowTyped
<1>1. new.banned /\ new.bans = seen.bans + 1 /\ new.warnings = seen.warnings
  BY BanRowTyped
<1>2. PICK flushed \in UserRow : flushed = Flush(row, seen, new)
  BY FlushTyped
<1>3. FlushBan(row, seen) = SetUntil(flushed, new.until)
  BY <1>2 DEF FlushBan, SetUntil
<1>4. flushed.bans = new.bans
  <2>1. new.bans # seen.bans
    BY <1>1, BansNat
  <2>2. QED
    BY <1>2, <2>1 DEF Flush
<1>5. flushed.warnings = row.warnings
  BY <1>1, <1>2 DEF Flush
<1>6. ~seen.banned => flushed.banned
  BY <1>1, <1>2 DEF Flush
<1>7. new.bans > 0
  BY <1>1, BansNat
<1>8. new.until \in Nat
  BY UntilNat
<1>9. FlushBan(row, seen) \in UserRow
  BY <1>3, <1>8, SetRow
<1>10. FlushBan(row, seen).bans = new.bans
  BY <1>3, <1>4, <1>8, SetCount
<1>11. FlushBan(row, seen).warnings = row.warnings
  BY <1>3, <1>5, <1>8, SetWarned
<1>12. FlushBan(row, seen).banned = flushed.banned
  BY <1>3, <1>8, SetBanned
<1>13. QED
  BY <1>6, <1>7, <1>9, <1>10, <1>11, <1>12

\* Setting warnings or access changes nothing about bans.
LEMMA SetKeeps ==
  ASSUME NEW row \in UserRow, NEW new, NEW a \in BOOLEAN,
         new = SetWarnings(row, 0) \/ new = SetAllowed(row, a)
  PROVE  new \in UserRow /\ new.banned = row.banned /\ new.bans = row.bans
<1>1. 0 \in Int
  OBVIOUS
<1>2. CASE new = SetWarnings(row, 0)
  <2>1. new \in UserRow
    BY <1>1, <1>2, SetRow
  <2>2. new.banned = row.banned
    BY <1>1, <1>2, SetBanned
  <2>3. new.bans = row.bans
    BY <1>1, <1>2, SetCount
  <2>4. QED
    BY <2>1, <2>2, <2>3
<1>3. CASE new = SetAllowed(row, a)
  <2>1. new \in UserRow
    BY <1>3, SetRow
  <2>2. new.banned = row.banned
    BY <1>3, SetBanned
  <2>3. new.bans = row.bans
    BY <1>3, SetCount
  <2>4. QED
    BY <2>1, <2>2, <2>3
<1>4. QED
  BY <1>2, <1>3

\* An unbanned object stays one, and a change that leaves the member banned
\* leaves the count of bans as it was.
LEMMA ChangedTyped ==
  ASSUME NEW op \in Ops \ {"warn", "remove", "ban"}, NEW row \in UserRow
  PROVE  /\ Changed(op, row) \in UserRow
         /\ Changed(op, row).banned = row.banned =>
              Changed(op, row).bans = row.bans
         /\ Changed(op, row).banned => row.banned
<1>1. /\ RevertRow(row) \in UserRow
      /\ RevertRow(row).banned = row.banned => RevertRow(row).bans = row.bans
      /\ RevertRow(row).banned => row.banned
  <2>1. \A n \in Int : AtLeast0(n - 1) \in Nat
    BY DEF AtLeast0
  <2>2. PICK less \in UserRow :
          /\ less = SetWarnings(row, AtLeast0(row.warnings - 1))
          /\ less.banned = row.banned /\ less.bans = row.bans
    <3>1. AtLeast0(row.warnings - 1) \in Int
      BY <2>1, WarningsInt
    <3>2. SetWarnings(row, AtLeast0(row.warnings - 1)) \in UserRow
      BY <3>1, SetRow
    <3>3. SetWarnings(row, AtLeast0(row.warnings - 1)).banned = row.banned
      BY <3>1, SetBanned
    <3>4. SetWarnings(row, AtLeast0(row.warnings - 1)).bans = row.bans
      BY <3>1, SetCount
    <3>5. QED
      BY <3>2, <3>3, <3>4
  <2>3. CASE row.banned
    <3>1. PICK free \in UserRow : free = Clear(less) /\ ~free.banned
      BY SetRow, SetBanned
    <3>2. PICK n \in Nat : n = AtLeast0(free.bans - 1)
      BY <2>1, BansNat
    <3>3. RevertRow(row) = SetFree(free, n)
      BY <2>2, <2>3, <3>1, <3>2 DEF RevertRow, SetWarnings, SetFree
    <3>4. RevertRow(row) \in UserRow
      BY <3>3, SetRow
    <3>5. ~RevertRow(row).banned
      BY <3>1, <3>3, SetBanned
    <3>6. QED
      BY <2>3, <3>4, <3>5
  <2>4. CASE ~row.banned
    BY <2>2, <2>4 DEF RevertRow, SetWarnings
  <2>5. QED
    BY <2>3, <2>4
<1>2. CASE op = "revert"
  BY <1>1, <1>2 DEF Changed
<1>3. CASE op = "appeal"
  <2>1. Changed(op, row) = SetBans(RevertRow(row), row.bans)
    BY <1>3 DEF Changed, AppealRow, SetBans
  <2>2. row.bans \in Nat
    BY BansNat
  <2>3. Changed(op, row) \in UserRow
    BY <1>1, <2>1, <2>2, SetRow
  <2>4. Changed(op, row).bans = row.bans
    BY <1>1, <2>1, <2>2, SetCount
  <2>5. Changed(op, row).banned = RevertRow(row).banned
    BY <1>1, <2>1, <2>2, SetBanned
  <2>6. QED
    BY <1>1, <2>3, <2>4, <2>5
<1>4. CASE op \in {"unban", "allow"}
  <2>1. PICK free \in UserRow : free = Clear(row)
    BY SetRow
  <2>2. \/ Changed(op, row) = SetWarnings(free, 0)
        \/ Changed(op, row) = SetAllowed(free, TRUE)
    BY <1>4, <2>1 DEF Changed, SetWarnings, SetAllowed
  <2>3. /\ Changed(op, row) \in UserRow
        /\ Changed(op, row).banned = free.banned
        /\ Changed(op, row).bans = free.bans
    BY <2>2, SetKeeps
  <2>4. ~free.banned
    BY <2>1, SetBanned
  <2>5. free.bans = row.bans
    BY <2>1, SetCount
  <2>6. QED
    BY <2>3, <2>4, <2>5
<1>5. CASE op \in {"add", "revoke", "reset"}
  <2>1. \/ Changed(op, row) = SetAllowed(row, TRUE)
        \/ Changed(op, row) = SetAllowed(row, FALSE)
        \/ Changed(op, row) = SetWarnings(row, 0)
    BY <1>5 DEF Changed, SetAllowed, SetWarnings
  <2>2. QED
    BY <2>1, SetKeeps
<1>6. QED
  BY <1>2, <1>3, <1>4, <1>5 DEF Ops

\* Setting the warnings of a counted row, or lifting its ban, keeps it one.
LEMMA CountKeeps ==
  ASSUME NEW row \in UserRow, Counted(row), NEW n \in Int
  PROVE  /\ SetWarnings(row, n) \in UserRow
         /\ Counted(SetWarnings(row, n))
         /\ Clear(row) \in UserRow
         /\ Counted(Clear(row))
<1>1. SetWarnings(row, n) \in UserRow /\ Clear(row) \in UserRow
  BY SetRow
<1>2. SetWarnings(row, n).banned = row.banned
  BY SetBanned
<1>3. ~Clear(row).banned
  BY SetBanned
<1>4. SetWarnings(row, n).bans = row.bans
  BY SetCount
<1>5. QED
  BY <1>1, <1>2, <1>3, <1>4 DEF Counted

\* So flushing one keeps a row counted.
LEMMA FlushKeeps ==
  ASSUME NEW op \in Ops \ {"warn", "remove", "ban"},
         NEW row \in UserRow, NEW seen \in UserRow, Counted(row)
  PROVE  /\ Flush(row, seen, Changed(op, seen)) \in UserRow
         /\ Counted(Flush(row, seen, Changed(op, seen)))
<1> SUFFICES ASSUME NEW new \in UserRow, new = Changed(op, seen),
                    new.banned = seen.banned => new.bans = seen.bans,
                    new.banned => seen.banned
             PROVE  /\ Flush(row, seen, new) \in UserRow
                    /\ Counted(Flush(row, seen, new))
  BY ChangedTyped
<1>1. QED
  BY FlushTyped DEF Flush, Counted, UserRow

-----------------------------------------------------------------------------
(* Steps *)

\* No member is banned at first.
LEMMA InitHolds == Init => IInv
BY WarningAssumption
   DEF Init, IInv, TypeOK, BanCounted, WarnsUnbanned, UserRow, Newcomer,
       Idle, NoJob

\* A counted row may be written.
LEMMA WriteKeeps ==
  ASSUME IInv, NEW p \in Handlers, task[p] \in Task,
         NEW row \in UserRow, Counted(row), Write(p, row)
  PROVE  IInv'
<1>1. TypeOK'
  BY DEF IInv, TypeOK, Write, Task
<1>2. BanCounted'
  BY DEF IInv, TypeOK, BanCounted, Counted, Write, Task
<1>3. WarnsUnbanned'
  BY DEF IInv, TypeOK, WarnsUnbanned, Write, Idle
<1>4. QED
  BY <1>1, <1>2, <1>3 DEF IInv

\* Handlers write counted rows.
LEMMA WorkSteps ==
  ASSUME IInv, NEW p \in Handlers, Work(p)
  PROVE  IInv'
<1>1. CASE Fail(p)
  BY <1>1 DEF IInv, TypeOK, BanCounted, WarnsUnbanned, Fail, Idle
<1>2. CASE AddWarning(p) \/ RemoveWarning(p) \/ BanUser(p) \/ ChangeUser(p)
  <2> SUFFICES ASSUME NEW row \in UserRow, row = users[task[p].user],
                      NEW seen \in UserRow, seen = task[p].seen,
                      task[p] \in Task, Counted(row), time \in Nat
               PROVE  IInv'
    <3>1. task[p].op \in Ops
      BY <1>2 DEF AddWarning, RemoveWarning, BanUser, ChangeUser, Ops
    <3>2. task[p] \in Task
      BY <3>1, Busy
    <3>3. QED
      BY <3>2 DEF IInv, TypeOK, BanCounted, Counted, Task
  <2>1. CASE AddWarning(p)
    <3> SUFFICES ASSUME NEW more \in UserRow,
                        more = SetWarnings(row, row.warnings + 1),
                        Counted(more)
                 PROVE  IInv'
      <4>1. row.warnings + 1 \in Int
        BY WarningsInt
      <4>2. QED
        BY <4>1, CountKeeps
    <3>1. FlushBan(more, seen) \in UserRow /\ Counted(FlushBan(more, seen))
      BY FlushBanKeeps DEF Counted
    <3>2. Write(p, more) \/ Write(p, FlushBan(more, seen))
      BY <2>1 DEF AddWarning, SetWarnings
    <3>3. QED
      BY <3>1, <3>2, WriteKeeps
  <2>2. CASE RemoveWarning(p)
    <3>1. row.warnings - 1 \in Int
      BY WarningsInt
    <3>2. Write(p, SetWarnings(row, row.warnings - 1))
      BY <2>2 DEF RemoveWarning, SetWarnings
    <3>3. QED
      BY <3>1, <3>2, CountKeeps, WriteKeeps
  <2>3. CASE BanUser(p)
    BY <2>3, FlushBanKeeps, WriteKeeps DEF BanUser, Counted
  <2>4. CASE ChangeUser(p)
    <3>1. task[p].op \in Ops \ {"warn", "remove", "ban"}
      BY <2>4 DEF ChangeUser
    <3>2. Write(p, Flush(row, seen, Changed(task[p].op, seen)))
      BY <2>4 DEF ChangeUser
    <3>3. QED
      BY <3>1, <3>2, FlushKeeps, WriteKeeps
  <2>5. QED
    BY <1>2, <2>1, <2>2, <2>3, <2>4
<1>3. QED
  BY <1>1, <1>2 DEF Work

\* Statements over the whole table only reset warnings or lift bans.
LEMMA BulkKeeps ==
  ASSUME IInv, ResetAll \/ UnbanAll \/ JobLift
  PROVE  IInv'
<1>1. users' \in [Users -> UserRow] /\ BanCounted'
  <2>1. \A u \in Users :
          LET row == users'[u] IN
            \/ row = users[u]
            \/ row = SetWarnings(users[u], 0)
            \/ row = Clear(users[u])
    BY DEF SetWarnings, ResetAll, UnbanAll, JobLift
  <2>2. \A u \in Users : users'[u] \in UserRow /\ Counted(users'[u])
    <3> SUFFICES ASSUME NEW u \in Users
                 PROVE  users'[u] \in UserRow /\ Counted(users'[u])
      OBVIOUS
    <3>1. users[u] \in UserRow /\ Counted(users[u])
      BY DEF IInv, TypeOK, BanCounted, Counted
    <3>2. QED
      BY <2>1, <3>1, CountKeeps
  <2>3. users' = [u \in Users |-> users'[u]]
    BY DEF ResetAll, UnbanAll, JobLift
  <2>4. users' \in [Users -> UserRow]
    BY <2>2, <2>3
  <2>5. QED
    BY <2>2, <2>4 DEF BanCounted, Counted
<1>2. QED
  BY <1>1, WarningAssumption
     DEF IInv, TypeOK, WarnsUnbanned, ResetAll, UnbanAll, JobLift, NoJob

\* Whatever is asked for starts with loading the member.
LEMMA RequestLoads ==
  ASSUME NEW p \in Handlers, NEW u \in Users, Request(p, u)
  PROVE  \E op \in Ops : Load(p, u, op)
BY DEF Request, WarnUser, RemoveOne, ResetOne, RevertOne, AppealOne, Ban,
       Unban, AllowOrAdd, Revoke, Ops

\* Loading, by a handler or the job, and the clock.
LEMMA ReadKeeps ==
  ASSUME IInv,
         \/ \E p \in Handlers, u \in Users : Request(p, u)
         \/ JobLoad \/ JobFail \/ Tick
  PROVE  IInv'
<1>1. CASE \E p \in Handlers, u \in Users : Request(p, u)
  <2> PICK p \in Handlers, u \in Users, op \in Ops : Load(p, u, op)
    BY <1>1, RequestLoads
  <2>1. [op |-> op, user |-> u, seen |-> users[u]] \in Task
    BY DEF IInv, TypeOK, Task
  <2>2. TypeOK'
    BY <2>1, WarningAssumption DEF IInv, TypeOK, Load
  <2>3. WarnsUnbanned'
    BY DEF IInv, TypeOK, WarnsUnbanned, Load, Accepts
  <2>4. QED
    BY <2>2, <2>3 DEF IInv, BanCounted, Load
<1>2. CASE JobLoad \/ JobFail \/ Tick
  BY <1>2, WarningAssumption
     DEF IInv, TypeOK, BanCounted, WarnsUnbanned, JobLoad, JobFail, Tick, NoJob
<1>3. QED
  BY <1>1, <1>2

\* Every step keeps it.
LEMMA Step == IInv /\ [Next]_vars => IInv'
<1> SUFFICES ASSUME IInv, [Next]_vars PROVE IInv'
  OBVIOUS
<1>1. CASE UNCHANGED vars
  BY <1>1 DEF IInv, TypeOK, BanCounted, WarnsUnbanned, vars
<1>2. CASE Next
  BY <1>2, WorkSteps, BulkKeeps, ReadKeeps DEF Next
<1>3. QED
  BY <1>1, <1>2

\* A warning that goes through at the limit bans.
LEMMA LimitStep ==
  ASSUME IInv, [Next]_vars, NEW p \in Handlers, NEW u \in Users,
         u = task[p].user,
         task[p].op = "warn", task'[p] = Idle,
         users'[u].warnings > users[u].warnings,
         users'[u].warnings >= MAX_WARNINGS
  PROVE  users'[u].banned
<1>1. task[p] # Idle /\ task[p] \in Task
  BY Busy DEF Idle, Ops
<1>2. AddWarning(p) \/ Fail(p)
  <2>1. task'[p] # task[p]
    BY <1>1
  <2>2. PICK q \in Handlers : Work(q) \/ \E v \in Users, op \in Ops : Load(q, v, op)
    BY <2>1, RequestLoads
       DEF Next, vars, ResetAll, UnbanAll, JobLoad, JobLift, JobFail, Tick
  <2>3. q = p
    BY <2>1, <2>2 DEF IInv, TypeOK, Work, AddWarning, RemoveWarning, BanUser,
                      ChangeUser, Fail, Write, Load
  <2>4. QED
    BY <1>1, <2>2, <2>3 DEF Work, RemoveWarning, BanUser, ChangeUser, Load
<1>3. users[u] \in UserRow /\ task[p].seen \in UserRow /\ time \in Nat
  BY <1>1 DEF IInv, TypeOK, Task
<1>4. AddWarning(p)
  BY <1>2, <1>3 DEF Fail, UserRow
<1>5. PICK more \in UserRow :
        more = SetWarnings(users[u], users[u].warnings + 1)
  <2>1. users[u].warnings + 1 \in Int
    BY <1>3, WarningsInt
  <2>2. QED
    BY <1>3, <2>1, SetRow
<1>6. \/ /\ more.warnings >= MAX_WARNINGS
           /\ Write(p, FlushBan(more, task[p].seen))
      \/ /\ ~(more.warnings >= MAX_WARNINGS)
           /\ Write(p, more)
  BY <1>4, <1>5 DEF AddWarning, SetWarnings
<1>7. users'[u] = FlushBan(more, task[p].seen)
  <2>1. \A row : Write(p, row) => users'[u] = row
    BY DEF Write, IInv, TypeOK
  <2>2. QED
    BY <1>6, <2>1
<1>8. QED
  BY <1>3, <1>7, FlushBanKeeps DEF IInv, WarnsUnbanned

-----------------------------------------------------------------------------
(* Theorems *)

\* The inductive invariant holds in every reachable state.
THEOREM Invariant == Spec => []IInv
BY InitHolds, Step, PTL DEF Spec

\* Every variable keeps its type: no count of bans falls below zero.
THEOREM TypeCorrect == Spec => []TypeOK
<1>1. IInv => TypeOK
  BY DEF IInv
<1>2. QED
  BY Invariant, <1>1, PTL

\* A standing ban is counted, whatever reverts race with it.
THEOREM BansCounted == Spec => []BanCounted
<1>1. IInv => BanCounted
  BY DEF IInv
<1>2. QED
  BY Invariant, <1>1, PTL

\* A warning that reaches the limit leaves its member banned.
THEOREM WarningBans == Spec => LimitBans
<1>1. IInv /\ [Next]_vars =>
        [\A p \in Handlers :
           LET u == task[p].user IN
             /\ task[p].op = "warn" /\ task'[p] = Idle
             /\ users'[u].warnings > users[u].warnings
             /\ users'[u].warnings >= MAX_WARNINGS
             => users'[u].banned]_vars
  <2> SUFFICES ASSUME IInv, [Next]_vars, NEW p \in Handlers,
                      task[p].op = "warn", task'[p] = Idle,
                      users'[task[p].user].warnings
                        > users[task[p].user].warnings,
                      users'[task[p].user].warnings >= MAX_WARNINGS
               PROVE  users'[task[p].user].banned
    OBVIOUS
  <2>1. task[p].user \in Users
    BY Busy DEF Ops, Task
  <2>2. QED
    BY <2>1, LimitStep
<1>2. QED
  BY Invariant, <1>1, PTL DEF Spec, LimitBans
=============================================================================
