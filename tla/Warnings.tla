------------------------------ MODULE Warnings ------------------------------
(***************************************************************************)
(* Warnings, bans and room access: the columns of a member that admins,    *)
(* absences, late cancellations, appeals and the nightly job write.        *)
(*                                                                         *)
(* Nearly every operation loads the member, decides, and writes later the  *)
(* columns in which the loaded object differs from what was loaded: it     *)
(* decides on what it has read, and leaves alone what it did not change,   *)
(* whatever has been committed in between.                                 *)
(***************************************************************************)
EXTENDS Integers

CONSTANTS
  Users,        \* members
  Handlers,     \* requests that can be under way at once
  MaxRequests,  \* bound: requests ever made
  Horizon       \* bound: time, in months

ASSUME WarningAssumption ==
  /\ MaxRequests \in Nat
  /\ Horizon \in Nat

MAX_WARNINGS == 3
BAN_DURATIONS_MONTHS == <<1, 3, 6>>

VARIABLES
  users,    \* table: member -> row
  time,     \* months passed
  task,     \* handler -> its request, its member, the row it has loaded
  lifting,  \* the nightly job: the members it has loaded
  requests  \* requests made

vars == <<users, time, task, lifting, requests>>

\* until is 0 where banned_until is NULL.
UserRow == [allowed : BOOLEAN, banned : BOOLEAN, until : Nat,
            bans : Nat, warnings : Int]
Newcomer == [allowed |-> FALSE, banned |-> FALSE, until |-> 0,
             bans |-> 0, warnings |-> 0]

Ops  == {"warn", "remove", "reset", "revert", "appeal",
         "ban", "unban", "allow", "add", "revoke"}
Idle == [op |-> "none"]
Task == [op : Ops, user : Users, seen : UserRow]

NoJob == [at |-> "idle", users |-> {}]

-----------------------------------------------------------------------------
(* What the operations make of a loaded row *)

Clear(row) == [row EXCEPT !.banned = FALSE, !.until = 0]

\* _ban_duration_months
Months(bans) ==
  BAN_DURATIONS_MONTHS[IF bans > 3 THEN 3 ELSE IF bans < 1 THEN 1 ELSE bans]

\* apply_progressive_ban
BanRow(row) ==
  [row EXCEPT !.allowed = FALSE, !.banned = TRUE, !.bans = @ + 1,
              !.until = time + Months(row.bans + 1)]

AtLeast0(n) == IF n < 0 THEN 0 ELSE n

\* Mutants of RevertRow: the ban counter is compensated whether the member is
\* banned or not; and without a minimum.
RevertRowAlways(row) ==
  [row EXCEPT !.warnings = AtLeast0(@ - 1), !.bans = AtLeast0(@ - 1),
              !.allowed = @ \/ row.banned, !.banned = FALSE, !.until = 0]
RevertRowBelow(row) ==
  [row EXCEPT !.warnings = AtLeast0(@ - 1), !.bans = @ - 1,
              !.allowed = @ \/ row.banned, !.banned = FALSE, !.until = 0]

\* revert_latest_warning, with decrement_ban_count.
RevertRow(row) ==
  LET less == [row EXCEPT !.warnings = AtLeast0(@ - 1)] IN
    IF row.banned
    THEN [Clear(less) EXCEPT !.allowed = TRUE, !.bans = AtLeast0(@ - 1)]
    ELSE less

\* The same, without it.
AppealRow(row) == [RevertRow(row) EXCEPT !.bans = row.bans]

\* Mutant of Accepts: add_warning does not ask whether the member is banned.
AcceptsBanned(op, row) ==
  /\ op = "add"    => ~row.banned /\ ~row.allowed
  /\ op = "remove" => row.warnings > 0
  /\ op = "revoke" => row.allowed

\* Early returns on the loaded row.
Accepts(op, row) ==
  /\ op = "warn"   => ~row.banned
  /\ op = "add"    => ~row.banned /\ ~row.allowed
  /\ op = "remove" => row.warnings > 0
  /\ op = "revoke" => row.allowed

\* The loaded object when it is flushed.
Changed(op, row) ==
  CASE op = "revert" -> RevertRow(row)
    [] op = "appeal" -> AppealRow(row)
    [] op = "unban"  -> [Clear(row) EXCEPT !.warnings = 0]
    [] op = "allow"  -> [Clear(row) EXCEPT !.allowed = TRUE]
    [] op = "add"    -> [row EXCEPT !.allowed = TRUE]
    [] op = "revoke" -> [row EXCEPT !.allowed = FALSE]
    [] op = "reset"  -> [row EXCEPT !.warnings = 0]

\* A flush writes the columns that differ from what was loaded.
Flush(row, seen, new) ==
  LET Column(now, was, is) == IF is = was THEN now ELSE is IN
    [allowed  |-> Column(row.allowed, seen.allowed, new.allowed),
     banned   |-> Column(row.banned, seen.banned, new.banned),
     until    |-> Column(row.until, seen.until, new.until),
     bans     |-> Column(row.bans, seen.bans, new.bans),
     warnings |-> Column(row.warnings, seen.warnings, new.warnings)]

\* A ban always moves banned_until: no two end at the same instant.
FlushBan(row, seen) ==
  [Flush(row, seen, BanRow(seen)) EXCEPT !.until = BanRow(seen).until]

-----------------------------------------------------------------------------
(* Requests *)

\* The member is loaded.
Load(p, u, op) ==
  /\ task[p] = Idle /\ requests < MaxRequests
  /\ Accepts(op, users[u])
  /\ task' = [task EXCEPT ![p] = [op |-> op, user |-> u, seen |-> users[u]]]
  /\ requests' = requests + 1
  /\ UNCHANGED <<users, time, lifting>>

\* The admins' commands and buttons. A warning also comes from an absence, a
\* late location and a late cancellation, in the same way.
WarnUser(p, u)    == Load(p, u, "warn")
RemoveOne(p, u)   == Load(p, u, "remove")
ResetOne(p, u)    == Load(p, u, "reset")
RevertOne(p, u)   == Load(p, u, "revert")
AppealOne(p, u)   == Load(p, u, "appeal")
Ban(p, u)         == Load(p, u, "ban")
Revoke(p, u)      == Load(p, u, "revoke")
AllowOrAdd(p, u)  == \E op \in {"allow", "add"} : Load(p, u, op)
Unban(p, u)       == Load(p, u, "unban")

Request(p, u) ==
  \/ WarnUser(p, u)  \/ RemoveOne(p, u) \/ ResetOne(p, u)
  \/ RevertOne(p, u) \/ AppealOne(p, u)
  \/ Ban(p, u) \/ Unban(p, u) \/ AllowOrAdd(p, u) \/ Revoke(p, u)

Write(p, row) ==
  /\ users' = [users EXCEPT ![task[p].user] = row]
  /\ task' = [task EXCEPT ![p] = Idle]
  /\ UNCHANGED <<time, lifting, requests>>

\* add_warning: the count is incremented where it is, under the row's lock;
\* the ban that may follow goes by the member as loaded before.
AddWarning(p) ==
  LET row   == users[task[p].user]
      seen  == task[p].seen
      more  == [row EXCEPT !.warnings = @ + 1]
  IN
    /\ task[p].op = "warn"
    /\ Write(p, IF more.warnings >= MAX_WARNINGS
                THEN FlushBan(more, seen)
                ELSE more)

\* remove_warning: so is the decrement.
RemoveWarning(p) ==
  /\ task[p].op = "remove"
  /\ Write(p, [users[task[p].user] EXCEPT !.warnings = @ - 1])

\* ban_user.
BanUser(p) ==
  /\ task[p].op = "ban"
  /\ Write(p, FlushBan(users[task[p].user], task[p].seen))

\* The others change the object and flush it.
ChangeUser(p) ==
  /\ task[p].op \in Ops \ {"warn", "remove", "ban"}
  /\ Write(p, Flush(users[task[p].user], task[p].seen,
                    Changed(task[p].op, task[p].seen)))

\* A request that fails, before its COMMIT.
Fail(p) ==
  /\ task[p] # Idle
  /\ task' = [task EXCEPT ![p] = Idle]
  /\ UNCHANGED <<users, time, lifting, requests>>

\* reset_all_warnings, one statement.
ResetAll ==
  /\ requests < MaxRequests
  /\ users' = [u \in Users |-> IF users[u].warnings > 0
                               THEN [users[u] EXCEPT !.warnings = 0]
                               ELSE users[u]]
  /\ requests' = requests + 1
  /\ UNCHANGED <<time, task, lifting>>

\* unban_all_users, one statement.
UnbanAll ==
  /\ requests < MaxRequests
  /\ users' = [u \in Users |-> IF users[u].banned THEN Clear(users[u])
                                                  ELSE users[u]]
  /\ requests' = requests + 1
  /\ UNCHANGED <<time, task, lifting>>

-----------------------------------------------------------------------------
(* The nightly job *)

\* Mutant of Over: a ban is not over when it ends.
OverLate(row) == row.banned /\ row.until # 0 /\ row.until < time

\* What unban_expired_users selects.
Over(row) == row.banned /\ row.until # 0 /\ row.until <= time

JobLoad ==
  /\ lifting.at = "idle"
  /\ \E u \in Users : Over(users[u])
  /\ lifting' = [at |-> "lift", users |-> {u \in Users : Over(users[u])}]
  /\ UNCHANGED <<users, time, task, requests>>

\* What was loaded was banned until some time, so both columns are written.
JobLift ==
  /\ lifting.at = "lift"
  /\ users' = [u \in Users |-> IF u \in lifting.users THEN Clear(users[u])
                                                      ELSE users[u]]
  /\ lifting' = NoJob
  /\ UNCHANGED <<time, task, requests>>

\* A run that fails rolls back.
JobFail ==
  /\ lifting.at = "lift"
  /\ lifting' = NoJob
  /\ UNCHANGED <<users, time, task, requests>>

Tick ==
  /\ time < Horizon
  /\ time' = time + 1
  /\ UNCHANGED <<users, task, lifting, requests>>

-----------------------------------------------------------------------------
(* Specification *)

Init ==
  /\ users = [u \in Users |-> Newcomer]
  /\ time = 0
  /\ task = [p \in Handlers |-> Idle]
  /\ lifting = NoJob
  /\ requests = 0

Work(p) ==
  \/ AddWarning(p) \/ RemoveWarning(p)
  \/ BanUser(p) \/ ChangeUser(p)
  \/ Fail(p)

Next ==
  \/ \E p \in Handlers, u \in Users : Request(p, u)
  \/ \E p \in Handlers : Work(p)
  \/ ResetAll \/ UnbanAll
  \/ JobLoad \/ JobLift \/ JobFail
  \/ Tick

Spec == Init /\ [][Next]_vars

\* The scheduler starts the job every night, and not every run fails.
FairSpec == Spec /\ WF_vars(JobLoad) /\ SF_vars(JobLift)

-----------------------------------------------------------------------------
(* Properties *)

(***************************************************************************)
(* Every variable has its type. The count of bans never falls below zero;  *)
(* the count of warnings may (remove_warning decrements after a look at    *)
(* what it loaded).                                                        *)
(***************************************************************************)
TypeOK ==
  /\ users \in [Users -> UserRow]
  /\ time \in Nat
  /\ task \in [Handlers -> Task \cup {Idle}]
  /\ lifting \in [at : {"idle", "lift"}, users : SUBSET Users]
  /\ requests \in 0..MaxRequests

(***************************************************************************)
(* A warning that reaches the limit leaves the member banned, whoever      *)
(* lifts bans and removes warnings meanwhile (add_warning: "Auto-bans on   *)
(* MAX_WARNINGS").                                                         *)
(***************************************************************************)
LimitBans ==
  [][\A p \in Handlers :
       LET u == task[p].user IN
         /\ task[p].op = "warn" /\ task'[p] = Idle
         /\ users'[u].warnings > users[u].warnings
         /\ users'[u].warnings >= MAX_WARNINGS
         => users'[u].banned
    ]_vars

(***************************************************************************)
(* Every ban that stands is counted: reverting an older one never takes    *)
(* the count of a newer one away, which would start the progression of     *)
(* durations over (apply_progressive_ban, revert_latest_warning).          *)
(***************************************************************************)
BanCounted == \A u \in Users : users[u].banned => users[u].bans > 0

(***************************************************************************)
(* A ban whose end has come does not last: the nightly job lifts it,       *)
(* unless somebody else does, or bans the member again.                    *)
(***************************************************************************)
BansEnd ==
  \A u \in Users :
    (users[u].banned /\ users[u].until \in 1..time) ~>
      ~(users[u].banned /\ users[u].until \in 1..time)
=============================================================================
