------------------------------ MODULE Runtime ------------------------------
(***************************************************************************)
(* What the handlers and the scheduled jobs of one process share: the      *)
(* connection pool, the semaphore of the booking handlers, the lock of the *)
(* settings cache, the gate of the weekly reset, and in the database the   *)
(* advisory locks of the jobs and of a member's booking limit.             *)
(*                                                                         *)
(* A handler is the list of what it takes and gives back, in the order of  *)
(* its code; what it does in between is the subject of the other modules.  *)
(* A session takes its connection with its first statement, and gives it   *)
(* back when it commits or closes.                                         *)
(***************************************************************************)
EXTENDS Naturals, Sequences, FiniteSets

CONSTANTS
  Requests,     \* members' updates that are being handled
  ResetJob, OtherJobs,  \* the weekly reset, and the jobs that check the bookings
  NoOne,
  Slots,        \* BOOKING_MAX_IN_FLIGHT
  Pool          \* DB_POOL_SIZE and DB_MAX_OVERFLOW

Jobs  == {ResetJob} \cup OtherJobs
Tasks == Requests \cup Jobs

ASSUME RuntimeAssumption ==
  /\ IsFiniteSet(Tasks) /\ NoOne \notin Tasks
  /\ Requests \cap Jobs = {} /\ ResetJob \notin OtherJobs
  /\ Slots \in Nat \ {0}
  /\ Pool \in Nat

VARIABLES
  t,          \* the handlers and jobs
  sem,        \* BOOKING_SEM
  cacheLock,  \* who holds _CACHE_LOCK
  fresh,      \* the settings are in the cache and have not expired
  limit,      \* who holds the advisory lock of a member's week
  gate,       \* _RESET_IN_PROGRESS
  joblock,    \* the advisory lock of each job
  otherRuns   \* jobs that another instance of the program is running

vars == <<t, sem, cacheLock, fresh, limit, gate, joblock, otherRuns>>

-----------------------------------------------------------------------------
(* The handlers *)

start_booking == <<"gate?", "slot", "connect", "config", "close", "unslot">>
handle_pick_hour ==
  {<<"slot", "connect", "config", "limit", "close", "connect", "config", "close", "unslot">>,
   <<"slot", "connect", "config", "limit", "config", "close", "unslot">>}   \* at the limit
handle_flash_book == <<"connect", "config", "limit", "close">>
weekly_reset_job  == <<"connect", "trylock", "shut", "connect", "close", "open", "config",
                       "unlock">>
geo_job           == <<"connect", "trylock", "config", "connect", "config", "close", "unlock">>

Scripts(x) ==
  CASE x \in Requests  -> handle_pick_hour \cup {start_booking, handle_flash_book}
    [] x = ResetJob    -> {weekly_reset_job}
    [] x \in OtherJobs -> {geo_job}

\* todo is what is left of the handler; sub is where it is in get_many; slot
\* and locked say that it holds the semaphore and the lock of its job; lost,
\* that the connection that holds the lock has been lost.
Idle == [todo |-> <<>>, conns |-> 0, sub |-> "run",
         slot |-> FALSE, locked |-> FALSE, lost |-> FALSE]

Op(x)  == t[x].sub = "run" /\ t[x].todo # <<>>
At(x, op) == Op(x) /\ Head(t[x].todo) = op
InUse  == Cardinality({p \in Tasks \X (1..3) : p[2] <= t[p[1]].conns})
Next1(x) == [t[x] EXCEPT !.todo = Tail(@), !.sub = "run"]

Start(x) ==
  /\ t[x].todo = <<>>
  /\ \E s \in Scripts(x) : t' = [t EXCEPT ![x].todo = s]
  /\ UNCHANGED <<sem, cacheLock, fresh, limit, gate, joblock, otherRuns>>

-----------------------------------------------------------------------------
(* The way out: every with and every finally on the stack *)

\* Mutant of Unwind: the slot is given back at the end only, not in a finally.
UnwindKeepsSlot(x) ==
  /\ t' = [t EXCEPT ![x] = Idle]
  /\ cacheLock' = IF cacheLock = x THEN NoOne ELSE cacheLock
  /\ limit' = IF limit = x THEN NoOne ELSE limit
  /\ gate' = IF x = ResetJob THEN FALSE ELSE gate
  /\ joblock' = IF t[x].locked /\ ~t[x].lost
                THEN [joblock EXCEPT ![x] = "free"] ELSE joblock
  /\ UNCHANGED <<sem, fresh, otherRuns>>

\* The job's lock goes by pg_advisory_unlock, or with the connection, which is
\* dropped when the unlock fails.
Unwind(x) ==
  /\ t' = [t EXCEPT ![x] = Idle]
  /\ sem' = IF t[x].slot THEN sem + 1 ELSE sem
  /\ cacheLock' = IF cacheLock = x THEN NoOne ELSE cacheLock
  /\ limit' = IF limit = x THEN NoOne ELSE limit
  /\ gate' = IF x = ResetJob THEN FALSE ELSE gate
  /\ joblock' = IF t[x].locked /\ ~t[x].lost
                THEN [joblock EXCEPT ![x] = "free"] ELSE joblock
  /\ UNCHANGED <<fresh, otherRuns>>

\* An exception at any await.
Fails(x) == t[x].todo # <<>> /\ Unwind(x)

-----------------------------------------------------------------------------
(* What handlers wait for *)

CheckGate(x) ==
  /\ At(x, "gate?")
  /\ t' = [t EXCEPT ![x] = IF gate THEN Idle ELSE Next1(x)]
  /\ UNCHANGED <<sem, cacheLock, fresh, limit, gate, joblock, otherRuns>>

\* acquire_booking_slot
AcquireSlot(x) ==
  /\ At(x, "slot")
  /\ sem > 0
  /\ sem' = sem - 1
  /\ t' = [t EXCEPT ![x] = [Next1(x) EXCEPT !.slot = TRUE]]
  /\ UNCHANGED <<cacheLock, fresh, limit, gate, joblock, otherRuns>>

\* BusyError, before the try: there is nothing to give back.
Busy(x) ==
  /\ At(x, "slot")
  /\ sem = 0
  /\ t' = [t EXCEPT ![x] = Idle]
  /\ UNCHANGED <<sem, cacheLock, fresh, limit, gate, joblock, otherRuns>>

ReleaseSlot(x) ==
  /\ At(x, "unslot")
  /\ sem' = sem + 1
  /\ t' = [t EXCEPT ![x] = [Next1(x) EXCEPT !.slot = FALSE]]
  /\ UNCHANGED <<cacheLock, fresh, limit, gate, joblock, otherRuns>>

Wants(x) == At(x, "connect") \/ t[x].sub = "connect"

Connect(x) ==
  /\ Wants(x)
  /\ InUse < Pool
  /\ t' = [t EXCEPT ![x] =
             IF t[x].sub = "connect" THEN [t[x] EXCEPT !.conns = @ + 1, !.sub = "load"]
             ELSE [Next1(x) EXCEPT !.conns = @ + 1]]
  /\ UNCHANGED <<sem, cacheLock, fresh, limit, gate, joblock, otherRuns>>

\* DB_POOL_TIMEOUT
PoolTimeout(x) == Wants(x) /\ InUse >= Pool /\ Unwind(x)

\* COMMIT, or the end of the session: the locks of the transaction go with it.
CloseSession(x) ==
  /\ At(x, "close")
  /\ t' = [t EXCEPT ![x] = [Next1(x) EXCEPT !.conns = @ - 1]]
  /\ limit' = IF limit = x THEN NoOne ELSE limit
  /\ UNCHANGED <<sem, cacheLock, fresh, gate, joblock, otherRuns>>

LockLimit(x) ==
  /\ At(x, "limit")
  /\ limit = NoOne
  /\ limit' = x
  /\ t' = [t EXCEPT ![x] = Next1(x)]
  /\ UNCHANGED <<sem, cacheLock, fresh, gate, joblock, otherRuns>>

-----------------------------------------------------------------------------
(* get_many *)

ReadConfig(x) ==
  /\ At(x, "config")
  /\ t' = [t EXCEPT ![x] = IF fresh THEN Next1(x) ELSE [@ EXCEPT !.sub = "wait"]]
  /\ UNCHANGED <<sem, cacheLock, fresh, limit, gate, joblock, otherRuns>>

\* Mutant of EnterCache: the lock is not taken.
EnterUnlocked(x) ==
  /\ t[x].sub = "wait"
  /\ t' = [t EXCEPT ![x] = IF fresh THEN Next1(x) ELSE [@ EXCEPT !.sub = "connect"]]
  /\ UNCHANGED <<sem, cacheLock, fresh, limit, gate, joblock, otherRuns>>

EnterCache(x) ==
  /\ t[x].sub = "wait"
  /\ cacheLock = NoOne
  /\ t' = [t EXCEPT ![x] = IF fresh THEN Next1(x) ELSE [@ EXCEPT !.sub = "connect"]]
  /\ cacheLock' = IF fresh THEN NoOne ELSE x
  /\ UNCHANGED <<sem, fresh, limit, gate, joblock, otherRuns>>

LoadConfig(x) ==
  /\ t[x].sub = "load"
  /\ t' = [t EXCEPT ![x] = [Next1(x) EXCEPT !.conns = @ - 1]]
  /\ fresh' = TRUE
  /\ cacheLock' = IF cacheLock = x THEN NoOne ELSE cacheLock
  /\ UNCHANGED <<sem, limit, gate, joblock, otherRuns>>

\* The entry expires, or an update invalidates it.
Expire ==
  /\ fresh' = FALSE
  /\ UNCHANGED <<t, sem, cacheLock, limit, gate, joblock, otherRuns>>

-----------------------------------------------------------------------------
(* Jobs: _run_with_advisory_lock *)

\* Mutant of TryLock: the answer of pg_try_advisory_lock is not looked at.
TryLockBlind(x) ==
  /\ At(x, "trylock")
  /\ t' = [t EXCEPT ![x] = [Next1(x) EXCEPT !.locked = TRUE]]
  /\ joblock' = [joblock EXCEPT ![x] = "mine"]
  /\ UNCHANGED <<sem, cacheLock, fresh, limit, gate, otherRuns>>

TryLock(x) ==
  /\ At(x, "trylock")
  /\ IF joblock[x] = "free"
     THEN /\ t' = [t EXCEPT ![x] = [Next1(x) EXCEPT !.locked = TRUE]]
          /\ joblock' = [joblock EXCEPT ![x] = "mine"]
     ELSE /\ t' = [t EXCEPT ![x] = Idle]
          /\ UNCHANGED joblock
  /\ UNCHANGED <<sem, cacheLock, fresh, limit, gate, otherRuns>>

Unlock(x) == At(x, "unlock") /\ Unwind(x)

\* set_reset_in_progress
ShutGate(x) ==
  /\ At(x, "shut")
  /\ gate' = TRUE
  /\ t' = [t EXCEPT ![x] = Next1(x)]
  /\ UNCHANGED <<sem, cacheLock, fresh, limit, joblock, otherRuns>>

OpenGate(x) ==
  /\ At(x, "open")
  /\ gate' = FALSE
  /\ t' = [t EXCEPT ![x] = Next1(x)]
  /\ UNCHANGED <<sem, cacheLock, fresh, limit, joblock, otherRuns>>

\* The server ends the connection that waits while the job works, and the lock
\* that belongs to it.
LoseLock(x) ==
  /\ t[x].locked /\ ~t[x].lost
  /\ t' = [t EXCEPT ![x].lost = TRUE]
  /\ joblock' = [joblock EXCEPT ![x] = "free"]
  /\ UNCHANGED <<sem, cacheLock, fresh, limit, gate, otherRuns>>

\* Another instance, during a deployment.
OtherStarts(j) ==
  /\ joblock[j] = "free"
  /\ joblock' = [joblock EXCEPT ![j] = "other"]
  /\ otherRuns' = otherRuns \cup {j}
  /\ UNCHANGED <<t, sem, cacheLock, fresh, limit, gate>>

OtherEnds(j) ==
  /\ j \in otherRuns
  /\ joblock' = [joblock EXCEPT ![j] = "free"]
  /\ otherRuns' = otherRuns \ {j}
  /\ UNCHANGED <<t, sem, cacheLock, fresh, limit, gate>>

\* The process dies: PostgreSQL ends its sessions, the rest was in memory.
Crash ==
  /\ t' = [x \in Tasks |-> Idle]
  /\ sem' = Slots
  /\ cacheLock' = NoOne
  /\ fresh' = FALSE
  /\ limit' = NoOne
  /\ gate' = FALSE
  /\ joblock' = [j \in Jobs |-> IF joblock[j] = "mine" THEN "free" ELSE joblock[j]]
  /\ UNCHANGED otherRuns

-----------------------------------------------------------------------------
Init ==
  /\ t = [x \in Tasks |-> Idle]
  /\ sem = Slots
  /\ cacheLock = NoOne
  /\ fresh = FALSE
  /\ limit = NoOne
  /\ gate = FALSE
  /\ joblock = [j \in Jobs |-> "free"]
  /\ otherRuns = {}

Continue(x) ==
  \/ CheckGate(x) \/ AcquireSlot(x) \/ Busy(x) \/ ReleaseSlot(x)
  \/ Connect(x) \/ PoolTimeout(x) \/ CloseSession(x) \/ LockLimit(x)
  \/ ReadConfig(x) \/ EnterCache(x) \/ LoadConfig(x)
  \/ ShutGate(x) \/ OpenGate(x)
  \/ x \in Jobs /\ (TryLock(x) \/ Unlock(x))

Next ==
  \/ Crash \/ Expire
  \/ \E x \in Tasks : Start(x) \/ Continue(x) \/ Fails(x)
  \/ \E j \in Jobs : LoseLock(j) \/ OtherStarts(j) \/ OtherEnds(j)

Spec == Init /\ [][Next]_vars

-----------------------------------------------------------------------------
(* Properties *)

\* With a connection for every slot, two for every job and one for the cache,
\* no handler that holds a slot and no job finds the pool empty, as long as no
\* handler without a slot holds a connection.
PoolSuffices ==
  /\ Pool >= Slots + 2 * Cardinality(Jobs) + 1
  /\ \A y \in Requests : t[y].conns > 0 => t[y].slot
  => \A x \in Tasks : Wants(x) /\ (x \in Jobs \/ t[x].slot) => InUse < Pool

\* Whatever ends a handler or a job, it leaves nothing behind: no slot, no
\* connection, no lock, and no shut gate.
NothingLeaks ==
  /\ sem = Slots - Cardinality({x \in Tasks : t[x].slot})
  /\ \A x \in Tasks : t[x].todo = <<>> =>
       t[x].conns = 0 /\ ~t[x].slot /\ cacheLock # x /\ limit # x
  /\ \A j \in Jobs : joblock[j] = "mine" => t[j].todo # <<>>
  /\ gate => \E i \in DOMAIN t[ResetJob].todo : t[ResetJob].todo[i] = "open"

\* No two instances run a job at the same time, as long as the connection that
\* holds its lock lives.
JobExclusive == \A j \in Jobs : t[j].locked /\ ~t[j].lost => j \notin otherRuns
=============================================================================
