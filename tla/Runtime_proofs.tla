--------------------------- MODULE Runtime_proofs ---------------------------
(***************************************************************************)
(* For any number of members, jobs, slots and connections: two instances   *)
(* of the program never run a job at once while the connection that holds  *)
(* its lock lives; whatever ends a handler or a job, it leaves nothing     *)
(* behind; and a pool of the size the settings give is never exhausted     *)
(* for a handler that holds a slot, or for a job.                          *)
(*                                                                         *)
(* A plan is a script with what a handler holds at each of its places. The *)
(* invariant says that every handler is at a place of one of its plans.    *)
(***************************************************************************)
EXTENDS Runtime, Integers, FiniteSetTheorems, SequenceTheorems, TLAPS

Ops == {"gate?", "slot", "connect", "config", "limit", "close", "unslot",
        "trylock", "shut", "open", "unlock"}

Handler == [todo : Seq(Ops), conns : Int, sub : {"run", "wait", "connect", "load"},
            slot : BOOLEAN, locked : BOOLEAN, lost : BOOLEAN]

Typed ==
  /\ t \in [Tasks -> Handler]
  /\ joblock \in [Jobs -> {"free", "mine", "other"}]
  /\ otherRuns \subseteq Jobs

\* The database agrees with each of the two instances about who has the lock.
LockIsMine  == \A j \in Jobs : t[j].locked /\ ~t[j].lost => joblock[j] = "mine"
LockIsOther == \A j \in otherRuns : joblock[j] = "other"

\* A handler that is in get_many has not come to its end.
InConfig == \A x \in Tasks : t[x].sub # "run" => t[x].todo # <<>>

IInv == Typed /\ InConfig /\ LockIsMine /\ LockIsOther

-----------------------------------------------------------------------------
(* Steps *)

\* A handler at rest.
LEMMA IdleHandler == Idle \in Handler /\ ~Idle.locked /\ Idle.sub = "run"
BY DEF Idle, Handler

\* Every script is made of the operations.
LEMMA ScriptsTyped == \A x \in Tasks : Scripts(x) \subseteq Seq(Ops)
<1>1. /\ start_booking \in Seq(Ops) /\ handle_flash_book \in Seq(Ops)
      /\ weekly_reset_job \in Seq(Ops) /\ geo_job \in Seq(Ops)
  BY DEF start_booking, handle_flash_book, weekly_reset_job, geo_job, Ops
<1>2. handle_pick_hour \subseteq Seq(Ops)
  BY DEF handle_pick_hour, Ops
<1> QED BY <1>1, <1>2 DEF Scripts, Tasks, Jobs

\* A step of one handler that has nothing to do with the lock of its job.
LEMMA HandlerStep ==
  ASSUME IInv, NEW x \in Tasks, NEW h \in Handler,
         h.locked = t[x].locked \/ ~h.locked, h.lost = t[x].lost \/ ~h.locked,
         h.sub # "run" => h.todo # <<>>,
         t' = [t EXCEPT ![x] = h], joblock' = joblock, otherRuns' = otherRuns
  PROVE  IInv'
<1>1. \A y \in Tasks : IF y = x THEN t'[y] = h ELSE t'[y] = t[y]
  BY DEF IInv, Typed
<1>2. Typed' /\ LockIsOther'
  BY DEF IInv, Typed, LockIsOther
<1>3. LockIsMine' /\ InConfig'
  BY <1>1 DEF IInv, LockIsMine, InConfig, Tasks
<1> QED BY <1>2, <1>3 DEF IInv

\* The next operation, with any of the handler's other fields changed.
LEMMA NextOp ==
  ASSUME IInv, NEW x \in Tasks, t[x].todo # <<>>
  PROVE  /\ Next1(x) \in Handler
         /\ Next1(x).locked = t[x].locked /\ Next1(x).lost = t[x].lost
         /\ Next1(x).conns \in Int /\ Next1(x).sub = "run"
<1>1. t[x] \in Handler
  BY DEF IInv, Typed
<1>2. Tail(t[x].todo) \in Seq(Ops)
  BY <1>1 DEF Handler
<1> QED BY <1>1, <1>2 DEF Next1, Handler

\* Changes of a handler that have nothing to do with the lock of its job.
Same(h, n) == h.locked = n.locked /\ h.lost = n.lost /\ h.todo = n.todo

\* Fields of a handler changed one by one.
LEMMA Changed ==
  ASSUME NEW n \in Handler
  PROVE  /\ \A b \in BOOLEAN :
              /\ [n EXCEPT !.slot = b] \in Handler
              /\ Same([n EXCEPT !.slot = b], n)
              /\ [n EXCEPT !.slot = b].sub = n.sub
         /\ \A c \in Int :
              /\ [n EXCEPT !.conns = c] \in Handler
              /\ Same([n EXCEPT !.conns = c], n)
              /\ [n EXCEPT !.conns = c].sub = n.sub
         /\ \A c \in Int :
              /\ [n EXCEPT !.conns = c, !.sub = "load"] \in Handler
              /\ Same([n EXCEPT !.conns = c, !.sub = "load"], n)
         /\ n.conns + 1 \in Int /\ n.conns - 1 \in Int
<1>1. \A b \in BOOLEAN :
        /\ [n EXCEPT !.slot = b] \in Handler
        /\ Same([n EXCEPT !.slot = b], n)
        /\ [n EXCEPT !.slot = b].sub = n.sub
  BY DEF Handler, Same
<1>2. \A c \in Int :
        /\ [n EXCEPT !.conns = c] \in Handler
        /\ Same([n EXCEPT !.conns = c], n)
        /\ [n EXCEPT !.conns = c].sub = n.sub
  BY DEF Handler, Same
<1>3. \A c \in Int :
        /\ [n EXCEPT !.conns = c, !.sub = "load"] \in Handler
        /\ Same([n EXCEPT !.conns = c, !.sub = "load"], n)
  BY DEF Handler, Same
<1>4. n.conns + 1 \in Int /\ n.conns - 1 \in Int
  <2>1. n.conns \in Int
    BY DEF Handler
  <2> QED BY <2>1
<1> QED BY <1>1, <1>2, <1>3, <1>4

\* The way out gives the lock back only if it is this instance's.
LEMMA UnwindKeeps ==
  ASSUME IInv, NEW x \in Tasks, Unwind(x)
  PROVE  IInv'
<1>1. /\ t' = [t EXCEPT ![x] = Idle] /\ otherRuns' = otherRuns
      /\ joblock' = IF t[x].locked /\ ~t[x].lost
                    THEN [joblock EXCEPT ![x] = "free"] ELSE joblock
  BY DEF Unwind
<1>2. \A y \in Tasks : IF y = x THEN t'[y] = Idle ELSE t'[y] = t[y]
  BY <1>1 DEF IInv, Typed
<1>3. /\ joblock' \in [Jobs -> {"free", "mine", "other"}]
      /\ \A j \in Jobs : j # x => joblock'[j] = joblock[j]
  BY <1>1 DEF IInv, Typed
<1>4. Typed'
  BY <1>1, <1>3, IdleHandler DEF IInv, Typed
<1>5. LockIsMine' /\ InConfig'
  BY <1>2, <1>3, IdleHandler DEF IInv, LockIsMine, InConfig, Tasks
<1>6. LockIsOther'
  <2> SUFFICES ASSUME NEW j \in otherRuns PROVE joblock'[j] = "other"
    BY <1>1 DEF LockIsOther
  <2>1. j \in Jobs /\ joblock[j] = "other"
    BY DEF IInv, Typed, LockIsOther
  <2>2. CASE j # x
    BY <1>3, <2>1, <2>2
  <2>3. CASE j = x
    BY <1>1, <2>1, <2>3 DEF IInv, LockIsMine
  <2> QED BY <2>2, <2>3
<1> QED BY <1>4, <1>5, <1>6 DEF IInv

\* Slots, the gate and the locks of members have nothing to do with the locks of jobs.
LEMMA WaitsKeep ==
  ASSUME IInv, NEW x \in Tasks,
         \/ CheckGate(x) \/ AcquireSlot(x) \/ Busy(x) \/ ReleaseSlot(x)
         \/ CloseSession(x) \/ LockLimit(x) \/ ShutGate(x) \/ OpenGate(x)
  PROVE  IInv'
<1>1. joblock' = joblock /\ otherRuns' = otherRuns /\ t[x].todo # <<>>
  BY DEF CheckGate, AcquireSlot, Busy, ReleaseSlot, CloseSession, LockLimit, ShutGate,
         OpenGate, At, Op
<1> DEFINE n == Next1(x)
<1>2. n \in Handler /\ n.locked = t[x].locked /\ n.lost = t[x].lost /\ n.conns \in Int
      /\ n.sub = "run"
  BY <1>1, NextOp
<1>3. PICK h \in {n, Idle, [n EXCEPT !.slot = TRUE], [n EXCEPT !.slot = FALSE],
                  [n EXCEPT !.conns = @ - 1]} : t' = [t EXCEPT ![x] = h]
  BY DEF CheckGate, AcquireSlot, Busy, ReleaseSlot, CloseSession, LockLimit, ShutGate,
         OpenGate
<1> HIDE DEF n
<1>4. h \in Handler /\ h.sub = "run" /\ (h = Idle \/ (h.locked = t[x].locked /\ h.lost = t[x].lost))
  <2>1. CASE h = n
    BY <1>2, <2>1
  <2>2. CASE h = Idle
    BY <2>2, IdleHandler
  <2>3. CASE \E b \in BOOLEAN : h = [n EXCEPT !.slot = b]
    <3>1. PICK b \in BOOLEAN : h = [n EXCEPT !.slot = b]
      BY <2>3
    <3> DEFINE g == [n EXCEPT !.slot = b]
    <3>2. g \in Handler /\ Same(g, n) /\ g.sub = n.sub
      BY <1>2, Changed
    <3>3. h = g
      BY <3>1
    <3> HIDE DEF g
    <3> QED BY <1>2, <3>2, <3>3 DEF Same
  <2>4. CASE \E c \in Int : h = [n EXCEPT !.conns = c]
    <3>1. PICK c \in Int : h = [n EXCEPT !.conns = c]
      BY <2>4
    <3> DEFINE g == [n EXCEPT !.conns = c]
    <3>2. g \in Handler /\ Same(g, n) /\ g.sub = n.sub
      BY <1>2, Changed
    <3>3. h = g
      BY <3>1
    <3> HIDE DEF g
    <3> QED BY <1>2, <3>2, <3>3 DEF Same
  <2>5. n.conns - 1 \in Int
    BY <1>2, Changed
  <2>6. \/ h = n \/ h = Idle \/ \E b \in BOOLEAN : h = [n EXCEPT !.slot = b]
        \/ h = [n EXCEPT !.conns = n.conns - 1]
    OBVIOUS
  <2> QED BY <2>1, <2>2, <2>3, <2>4, <2>5, <2>6
<1> QED BY <1>1, <1>3, <1>4, HandlerStep, IdleHandler

\* Nor have connections.
LEMMA ConnectKeeps ==
  ASSUME IInv, NEW x \in Tasks, Connect(x)
  PROVE  IInv'
<1>1. joblock' = joblock /\ otherRuns' = otherRuns
  BY DEF Connect
<1>2. t[x] \in Handler
  BY DEF IInv, Typed
<1>3. CASE t[x].sub = "connect"
  <2> DEFINE h == [t[x] EXCEPT !.conns = @ + 1, !.sub = "load"]
  <2>1. t' = [t EXCEPT ![x] = h]
    BY <1>3 DEF Connect
  <2>2. h \in Handler /\ h.locked = t[x].locked /\ h.lost = t[x].lost /\ h.todo # <<>>
    <3>1. h = [t[x] EXCEPT !.conns = t[x].conns + 1, !.sub = "load"]
      OBVIOUS
    <3>2. t[x].todo # <<>>
      BY <1>3 DEF IInv, InConfig
    <3>3. t[x].conns + 1 \in Int
      BY <1>2, Changed
    <3> HIDE DEF h
    <3> QED BY <1>2, <3>1, <3>2, <3>3, Changed DEF Same
  <2> HIDE DEF h
  <2> QED BY <1>1, <2>1, <2>2, HandlerStep
<1>4. CASE t[x].sub # "connect"
  <2> DEFINE n == Next1(x)
             h == [n EXCEPT !.conns = @ + 1]
  <2>1. t' = [t EXCEPT ![x] = h] /\ t[x].todo # <<>>
    BY <1>4 DEF Connect, Wants, At, Op
  <2>2. n \in Handler /\ n.locked = t[x].locked /\ n.lost = t[x].lost /\ n.sub = "run"
    BY <2>1, NextOp
  <2> HIDE DEF n
  <2>3. h \in Handler /\ h.locked = t[x].locked /\ h.lost = t[x].lost /\ h.sub = "run"
    <3>1. h = [n EXCEPT !.conns = n.conns + 1]
      OBVIOUS
    <3>2. n.conns + 1 \in Int
      BY <2>2, Changed
    <3> HIDE DEF h
    <3> QED BY <2>2, <3>1, <3>2, Changed DEF Same
  <2> HIDE DEF h
  <2> QED BY <1>1, <2>1, <2>3, HandlerStep
<1> QED BY <1>3, <1>4

\* A handler starts without the lock of its job.
LEMMA StartKeeps ==
  ASSUME IInv, NEW x \in Tasks, Start(x)
  PROVE  IInv'
<1>1. /\ t[x].todo = <<>> /\ joblock' = joblock /\ otherRuns' = otherRuns
      /\ \E s \in Scripts(x) : t' = [t EXCEPT ![x].todo = s]
  BY DEF Start
<1>2. PICK s \in Seq(Ops) : t' = [t EXCEPT ![x] = [t[x] EXCEPT !.todo = s]]
  BY <1>1, ScriptsTyped
<1> DEFINE h == [t[x] EXCEPT !.todo = s]
<1>3. t[x] \in Handler /\ t[x].sub = "run"
  BY <1>1 DEF IInv, Typed, InConfig
<1>4. h \in Handler /\ h.locked = t[x].locked /\ h.lost = t[x].lost /\ h.sub = "run"
  BY <1>3 DEF Handler
<1> HIDE DEF h
<1>5. t' = [t EXCEPT ![x] = h]
  BY <1>2 DEF h
<1> QED BY <1>1, <1>4, <1>5, HandlerStep

\* Reading the settings leaves the locks of jobs alone.
LEMMA ConfigKeeps ==
  ASSUME IInv, NEW x \in Tasks, ReadConfig(x) \/ EnterCache(x) \/ LoadConfig(x)
  PROVE  IInv'
<1>1. /\ joblock' = joblock /\ otherRuns' = otherRuns
      /\ t[x] \in Handler /\ t[x].todo # <<>>
  BY DEF ReadConfig, EnterCache, LoadConfig, At, Op, IInv, Typed, InConfig
<1> DEFINE n == Next1(x)
           w == [t[x] EXCEPT !.sub = "wait"]
           c == [t[x] EXCEPT !.sub = "connect"]
           l == [n EXCEPT !.conns = @ - 1]
<1>2. n \in Handler /\ n.locked = t[x].locked /\ n.lost = t[x].lost /\ n.sub = "run"
  BY <1>1, NextOp
<1>3. PICK h \in {n, w, c, l} : t' = [t EXCEPT ![x] = h]
  BY DEF ReadConfig, EnterCache, LoadConfig
<1> HIDE DEF n
<1>4. h \in Handler /\ h.locked = t[x].locked /\ h.lost = t[x].lost
      /\ (h.sub # "run" => h.todo # <<>>)
  <2>1. w \in Handler /\ w.locked = t[x].locked /\ w.lost = t[x].lost /\ w.todo # <<>>
    BY <1>1 DEF Handler
  <2>2. c \in Handler /\ c.locked = t[x].locked /\ c.lost = t[x].lost /\ c.todo # <<>>
    BY <1>1 DEF Handler
  <2>3. l \in Handler /\ l.locked = t[x].locked /\ l.lost = t[x].lost /\ l.sub = "run"
    BY <1>2 DEF Handler
  <2> HIDE DEF w, c, l
  <2> QED BY <1>2, <2>1, <2>2, <2>3
<1> QED BY <1>1, <1>3, <1>4, HandlerStep

\* A job takes its lock only if nobody has it.
LEMMA TryLockKeeps ==
  ASSUME IInv, NEW x \in Jobs, TryLock(x)
  PROVE  IInv'
<1>1. x \in Tasks /\ t[x].todo # <<>> /\ otherRuns' = otherRuns
  BY DEF TryLock, At, Op, Tasks
<1>2. CASE joblock[x] = "free"
  <2> DEFINE n == Next1(x)
             h == [n EXCEPT !.locked = TRUE]
  <2>1. t' = [t EXCEPT ![x] = h] /\ joblock' = [joblock EXCEPT ![x] = "mine"]
    BY <1>2 DEF TryLock
  <2>2. n \in Handler /\ n.sub = "run"
    BY <1>1, NextOp
  <2> HIDE DEF n
  <2>3. h \in Handler /\ h.sub = "run"
    BY <2>2 DEF Handler
  <2> HIDE DEF h
  <2>4. /\ \A y \in Tasks : IF y = x THEN t'[y] = h ELSE t'[y] = t[y]
        /\ \A j \in Jobs : IF j = x THEN joblock'[j] = "mine" ELSE joblock'[j] = joblock[j]
    BY <2>1 DEF IInv, Typed
  <2>5. Typed'
    BY <1>1, <2>1, <2>3 DEF IInv, Typed
  <2>6. InConfig' /\ LockIsMine'
    BY <2>3, <2>4 DEF IInv, InConfig, LockIsMine, Tasks
  <2>7. LockIsOther'
    BY <1>1, <1>2, <2>4 DEF IInv, Typed, LockIsOther
  <2> QED BY <2>5, <2>6, <2>7 DEF IInv
<1>3. CASE joblock[x] # "free"
  BY <1>1, <1>3, IdleHandler, HandlerStep DEF TryLock
<1> QED BY <1>2, <1>3

\* A lock that is lost is free.
LEMMA LoseLockKeeps ==
  ASSUME IInv, NEW x \in Jobs, LoseLock(x)
  PROVE  IInv'
<1> DEFINE h == [t[x] EXCEPT !.lost = TRUE]
<1>1. /\ x \in Tasks /\ t[x] \in Handler /\ t[x].locked /\ ~t[x].lost
      /\ t' = [t EXCEPT ![x] = h] /\ joblock' = [joblock EXCEPT ![x] = "free"]
      /\ otherRuns' = otherRuns
  BY DEF LoseLock, IInv, Typed, Tasks
<1>2. h \in Handler /\ h.lost /\ h.sub = t[x].sub /\ h.todo = t[x].todo
  BY <1>1 DEF Handler
<1> HIDE DEF h
<1>3. /\ \A y \in Tasks : IF y = x THEN t'[y] = h ELSE t'[y] = t[y]
      /\ \A j \in Jobs : IF j = x THEN joblock'[j] = "free" ELSE joblock'[j] = joblock[j]
  BY <1>1 DEF IInv, Typed
<1>4. Typed'
  BY <1>1, <1>2 DEF IInv, Typed
<1>5. InConfig' /\ LockIsMine'
  BY <1>2, <1>3 DEF IInv, InConfig, LockIsMine, Tasks
<1>6. LockIsOther'
  BY <1>1, <1>3 DEF IInv, Typed, LockIsOther, LockIsMine
<1> QED BY <1>4, <1>5, <1>6 DEF IInv

\* The other instance takes and frees locks that are not ours.
LEMMA OtherKeeps ==
  ASSUME IInv, NEW j \in Jobs, OtherStarts(j) \/ OtherEnds(j)
  PROVE  IInv'
<1>1. t' = t
  BY DEF OtherStarts, OtherEnds
<1>2. CASE OtherStarts(j)
  BY <1>1, <1>2 DEF OtherStarts, IInv, Typed, InConfig, LockIsMine, LockIsOther
<1>3. CASE OtherEnds(j)
  BY <1>1, <1>3 DEF OtherEnds, IInv, Typed, InConfig, LockIsMine, LockIsOther
<1> QED BY <1>2, <1>3

\* A crash frees the locks of this instance and no other.
LEMMA CrashKeeps ==
  ASSUME IInv, Crash
  PROVE  IInv'
<1>1. /\ \A x \in Tasks : t'[x] = Idle
      /\ t' = [x \in Tasks |-> Idle]
      /\ joblock' = [j \in Jobs |-> IF joblock[j] = "mine" THEN "free" ELSE joblock[j]]
      /\ otherRuns' = otherRuns
  BY DEF Crash
<1>2. Typed'
  BY <1>1, IdleHandler DEF IInv, Typed
<1>3. InConfig' /\ LockIsMine'
  BY <1>1, IdleHandler DEF InConfig, LockIsMine, Tasks
<1>4. LockIsOther'
  BY <1>1 DEF IInv, Typed, LockIsOther
<1> QED BY <1>2, <1>3, <1>4 DEF IInv

-----------------------------------------------------------------------------
(* The theorem *)

\* The start of the program.
LEMMA First == Init => IInv
<1> SUFFICES ASSUME Init PROVE IInv
  OBVIOUS
<1>1. \A x \in Tasks : t[x] = Idle
  BY DEF Init
<1> QED BY <1>1, IdleHandler DEF Init, IInv, Typed, InConfig, LockIsMine, LockIsOther, Tasks

\* Every step keeps the locks of the jobs as they should be.
LEMMA Step == IInv /\ [Next]_vars => IInv'
<1> SUFFICES ASSUME IInv, [Next]_vars PROVE IInv'
  OBVIOUS
<1>1. CASE Crash
  BY <1>1, CrashKeeps
<1>2. CASE Expire
  BY <1>2 DEF Expire, IInv, Typed, InConfig, LockIsMine, LockIsOther
<1>3. ASSUME NEW x \in Tasks, Start(x) \/ Continue(x) \/ Fails(x)
      PROVE  IInv'
  <2>1. CASE Start(x)
    BY <2>1, StartKeeps
  <2>2. CASE Fails(x) \/ PoolTimeout(x) \/ Unlock(x)
    BY <2>2, UnwindKeeps DEF Fails, PoolTimeout, Unlock
  <2>3. CASE CheckGate(x) \/ AcquireSlot(x) \/ Busy(x) \/ ReleaseSlot(x)
             \/ CloseSession(x) \/ LockLimit(x) \/ ShutGate(x) \/ OpenGate(x)
    BY <2>3, WaitsKeep
  <2>4. CASE Connect(x)
    BY <2>4, ConnectKeeps
  <2>5. CASE ReadConfig(x) \/ EnterCache(x) \/ LoadConfig(x)
    BY <2>5, ConfigKeeps
  <2>6. CASE x \in Jobs /\ TryLock(x)
    BY <2>6, TryLockKeeps
  <2> QED BY <1>3, <2>1, <2>2, <2>3, <2>4, <2>5, <2>6 DEF Continue
<1>4. ASSUME NEW j \in Jobs, LoseLock(j) \/ OtherStarts(j) \/ OtherEnds(j)
      PROVE  IInv'
  BY <1>4, LoseLockKeeps, OtherKeeps
<1>5. CASE UNCHANGED vars
  BY <1>5 DEF vars, IInv, Typed, InConfig, LockIsMine, LockIsOther
<1> QED BY <1>1, <1>2, <1>3, <1>4, <1>5 DEF Next

\* Two instances never run one job at the same time, as long as the connection
\* lives that holds its lock.
THEOREM OneInstance == Spec => []JobExclusive
<1>1. IInv => JobExclusive
  BY DEF IInv, Typed, LockIsMine, LockIsOther, JobExclusive
<1> QED BY <1>1, First, Step, PTL DEF Spec

-----------------------------------------------------------------------------
(* What a handler holds at each place of its script *)

\* A script with, for each of its places and its end, the connections a handler
\* holds there; and the places at which it holds a slot, and keeps the gate shut.
Plan(ops, conns, slot, gates) ==
  [ops |-> ops, conns |-> conns, slot |-> slot, gates |-> gates]

StartPlan  == Plan(start_booking, <<0, 0, 0, 1, 1, 0, 0>>, 3..6, {})
BookPlan   == Plan(<<"slot", "connect", "config", "limit", "close", "connect", "config", "close",
                     "unslot">>, <<0, 0, 1, 1, 1, 0, 1, 1, 0, 0>>, 2..9, {})
FullPlan   == Plan(<<"slot", "connect", "config", "limit", "config", "close", "unslot">>,
                   <<0, 0, 1, 1, 1, 1, 0, 0>>, 2..7, {})
FlashPlan  == Plan(handle_flash_book, <<0, 1, 1, 1, 0>>, {}, {})
ResetPlan  == Plan(weekly_reset_job, <<0, 1, 1, 1, 2, 1, 1, 1, 0>>, {}, 4..6)
GeoPlan    == Plan(geo_job, <<0, 1, 1, 1, 2, 2, 1, 0>>, {}, {})

RequestPlans == {StartPlan, BookPlan, FullPlan, FlashPlan}
Plans(x) ==
  CASE x \in Requests  -> RequestPlans
    [] x = ResetJob    -> {ResetPlan}
    [] x \in OtherJobs -> {GeoPlan}

\* Handler x is at place k of plan p.
Fits(x, p, k) ==
  /\ t[x].todo = SubSeq(p.ops, k, Len(p.ops))
  /\ t[x].slot <=> k \in p.slot
  /\ t[x].conns = p.conns[k] + (IF t[x].sub = "load" THEN 1 ELSE 0)
  /\ limit = x => p.conns[k] > 0
  /\ t[x].sub # "run" => k \in DOMAIN p.ops /\ p.ops[k] = "config"
  /\ x = ResetJob /\ gate => k \in p.gates
  /\ t[x].locked \/ t[x].lost => x \in Jobs /\ k \in 3..Len(p.ops)

OnPlan == \A x \in Tasks : \E p \in Plans(x) : \E k \in 1..(Len(p.ops) + 1) : Fits(x, p, k)

Holders   == {x \in Tasks : t[x].slot}
SlotsHeld == sem \in Nat /\ sem = Slots - Cardinality(Holders)

\* The cache is locked by whoever loads it, and its job's lock by a job at work.
CacheHeld == \A x \in Tasks : cacheLock = x <=> t[x].sub \in {"connect", "load"}
MineHeld  == \A j \in Jobs : joblock[j] = "mine" =>
               t[j].locked /\ ~t[j].lost /\ t[j].todo # <<>>

Basics   == fresh \in BOOLEAN /\ gate \in BOOLEAN /\ cacheLock \in Tasks \cup {NoOne}
            /\ limit \in Requests \cup {NoOne}

HoldInv == OnPlan /\ SlotsHeld /\ CacheHeld /\ MineHeld /\ Basics

\* What an operation does to what is held, from place k of a script to the next.
Held(p, k) ==
  LET op == p.ops[k] IN
  /\ op = "connect" => p.conns[k + 1] = p.conns[k] + 1
  /\ op = "close" => p.conns[k] = p.conns[k + 1] + 1
  /\ op \notin {"connect", "close", "unlock"} => p.conns[k + 1] = p.conns[k]
  /\ op \in {"config", "limit"} => p.conns[k] > 0
  /\ op \in {"gate?", "slot"} => p.conns[k] = 0
  /\ op \in {"gate?", "slot", "trylock"} => k \notin p.slot /\ k \notin p.gates /\ k <= 2
  /\ op = "trylock" => k = 2
  /\ op = "slot" => k + 1 \in p.slot
  /\ op = "unslot" => k \in p.slot /\ k + 1 \notin p.slot
  /\ op \notin {"slot", "unslot"} => (k \in p.slot <=> k + 1 \in p.slot)
  /\ op = "shut" => k + 1 \in p.gates
  /\ op \notin {"open", "unlock"} /\ k \in p.gates => k + 1 \in p.gates
  /\ k \in p.gates => \E m \in k..Len(p.ops) : p.ops[m] = "open"

\* Every script begins and ends with nothing.
WellPlanned(p) ==
  /\ p.ops \in Seq(Ops)
  /\ \A k \in 1..(Len(p.ops) + 1) : p.conns[k] \in 0..2
  /\ \A k \in {1, Len(p.ops) + 1} : p.conns[k] = 0 /\ k \notin p.slot /\ k \notin p.gates
  /\ \A k \in 1..Len(p.ops) : Held(p, k)

\* What only members' handlers, only jobs and only the reset do.
OwnKind(x, p) ==
  \A k \in 1..Len(p.ops) :
    /\ p.ops[k] = "limit" => x \in Requests
    /\ p.ops[k] \in {"shut", "open"} => x = ResetJob
    /\ p.ops[k] = "trylock" => x \in Jobs
    /\ x \in Requests => p.conns[k] <= 1
    /\ x \in Jobs => (k = Len(p.ops) <=> p.ops[k] = "unlock")

\* The places of start_booking.
LEMMA StartPlanWell == WellPlanned(StartPlan) /\ \A x \in Requests : OwnKind(x, StartPlan)
<1>1. /\ StartPlan.ops = start_booking
      /\ Len(StartPlan.ops) = 6
      /\ StartPlan.conns = <<0, 0, 0, 1, 1, 0, 0>>
      /\ StartPlan.slot = 3..6 /\ StartPlan.gates = {}
  BY DEF StartPlan, Plan, start_booking
<1>2. StartPlan.ops \in Seq(Ops)
  BY <1>1 DEF Ops, start_booking
<1>3. \A k \in 1..6 : Held(StartPlan, k)
  BY <1>1 DEF Held, start_booking
<1>4. \A k \in 1..7 : StartPlan.conns[k] \in 0..2
  BY <1>1
<1>5. \A x \in Requests : OwnKind(x, StartPlan)
  BY <1>1, RuntimeAssumption DEF OwnKind, Jobs, start_booking
<1> QED BY <1>1, <1>2, <1>3, <1>4, <1>5 DEF WellPlanned

\* The places of handle_pick_hour.
LEMMA BookPlanWell == WellPlanned(BookPlan) /\ \A x \in Requests : OwnKind(x, BookPlan)
<1>1. /\ BookPlan.ops = <<"slot", "connect", "config", "limit", "close", "connect", "config", "close",
                          "unslot">>
      /\ Len(BookPlan.ops) = 9
      /\ BookPlan.conns = <<0, 0, 1, 1, 1, 0, 1, 1, 0, 0>>
      /\ BookPlan.slot = 2..9 /\ BookPlan.gates = {}
  BY DEF BookPlan, Plan
<1>2. BookPlan.ops \in Seq(Ops)
  BY <1>1 DEF Ops
<1>3. \A k \in 1..9 : Held(BookPlan, k)
  BY <1>1 DEF Held
<1>4. \A k \in 1..10 : BookPlan.conns[k] \in 0..2
  BY <1>1
<1>5. \A x \in Requests : OwnKind(x, BookPlan)
  BY <1>1, RuntimeAssumption DEF OwnKind, Jobs
<1> QED BY <1>1, <1>2, <1>3, <1>4, <1>5 DEF WellPlanned

\* The places of handle_pick_hour, at the limit.
LEMMA FullPlanWell == WellPlanned(FullPlan) /\ \A x \in Requests : OwnKind(x, FullPlan)
<1>1. /\ FullPlan.ops = <<"slot", "connect", "config", "limit", "config", "close", "unslot">>
      /\ Len(FullPlan.ops) = 7
      /\ FullPlan.conns = <<0, 0, 1, 1, 1, 1, 0, 0>>
      /\ FullPlan.slot = 2..7 /\ FullPlan.gates = {}
  BY DEF FullPlan, Plan
<1>2. FullPlan.ops \in Seq(Ops)
  BY <1>1 DEF Ops
<1>3. \A k \in 1..7 : Held(FullPlan, k)
  BY <1>1 DEF Held
<1>4. \A k \in 1..8 : FullPlan.conns[k] \in 0..2
  BY <1>1
<1>5. \A x \in Requests : OwnKind(x, FullPlan)
  BY <1>1, RuntimeAssumption DEF OwnKind, Jobs
<1> QED BY <1>1, <1>2, <1>3, <1>4, <1>5 DEF WellPlanned

\* The places of handle_flash_book.
LEMMA FlashPlanWell == WellPlanned(FlashPlan) /\ \A x \in Requests : OwnKind(x, FlashPlan)
<1>1. /\ FlashPlan.ops = handle_flash_book
      /\ Len(FlashPlan.ops) = 4
      /\ FlashPlan.conns = <<0, 1, 1, 1, 0>>
      /\ FlashPlan.slot = {} /\ FlashPlan.gates = {}
  BY DEF FlashPlan, Plan, handle_flash_book
<1>2. FlashPlan.ops \in Seq(Ops)
  BY <1>1 DEF Ops, handle_flash_book
<1>3. \A k \in 1..4 : Held(FlashPlan, k)
  BY <1>1 DEF Held, handle_flash_book
<1>4. \A k \in 1..5 : FlashPlan.conns[k] \in 0..2
  BY <1>1
<1>5. \A x \in Requests : OwnKind(x, FlashPlan)
  BY <1>1, RuntimeAssumption DEF OwnKind, Jobs, handle_flash_book
<1> QED BY <1>1, <1>2, <1>3, <1>4, <1>5 DEF WellPlanned

\* The places of weekly_reset_job.
LEMMA ResetPlanWell == WellPlanned(ResetPlan) /\ OwnKind(ResetJob, ResetPlan)
<1>1. /\ ResetPlan.ops = weekly_reset_job
      /\ Len(ResetPlan.ops) = 8
      /\ ResetPlan.conns = <<0, 1, 1, 1, 2, 1, 1, 1, 0>>
      /\ ResetPlan.slot = {} /\ ResetPlan.gates = 4..6
  BY DEF ResetPlan, Plan, weekly_reset_job
<1>2. ResetPlan.ops \in Seq(Ops)
  BY <1>1 DEF Ops, weekly_reset_job
<1>3. \A k \in 1..8 : Held(ResetPlan, k)
  BY <1>1 DEF Held, weekly_reset_job
<1>4. \A k \in 1..9 : ResetPlan.conns[k] \in 0..2
  BY <1>1
<1>5. OwnKind(ResetJob, ResetPlan)
  BY <1>1, RuntimeAssumption DEF OwnKind, Jobs, weekly_reset_job
<1> QED BY <1>1, <1>2, <1>3, <1>4, <1>5 DEF WellPlanned

\* The places of geo_job.
LEMMA GeoPlanWell == WellPlanned(GeoPlan) /\ \A x \in OtherJobs : OwnKind(x, GeoPlan)
<1>1. /\ GeoPlan.ops = geo_job
      /\ Len(GeoPlan.ops) = 7
      /\ GeoPlan.conns = <<0, 1, 1, 1, 2, 2, 1, 0>>
      /\ GeoPlan.slot = {} /\ GeoPlan.gates = {}
  BY DEF GeoPlan, Plan, geo_job
<1>2. GeoPlan.ops \in Seq(Ops)
  BY <1>1 DEF Ops, geo_job
<1>3. \A k \in 1..7 : Held(GeoPlan, k)
  BY <1>1 DEF Held, geo_job
<1>4. \A k \in 1..8 : GeoPlan.conns[k] \in 0..2
  BY <1>1
<1>5. \A x \in OtherJobs : OwnKind(x, GeoPlan)
  BY <1>1, RuntimeAssumption DEF OwnKind, Jobs, geo_job
<1> QED BY <1>1, <1>2, <1>3, <1>4, <1>5 DEF WellPlanned

\* Every handler has a plan for every script, and its plans are as they should be.
LEMMA Planned ==
  ASSUME NEW x \in Tasks
  PROVE  /\ \A p \in Plans(x) : WellPlanned(p) /\ OwnKind(x, p)
         /\ \A s \in Scripts(x) : \E p \in Plans(x) : p.ops = s
<1>1. CASE x \in Requests
  <2>1. Plans(x) = RequestPlans
        /\ Scripts(x) = handle_pick_hour \cup {start_booking, handle_flash_book}
    BY <1>1, RuntimeAssumption DEF Plans, Scripts, Jobs
  <2>2. \A p \in RequestPlans : WellPlanned(p) /\ OwnKind(x, p)
    BY <1>1, StartPlanWell, BookPlanWell, FullPlanWell, FlashPlanWell DEF RequestPlans
  <2>3. \A s \in Scripts(x) : \E p \in {StartPlan, BookPlan, FullPlan, FlashPlan} : p.ops = s
    <3>1. StartPlan.ops = start_booking /\ FlashPlan.ops = handle_flash_book
      BY DEF StartPlan, FlashPlan, Plan
    <3>2. handle_pick_hour = {BookPlan.ops, FullPlan.ops}
      BY DEF BookPlan, FullPlan, Plan, handle_pick_hour
    <3> QED BY <2>1, <3>1, <3>2
  <2> QED BY <2>1, <2>2, <2>3 DEF RequestPlans
<1>2. CASE x = ResetJob
  <2>1. Plans(x) = {ResetPlan} /\ Scripts(x) = {weekly_reset_job}
    BY <1>2, RuntimeAssumption DEF Plans, Scripts, Jobs
  <2>2. ResetPlan.ops = weekly_reset_job
    BY DEF ResetPlan, Plan
  <2> QED BY <1>2, <2>1, <2>2, ResetPlanWell
<1>3. CASE x \in OtherJobs
  <2>1. Plans(x) = {GeoPlan} /\ Scripts(x) = {geo_job}
    BY <1>3, RuntimeAssumption DEF Plans, Scripts, Jobs
  <2>2. GeoPlan.ops = geo_job
    BY DEF GeoPlan, Plan
  <2> QED BY <1>3, <2>1, <2>2, GeoPlanWell
<1> QED BY <1>1, <1>2, <1>3 DEF Tasks, Jobs

\* Where a handler is, in terms of what is left of its script.
LEMMA Place ==
  ASSUME NEW ops \in Seq(Ops), NEW k \in 1..(Len(ops) + 1), NEW todo, todo = SubSeq(ops, k, Len(ops))
  PROVE  /\ todo = <<>> <=> k = Len(ops) + 1
         /\ k <= Len(ops) => /\ Head(todo) = ops[k]
                             /\ Tail(todo) = SubSeq(ops, k + 1, Len(ops))
                             /\ k + 1 \in 1..(Len(ops) + 1) /\ k \in 1..Len(ops)
         /\ todo \in Seq(Ops)
         /\ \A m \in k..Len(ops) : m - k + 1 \in DOMAIN todo /\ todo[m - k + 1] = ops[m]
<1>1. Len(ops) \in Nat /\ DOMAIN ops = 1..Len(ops) /\ \A i \in 1..Len(ops) : ops[i] \in Ops
  BY LenProperties, ElementOfSeq
<1>2. PICK n \in Nat : n = Len(ops) - k + 1 /\ k - 1 + n = Len(ops)
  BY <1>1
<1>3. \A i \in 1..n : k + i - 1 \in 1..Len(ops)
  BY <1>1, <1>2
<1>4. todo = [i \in 1..n |-> ops[k + i - 1]]
  BY <1>1, <1>2
<1>5. todo \in [1..n -> Ops]
  BY <1>1, <1>3, <1>4
<1>6. todo \in Seq(Ops) /\ Len(todo) = n /\ DOMAIN todo = 1..n
  BY <1>5
<1>7. todo = <<>> <=> k = Len(ops) + 1
  <2>1. Len(<<>>) = 0 /\ \A seq \in Seq(Ops) : seq # <<>> => Len(seq) \in Nat \ {0}
    BY EmptySeq
  <2>2. n = 0 <=> k = Len(ops) + 1
    BY <1>1, <1>2
  <2>3. todo = <<>> <=> Len(todo) = 0
    BY <1>6, <2>1
  <2> QED BY <1>6, <2>2, <2>3
<1>8. ASSUME k <= Len(ops)
      PROVE  /\ Head(todo) = ops[k]
             /\ Tail(todo) = SubSeq(ops, k + 1, Len(ops))
             /\ k + 1 \in 1..(Len(ops) + 1) /\ k \in 1..Len(ops)
  <2>1. n > 0 /\ 1 \in 1..n /\ k + 1 - 1 = k
    BY <1>1, <1>2, <1>8
  <2>2. Head(todo) = ops[k]
    BY <1>4, <2>1
  <2>3. Tail(todo) = [i \in 1..(n - 1) |-> ops[k + 1 + i - 1]]
    <3>1. Tail(todo) = [i \in 1..(n - 1) |-> todo[i + 1]]
      BY <1>6, <2>1
    <3>2. \A i \in 1..(n - 1) : i + 1 \in 1..n /\ k + (i + 1) - 1 = k + 1 + i - 1
      BY <2>1
    <3> QED BY <1>4, <3>1, <3>2, ZenonT(60)
  <2>4. SubSeq(ops, k + 1, Len(ops)) = [i \in 1..(n - 1) |-> ops[k + 1 + i - 1]]
    <3>1. Len(ops) - (k + 1) + 1 = n - 1
      BY <1>1, <1>2
    <3> QED BY <1>1, <3>1
  <2> QED BY <1>1, <1>8, <2>2, <2>3, <2>4
<1>9. \A m \in k..Len(ops) : m - k + 1 \in DOMAIN todo /\ todo[m - k + 1] = ops[m]
  <2> SUFFICES ASSUME NEW m \in k..Len(ops)
               PROVE  m - k + 1 \in 1..n /\ todo[m - k + 1] = ops[m]
    BY <1>6
  <2>1. m - k + 1 \in 1..n /\ k + (m - k + 1) - 1 = m
    BY <1>1, <1>2
  <2> QED BY <1>4, <2>1
<1> QED BY <1>6, <1>7, <1>8, <1>9

\* A place that a handler has reached.
LEMMA Reached ==
  ASSUME IInv, HoldInv, NEW x \in Tasks
  PROVE  \E p \in Plans(x) : \E k \in 1..(Len(p.ops) + 1) :
           /\ WellPlanned(p) /\ OwnKind(x, p) /\ Fits(x, p, k) /\ Len(p.ops) \in Nat
           /\ t[x] \in Handler
           /\ t[x].todo = <<>> => k = Len(p.ops) + 1 /\ t[x].conns = 0 /\ ~t[x].slot
                                  /\ limit # x /\ t[x].sub = "run" /\ ~(x = ResetJob /\ gate)
                                  /\ ~t[x].locked /\ ~t[x].lost
           /\ t[x].todo # <<>> =>
                /\ k \in 1..Len(p.ops) /\ k + 1 \in 1..(Len(p.ops) + 1) /\ Held(p, k)
                /\ Head(t[x].todo) = p.ops[k]
                /\ Tail(t[x].todo) = SubSeq(p.ops, k + 1, Len(p.ops))
                /\ p.conns[k] \in 0..2 /\ p.conns[k + 1] \in 0..2
<1>0. PICK p \in Plans(x) : \E k \in 1..(Len(p.ops) + 1) : Fits(x, p, k)
  BY DEF HoldInv, OnPlan
<1>1. PICK k \in 1..(Len(p.ops) + 1) : Fits(x, p, k)
  BY <1>0
<1>2. WellPlanned(p) /\ OwnKind(x, p)
  BY Planned
<1>3. PICK ops \in Seq(Ops) : ops = p.ops
  BY <1>2 DEF WellPlanned
<1>4. Len(ops) \in Nat /\ t[x] \in Handler /\ k \in 1..(Len(ops) + 1)
  BY <1>3, LenProperties DEF IInv, Typed
<1>5. PICK todo : todo = t[x].todo /\ todo = SubSeq(ops, k, Len(ops))
  BY <1>1, <1>3 DEF Fits
<1>6. /\ todo = <<>> <=> k = Len(ops) + 1
      /\ k <= Len(ops) => /\ Head(todo) = ops[k]
                          /\ Tail(todo) = SubSeq(ops, k + 1, Len(ops))
                          /\ k + 1 \in 1..(Len(ops) + 1) /\ k \in 1..Len(ops)
  BY <1>4, <1>5, Place
<1>7. ASSUME todo = <<>>
      PROVE  k = Len(ops) + 1 /\ t[x].conns = 0 /\ ~t[x].slot
             /\ limit # x /\ t[x].sub = "run" /\ ~(x = ResetJob /\ gate)
             /\ ~t[x].locked /\ ~t[x].lost
  <2>1. k = Len(ops) + 1 /\ p.conns[k] = 0 /\ k \notin p.slot /\ k \notin p.gates
    BY <1>2, <1>3, <1>6, <1>7 DEF WellPlanned
  <2>2. t[x].sub = "run"
    BY <1>5, <1>7 DEF IInv, InConfig
  <2>3. k \notin 3..Len(p.ops)
    BY <1>3, <1>4, <2>1
  <2> QED BY <1>1, <2>1, <2>2, <2>3 DEF Fits
<1>8. ASSUME todo # <<>>
      PROVE  /\ k \in 1..Len(ops) /\ k + 1 \in 1..(Len(ops) + 1) /\ Held(p, k)
             /\ Head(todo) = ops[k]
             /\ Tail(todo) = SubSeq(ops, k + 1, Len(ops))
             /\ p.conns[k] \in 0..2 /\ p.conns[k + 1] \in 0..2
  <2>1. k <= Len(ops)
    BY <1>4, <1>6, <1>8
  <2>2. k \in 1..Len(ops) /\ k + 1 \in 1..(Len(ops) + 1)
    BY <1>6, <2>1
  <2> QED BY <1>2, <1>3, <1>6, <2>1, <2>2 DEF WellPlanned
<1> QED BY <1>1, <1>2, <1>3, <1>4, <1>5, <1>7, <1>8

\* One handler comes to a place of a plan, and the others stay at theirs.
LEMMA Arrived ==
  ASSUME IInv, HoldInv, NEW x \in Tasks, NEW n \in Handler, t' = [t EXCEPT ![x] = n],
         \A y \in Tasks : y # x => (limit' = y => limit = y),
         gate' => gate \/ x = ResetJob,
         NEW p \in Plans(x), NEW k \in 1..(Len(p.ops) + 1), Fits(x, p, k)'
  PROVE  OnPlan'
<1>1. \A y \in Tasks : y # x => t'[y] = t[y]
  BY DEF IInv, Typed
<1> SUFFICES ASSUME NEW y \in Tasks
             PROVE  \E q \in Plans(y) : \E l \in 1..(Len(q.ops) + 1) : Fits(y, q, l)'
  BY DEF OnPlan
<1>2. CASE y = x
  BY <1>2
<1>3. CASE y # x
  <2>0. PICK q \in Plans(y) : \E l \in 1..(Len(q.ops) + 1) : Fits(y, q, l)
    BY DEF HoldInv, OnPlan
  <2>1. PICK l \in 1..(Len(q.ops) + 1) : Fits(y, q, l)
    BY <2>0
  <2>2. Fits(y, q, l)'
    BY <1>1, <1>3, <2>1 DEF Fits
  <2> QED BY <2>2
<1> QED BY <1>2, <1>3

\* A handler that has nothing left and holds nothing is at the end of any plan.
LEMMA Ending ==
  ASSUME IInv, HoldInv, NEW x \in Tasks, t' = [t EXCEPT ![x] = Idle],
         \A y \in Tasks : y # x => (limit' = y => limit = y),
         limit' # x, gate' => gate \/ x = ResetJob, ~(x = ResetJob /\ gate')
  PROVE  OnPlan'
<1>1. PICK p \in Plans(x) : WellPlanned(p)
  BY Planned DEF HoldInv, OnPlan
<1>2. PICK k : k = Len(p.ops) + 1
  OBVIOUS
<1>3. p.ops \in Seq(Ops) /\ Len(p.ops) \in Nat
  BY <1>1, LenProperties DEF WellPlanned
<1>4. k \in 1..(Len(p.ops) + 1) /\ SubSeq(p.ops, k, Len(p.ops)) = <<>>
  BY <1>2, <1>3, Place
<1>5. p.conns[k] = 0 /\ k \notin p.slot /\ k \notin p.gates
  BY <1>1, <1>2 DEF WellPlanned
<1>6. t'[x] = Idle
  BY DEF IInv, Typed
<1>7. Fits(x, p, k)'
  <2>1. t'[x].todo = <<>> /\ t'[x].sub = "run" /\ t'[x].conns = 0 /\ ~t'[x].slot
    BY <1>6 DEF Idle
  <2>2. /\ t'[x].todo = SubSeq(p.ops, k, Len(p.ops))
        /\ t'[x].conns = p.conns[k] + (IF t'[x].sub = "load" THEN 1 ELSE 0)
    BY <1>4, <1>5, <2>1
  <2>3. ~t'[x].locked /\ ~t'[x].lost
    BY <1>6 DEF Idle
  <2> QED BY <1>5, <2>1, <2>2, <2>3 DEF Fits
<1> QED BY <1>4, <1>7, Arrived, IdleHandler

\* Handler x is about to do operation k of plan p.
AtPlace(x, p, k) ==
  /\ WellPlanned(p) /\ OwnKind(x, p) /\ Fits(x, p, k) /\ Len(p.ops) \in Nat
  /\ k \in 1..Len(p.ops) /\ k + 1 \in 1..(Len(p.ops) + 1) /\ Held(p, k)
  /\ Head(t[x].todo) = p.ops[k]
  /\ Tail(t[x].todo) = SubSeq(p.ops, k + 1, Len(p.ops))
  /\ p.conns[k] \in 0..2 /\ p.conns[k + 1] \in 0..2

\* A handler with something left to do is about to do it.
LEMMA UnderWay ==
  ASSUME IInv, HoldInv, NEW x \in Tasks, t[x].todo # <<>>
  PROVE  \E p \in Plans(x) : \E k \in Nat : AtPlace(x, p, k)
<1>0. PICK p \in Plans(x) : \E k \in 1..(Len(p.ops) + 1) :
           /\ WellPlanned(p) /\ OwnKind(x, p) /\ Fits(x, p, k) /\ Len(p.ops) \in Nat
           /\ k \in 1..Len(p.ops) /\ k + 1 \in 1..(Len(p.ops) + 1) /\ Held(p, k)
           /\ Head(t[x].todo) = p.ops[k]
           /\ Tail(t[x].todo) = SubSeq(p.ops, k + 1, Len(p.ops))
           /\ p.conns[k] \in 0..2 /\ p.conns[k + 1] \in 0..2
  BY Reached
<1>1. PICK k \in 1..(Len(p.ops) + 1) : AtPlace(x, p, k)
  BY <1>0 DEF AtPlace
<1>2. k \in Nat
  BY <1>1 DEF AtPlace
<1> QED BY <1>1, <1>2

\* A handler with nothing left to do holds nothing.
LEMMA Finished ==
  ASSUME IInv, HoldInv, NEW x \in Tasks, t[x].todo = <<>>
  PROVE  /\ t[x].conns = 0 /\ ~t[x].slot /\ limit # x /\ t[x].sub = "run"
         /\ ~(x = ResetJob /\ gate) /\ ~t[x].locked /\ ~t[x].lost
BY Reached

-----------------------------------------------------------------------------
(* Slots *)

\* One handler moves on; it keeps its slot, takes one or gives it back.
LEMMA SlotsCounted ==
  ASSUME IInv, HoldInv, NEW x \in Tasks, NEW n \in Handler, t' = [t EXCEPT ![x] = n],
         \/ (n.slot <=> t[x].slot) /\ sem' = sem
         \/ ~t[x].slot /\ n.slot /\ sem > 0 /\ sem' = sem - 1
         \/ t[x].slot /\ ~n.slot /\ sem' = sem + 1
  PROVE  SlotsHeld'
<1>1. \A y \in Tasks : IF y = x THEN t'[y] = n ELSE t'[y] = t[y]
  BY DEF IInv, Typed
<1>2. IsFiniteSet(Holders) /\ Cardinality(Holders) \in Nat
  BY RuntimeAssumption, FS_Subset, FS_CardinalityType DEF Holders
<1>3. sem \in Nat /\ sem = Slots - Cardinality(Holders) /\ Slots \in Nat
  BY RuntimeAssumption DEF HoldInv, SlotsHeld
<1>4. CASE (n.slot <=> t[x].slot) /\ sem' = sem
  <2>1. Holders' = Holders
    BY <1>1, <1>4 DEF Holders
  <2> QED BY <1>3, <1>4, <2>1 DEF SlotsHeld
<1>5. CASE ~t[x].slot /\ n.slot /\ sem > 0 /\ sem' = sem - 1
  <2>1. Holders' = Holders \cup {x} /\ x \notin Holders
    BY <1>1, <1>5 DEF Holders
  <2>2. Cardinality(Holders') = Cardinality(Holders) + 1
    BY <1>2, <2>1, FS_AddElement
  <2> QED BY <1>2, <1>3, <1>5, <2>2 DEF SlotsHeld
<1>6. CASE t[x].slot /\ ~n.slot /\ sem' = sem + 1
  <2>1. Holders' = Holders \ {x} /\ x \in Holders
    BY <1>1, <1>6 DEF Holders
  <2>2. Cardinality(Holders') = Cardinality(Holders) - 1
    BY <1>2, <2>1, FS_RemoveElement
  <2> QED BY <1>2, <1>3, <1>6, <2>2 DEF SlotsHeld
<1> QED BY <1>4, <1>5, <1>6

-----------------------------------------------------------------------------
(* Steps *)

\* A handler does the operation it is at, and comes to the next place.
LEMMA Forward ==
  ASSUME IInv, HoldInv, NEW x \in Tasks, NEW n \in Handler, t' = [t EXCEPT ![x] = n],
         NEW p \in Plans(x), NEW k \in Nat, AtPlace(x, p, k), p.ops[k] # "unlock",
         n.todo = Tail(t[x].todo), n.sub = "run", n.slot <=> k + 1 \in p.slot,
         n.conns = p.conns[k + 1], n.lost = t[x].lost,
         \/ n.locked = t[x].locked /\ joblock' = joblock
         \/ /\ p.ops[k] = "trylock" /\ n.locked /\ ~n.lost
            /\ joblock' = [joblock EXCEPT ![x] = "mine"],
         limit' \in {limit, NoOne, x}, limit' \in Requests \cup {NoOne},
         limit' = x => p.conns[k + 1] > 0,
         gate' \in BOOLEAN, gate' => gate \/ x = ResetJob,
         x = ResetJob /\ gate' => k + 1 \in p.gates,
         cacheLock' \in {cacheLock, NoOne}, cacheLock' # x, cacheLock' # cacheLock => cacheLock = x,
         fresh' \in BOOLEAN
  PROVE  OnPlan' /\ CacheHeld' /\ MineHeld' /\ Basics'
<1>1. \A y \in Tasks : IF y = x THEN t'[y] = n ELSE t'[y] = t[y]
  BY DEF IInv, Typed
<1>2. NoOne \notin Tasks
  BY RuntimeAssumption
<1>3. OnPlan'
  <2>1. Fits(x, p, k + 1)'
    <3>1. /\ t'[x] = n /\ n.todo = SubSeq(p.ops, k + 1, Len(p.ops))
          /\ p.conns[k + 1] \in 0..2
      BY <1>1 DEF AtPlace
    <3>2. n.conns = p.conns[k + 1] + (IF n.sub = "load" THEN 1 ELSE 0)
      BY <3>1
    <3>3. ASSUME n.locked \/ n.lost
          PROVE  x \in Jobs /\ k + 1 \in 3..Len(p.ops)
      <4>1. x \in Jobs /\ k >= 2 /\ k \in 1..Len(p.ops) /\ Len(p.ops) \in Nat
        BY <3>3 DEF AtPlace, Fits, Held, OwnKind
      <4>2. k # Len(p.ops)
        BY <4>1 DEF AtPlace, OwnKind
      <4> QED BY <4>1, <4>2
    <3> QED BY <3>1, <3>2, <3>3 DEF Fits
  <2>2. k + 1 \in 1..(Len(p.ops) + 1)
    BY DEF AtPlace
  <2>3. \A y \in Tasks : y # x => (limit' = y => limit = y)
    BY <1>2
  <2> QED BY <2>1, <2>2, <2>3, Arrived
<1>4. CacheHeld'
  BY <1>1, <1>2 DEF HoldInv, CacheHeld
<1>5. MineHeld'
  <2>1. ASSUME x \in Jobs PROVE n.todo # <<>>
    <3>1. PICK ops \in Seq(Ops) : ops = p.ops
      BY DEF AtPlace, WellPlanned
    <3>2. k + 1 \in 1..(Len(ops) + 1) /\ k + 1 # Len(ops) + 1 /\ Len(ops) \in Nat
      BY <2>1, <3>1 DEF AtPlace, OwnKind
    <3>3. n.todo = SubSeq(ops, k + 1, Len(ops))
      BY <3>1 DEF AtPlace
    <3> QED BY <3>2, <3>3, Place
  <2>2. \A j \in Jobs : j # x => joblock'[j] = joblock[j]
    BY DEF IInv, Typed
  <2> QED BY <1>1, <2>1, <2>2 DEF HoldInv, MineHeld, Tasks
<1>6. Basics'
  BY DEF HoldInv, Basics
<1> QED BY <1>3, <1>4, <1>5, <1>6

\* A handler in get_many stays at its place.
LEMMA Within ==
  ASSUME IInv, HoldInv, NEW x \in Tasks, NEW n \in Handler, t' = [t EXCEPT ![x] = n],
         NEW p \in Plans(x), NEW k \in Nat, AtPlace(x, p, k), p.ops[k] = "config",
         n.todo = t[x].todo, t[x].todo # <<>>, n.slot = t[x].slot,
         n.locked = t[x].locked, n.lost = t[x].lost,
         n.conns = p.conns[k] + (IF n.sub = "load" THEN 1 ELSE 0),
         limit' = limit, gate' = gate, fresh' = fresh, joblock' = joblock,
         cacheLock' \in {cacheLock, x}, cacheLock' # cacheLock => cacheLock = NoOne,
         cacheLock' = x <=> n.sub \in {"connect", "load"}
  PROVE  OnPlan' /\ CacheHeld' /\ MineHeld' /\ Basics'
<1>1. \A y \in Tasks : IF y = x THEN t'[y] = n ELSE t'[y] = t[y]
  BY DEF IInv, Typed
<1>2. NoOne \notin Tasks
  BY RuntimeAssumption
<1>3. OnPlan'
  <2>1. k \in DOMAIN p.ops /\ k \in 1..(Len(p.ops) + 1)
    BY LenProperties DEF AtPlace, WellPlanned
  <2>2. Fits(x, p, k)'
    BY <1>1, <2>1 DEF Fits, AtPlace
  <2> QED BY <2>1, <2>2, Arrived
<1>4. CacheHeld'
  BY <1>1, <1>2 DEF HoldInv, CacheHeld
<1>5. MineHeld'
  BY <1>1 DEF HoldInv, MineHeld, Tasks
<1>6. Basics'
  BY DEF HoldInv, Basics
<1> QED BY <1>3, <1>4, <1>5, <1>6

\* A handler ends, and has given back what it held.
LEMMA Leaves ==
  ASSUME IInv, HoldInv, NEW x \in Tasks, t' = [t EXCEPT ![x] = Idle],
         limit' \in {limit, NoOne}, limit' # x,
         gate' \in BOOLEAN, gate' => gate, ~(x = ResetJob /\ gate'),
         cacheLock' \in {cacheLock, NoOne}, cacheLock' # x, cacheLock' # cacheLock => cacheLock = x,
         fresh' = fresh,
         \A j \in Jobs : IF j = x THEN joblock'[j] # "mine" ELSE joblock'[j] = joblock[j]
  PROVE  OnPlan' /\ CacheHeld' /\ MineHeld' /\ Basics'
<1>1. \A y \in Tasks : IF y = x THEN t'[y] = Idle ELSE t'[y] = t[y]
  BY DEF IInv, Typed
<1>2. NoOne \notin Tasks
  BY RuntimeAssumption
<1>3. \A y \in Tasks : y # x => (limit' = y => limit = y)
  BY <1>2
<1>4. OnPlan'
  BY <1>3, Ending
<1>5. CacheHeld'
  BY <1>1, <1>2, IdleHandler DEF HoldInv, CacheHeld
<1>6. MineHeld'
  BY <1>1 DEF HoldInv, MineHeld, Tasks
<1>7. Basics'
  BY DEF HoldInv, Basics
<1> QED BY <1>4, <1>5, <1>6, <1>7

\* The next operation, and what it leaves as it is.
LEMMA NextFields ==
  ASSUME IInv, NEW x \in Tasks
  PROVE  /\ Next1(x).todo = Tail(t[x].todo) /\ Next1(x).sub = "run"
         /\ Next1(x).slot = t[x].slot /\ Next1(x).conns = t[x].conns
BY DEF Next1, IInv, Typed, Handler

\* The place of a handler that is about to do an operation, or in get_many.
LEMMA AtOp ==
  ASSUME IInv, HoldInv, NEW x \in Tasks
  PROVE  /\ \A op : At(x, op) =>
              /\ t[x].todo # <<>> /\ t[x].sub = "run" /\ cacheLock # x
              /\ \E p \in Plans(x) : \E k \in Nat :
                   AtPlace(x, p, k) /\ p.ops[k] = op /\ t[x].conns = p.conns[k]
         /\ t[x].sub # "run" =>
              /\ t[x].todo # <<>> /\ (cacheLock = x <=> t[x].sub \in {"connect", "load"})
              /\ \E p \in Plans(x) : \E k \in Nat :
                   /\ AtPlace(x, p, k) /\ p.ops[k] = "config"
                   /\ t[x].conns = p.conns[k] + (IF t[x].sub = "load" THEN 1 ELSE 0)
<1>1. cacheLock = x <=> t[x].sub \in {"connect", "load"}
  BY DEF HoldInv, CacheHeld
<1>2. ASSUME NEW op, At(x, op)
      PROVE  /\ t[x].todo # <<>> /\ t[x].sub = "run" /\ cacheLock # x
             /\ \E p \in Plans(x) : \E k \in Nat :
                  AtPlace(x, p, k) /\ p.ops[k] = op /\ t[x].conns = p.conns[k]
  <2>1. t[x].todo # <<>> /\ t[x].sub = "run" /\ cacheLock # x /\ Head(t[x].todo) = op
    BY <1>1, <1>2 DEF At, Op
  <2>2. PICK p \in Plans(x) : \E k \in Nat : AtPlace(x, p, k)
    BY <2>1, UnderWay
  <2>3. PICK k \in Nat : AtPlace(x, p, k)
    BY <2>2
  <2>4. p.ops[k] = op /\ t[x].conns = p.conns[k]
    BY <2>1, <2>3 DEF AtPlace, Fits
  <2> QED BY <2>1, <2>3, <2>4
<1>3. ASSUME t[x].sub # "run"
      PROVE  /\ t[x].todo # <<>>
             /\ \E p \in Plans(x) : \E k \in Nat :
                  /\ AtPlace(x, p, k) /\ p.ops[k] = "config"
                  /\ t[x].conns = p.conns[k] + (IF t[x].sub = "load" THEN 1 ELSE 0)
  <2>1. t[x].todo # <<>>
    BY <1>3 DEF IInv, InConfig
  <2>2. PICK p \in Plans(x) : \E k \in Nat : AtPlace(x, p, k)
    BY <2>1, UnderWay
  <2>3. PICK k \in Nat : AtPlace(x, p, k)
    BY <2>2
  <2>4. /\ p.ops[k] = "config"
        /\ t[x].conns = p.conns[k] + (IF t[x].sub = "load" THEN 1 ELSE 0)
    BY <1>3, <2>3 DEF AtPlace, Fits
  <2> QED BY <2>1, <2>3, <2>4
<1> QED BY <1>1, <1>2, <1>3

\* The gate stays as it is, or the reset comes to a place where it should be.
LEMMA GateHeld ==
  ASSUME IInv, HoldInv, NEW x \in Tasks, NEW p \in Plans(x), NEW k \in Nat, AtPlace(x, p, k),
         p.ops[k] \notin {"open", "unlock"}, gate' = gate
  PROVE  /\ gate' \in BOOLEAN /\ (gate' => gate \/ x = ResetJob)
         /\ x = ResetJob /\ gate' => k + 1 \in p.gates
BY DEF AtPlace, Held, Fits, HoldInv, Basics


\* A handler passes an operation that takes and gives back no slot, no connection
\* and no lock of a job.
LEMMA Passes ==
  ASSUME IInv, HoldInv, NEW x \in Tasks, t' = [t EXCEPT ![x] = Next1(x)],
         NEW p \in Plans(x), NEW k \in Nat, AtPlace(x, p, k), t[x].todo # <<>>,
         p.ops[k] \notin {"slot", "unslot", "connect", "close", "trylock", "unlock"},
         t[x].sub # "load",
         limit' = limit \/ (limit' = x /\ x \in Requests /\ p.conns[k] > 0),
         gate' \in BOOLEAN, gate' => gate \/ x = ResetJob,
         x = ResetJob /\ gate' => k + 1 \in p.gates,
         cacheLock' = cacheLock, cacheLock # x,
         fresh' = fresh, joblock' = joblock, sem' = sem
  PROVE  HoldInv'
<1> DEFINE n == Next1(x)
<1>1. n \in Handler /\ n.locked = t[x].locked /\ n.lost = t[x].lost
  BY NextOp
<1>2. n.todo = Tail(t[x].todo) /\ n.sub = "run" /\ n.slot = t[x].slot /\ n.conns = t[x].conns
  BY NextFields
<1> HIDE DEF n
<1>3. t' = [t EXCEPT ![x] = n]
  BY DEF n
<1>4. (n.slot <=> k + 1 \in p.slot) /\ n.conns = p.conns[k + 1] /\ p.conns[k + 1] = p.conns[k]
  <2>1. p.conns[k + 1] = p.conns[k] /\ (k \in p.slot <=> k + 1 \in p.slot)
    BY DEF AtPlace, Held
  <2>2. t[x].conns = p.conns[k] + 0 /\ (t[x].slot <=> k \in p.slot) /\ p.conns[k] \in 0..2
    BY DEF AtPlace, Fits
  <2> QED BY <1>2, <2>1, <2>2
<1>5. limit' \in {limit, NoOne, x} /\ limit' \in Requests \cup {NoOne}
      /\ (limit' = x => p.conns[k + 1] > 0) /\ fresh' \in BOOLEAN
  BY <1>4 DEF HoldInv, Basics, AtPlace, Fits
<1>6. SlotsHeld'
  <2>1. n.slot <=> t[x].slot
    BY <1>2
  <2> QED BY <1>1, <1>3, <2>1, SlotsCounted
<1>7. OnPlan' /\ CacheHeld' /\ MineHeld' /\ Basics'
  BY <1>1, <1>2, <1>3, <1>4, <1>5, Forward
<1> QED BY <1>6, <1>7 DEF HoldInv

\* A handler ends before it has taken anything, or is on its way out.
LEMMA Ends ==
  ASSUME IInv, HoldInv, NEW x \in Tasks, t' = [t EXCEPT ![x] = Idle],
         limit' \in {limit, NoOne}, limit' # x,
         gate' \in BOOLEAN, gate' => gate, ~(x = ResetJob /\ gate'),
         cacheLock' \in {cacheLock, NoOne}, cacheLock' # x, cacheLock' # cacheLock => cacheLock = x,
         fresh' = fresh, sem' = IF t[x].slot THEN sem + 1 ELSE sem,
         \A j \in Jobs : IF j = x THEN joblock'[j] # "mine" ELSE joblock'[j] = joblock[j]
  PROVE  HoldInv'
<1>1. OnPlan' /\ CacheHeld' /\ MineHeld' /\ Basics'
  BY Leaves
<1>2. Idle \in Handler /\ ~Idle.slot
  BY IdleHandler DEF Idle
<1>3. PICK n \in Handler : n = Idle
  BY <1>2
<1>4. \/ (n.slot <=> t[x].slot) /\ sem' = sem
      \/ t[x].slot /\ ~n.slot /\ sem' = sem + 1
  BY <1>2, <1>3
<1>5. SlotsHeld'
  BY <1>3, <1>4, SlotsCounted
<1> QED BY <1>1, <1>5 DEF HoldInv

\* The operations at which a handler may end hold nothing.
LEMMA Empty ==
  ASSUME IInv, HoldInv, NEW x \in Tasks, NEW op \in {"gate?", "slot", "trylock"}, At(x, op)
  PROVE  /\ ~t[x].slot /\ cacheLock # x /\ ~(x = ResetJob /\ gate)
         /\ op # "trylock" => limit # x
         /\ x \in Jobs => joblock[x] # "mine" /\ limit # x
<1>1. t[x].todo # <<>> /\ t[x].sub = "run" /\ cacheLock # x
  BY AtOp
<1>2. PICK p \in Plans(x) : \E k \in Nat :
        AtPlace(x, p, k) /\ p.ops[k] = op /\ t[x].conns = p.conns[k]
  BY AtOp
<1>3. PICK k \in Nat : AtPlace(x, p, k) /\ p.ops[k] = op /\ t[x].conns = p.conns[k]
  BY <1>2
<1>4. ~t[x].slot /\ ~(x = ResetJob /\ gate) /\ ~t[x].locked
  <2>1. Held(p, k) /\ Fits(x, p, k) /\ p.ops[k] = op
    BY <1>3 DEF AtPlace
  <2>2. k \notin p.slot /\ k \notin p.gates /\ k <= 2
    BY <2>1 DEF Held
  <2>3. k \notin 3..Len(p.ops)
    BY <2>2
  <2>4. /\ t[x].slot <=> k \in p.slot
        /\ x = ResetJob /\ gate => k \in p.gates
        /\ t[x].locked => k \in 3..Len(p.ops)
    BY <2>1 DEF Fits
  <2> QED BY <2>2, <2>3, <2>4
<1>5. op # "trylock" => limit # x
  <2>1. Held(p, k) /\ Fits(x, p, k) /\ p.ops[k] = op
    BY <1>3 DEF AtPlace
  <2>2. op # "trylock" => p.conns[k] = 0
    BY <2>1 DEF Held
  <2>3. limit = x => p.conns[k] > 0
    BY <2>1 DEF Fits
  <2> QED BY <2>2, <2>3
<1>6. x \in Jobs => limit # x
  BY RuntimeAssumption DEF HoldInv, Basics, Jobs, Tasks
<1>7. x \in Jobs => joblock[x] # "mine"
  BY <1>4 DEF HoldInv, MineHeld
<1> QED BY <1>1, <1>4, <1>5, <1>6, <1>7

\* The gate of the booking dialog.
LEMMA CheckGateHolds ==
  ASSUME IInv, HoldInv, NEW x \in Tasks, CheckGate(x)
  PROVE  HoldInv'
<1>1. /\ At(x, "gate?") /\ sem' = sem /\ cacheLock' = cacheLock /\ fresh' = fresh /\ limit' = limit
      /\ gate' = gate /\ joblock' = joblock
      /\ t' = [t EXCEPT ![x] = IF gate THEN Idle ELSE Next1(x)]
  BY DEF CheckGate
<1>2. gate \in BOOLEAN
  BY DEF HoldInv, Basics
<1>3. CASE gate
  <2>1. ~t[x].slot /\ cacheLock # x /\ limit # x /\ ~(x = ResetJob /\ gate)
        /\ (x \in Jobs => joblock[x] # "mine")
    BY <1>1, Empty
  <2>2. t' = [t EXCEPT ![x] = Idle]
    BY <1>1, <1>3
  <2> QED BY <1>1, <1>2, <2>1, <2>2, Ends
<1>4. CASE ~gate
  <2>1. t[x].todo # <<>> /\ t[x].sub = "run" /\ cacheLock # x
    BY <1>1, AtOp
  <2>2. PICK p \in Plans(x) : \E k \in Nat : AtPlace(x, p, k) /\ p.ops[k] = "gate?"
    BY <1>1, AtOp
  <2>3. PICK k \in Nat : AtPlace(x, p, k) /\ p.ops[k] = "gate?"
    BY <2>2
  <2>4. t' = [t EXCEPT ![x] = Next1(x)]
    BY <1>1, <1>4
  <2> QED BY <1>1, <1>2, <1>4, <2>1, <2>3, <2>4, Passes
<1> QED BY <1>3, <1>4

\* No slot is free.
LEMMA BusyHolds ==
  ASSUME IInv, HoldInv, NEW x \in Tasks, Busy(x)
  PROVE  HoldInv'
<1>1. /\ At(x, "slot") /\ sem' = sem /\ cacheLock' = cacheLock /\ fresh' = fresh /\ limit' = limit
      /\ gate' = gate /\ joblock' = joblock /\ t' = [t EXCEPT ![x] = Idle]
  BY DEF Busy
<1>2. gate \in BOOLEAN
  BY DEF HoldInv, Basics
<1>3. ~t[x].slot /\ cacheLock # x /\ limit # x /\ ~(x = ResetJob /\ gate)
      /\ (x \in Jobs => joblock[x] # "mine")
  BY <1>1, Empty
<1> QED BY <1>1, <1>2, <1>3, Ends

\* The lock of a member's week is taken with a connection.
LEMMA LockLimitHolds ==
  ASSUME IInv, HoldInv, NEW x \in Tasks, LockLimit(x)
  PROVE  HoldInv'
<1>1. /\ At(x, "limit") /\ sem' = sem /\ cacheLock' = cacheLock /\ fresh' = fresh /\ limit' = x
      /\ gate' = gate /\ joblock' = joblock /\ t' = [t EXCEPT ![x] = Next1(x)]
  BY DEF LockLimit
<1>2. t[x].todo # <<>> /\ t[x].sub = "run" /\ cacheLock # x
  BY <1>1, AtOp
<1>3. PICK p \in Plans(x) : \E k \in Nat : AtPlace(x, p, k) /\ p.ops[k] = "limit"
  BY <1>1, AtOp
<1>4. PICK k \in Nat : AtPlace(x, p, k) /\ p.ops[k] = "limit"
  BY <1>3
<1>5. x \in Requests /\ p.conns[k] > 0
  BY <1>4 DEF AtPlace, OwnKind, Held
<1>6. /\ gate' \in BOOLEAN /\ (gate' => gate \/ x = ResetJob)
      /\ x = ResetJob /\ gate' => k + 1 \in p.gates
  BY <1>1, <1>4, GateHeld
<1> QED BY <1>1, <1>2, <1>4, <1>5, <1>6, Passes

\* The gate is shut and opened by the reset.
LEMMA GateHolds ==
  ASSUME IInv, HoldInv, NEW x \in Tasks, ShutGate(x) \/ OpenGate(x)
  PROVE  HoldInv'
<1>1. PICK op \in {"shut", "open"} :
        At(x, op) /\ (gate' <=> op = "shut") /\ gate' \in BOOLEAN
  BY DEF ShutGate, OpenGate
<1>2. /\ sem' = sem /\ cacheLock' = cacheLock /\ fresh' = fresh /\ limit' = limit
      /\ joblock' = joblock /\ t' = [t EXCEPT ![x] = Next1(x)]
  BY DEF ShutGate, OpenGate
<1>3. t[x].todo # <<>> /\ t[x].sub = "run" /\ cacheLock # x
  BY <1>1, AtOp
<1>4. PICK p \in Plans(x) : \E k \in Nat : AtPlace(x, p, k) /\ p.ops[k] = op
  BY <1>1, AtOp
<1>5. PICK k \in Nat : AtPlace(x, p, k) /\ p.ops[k] = op
  BY <1>4
<1>6. x = ResetJob
  BY <1>5 DEF AtPlace, OwnKind
<1>7. gate' => k + 1 \in p.gates
  BY <1>1, <1>5 DEF AtPlace, Held
<1> QED BY <1>1, <1>2, <1>3, <1>5, <1>6, <1>7, Passes

\* A slot is taken before anything else, and given back in a finally.
LEMMA SlotHolds ==
  ASSUME IInv, HoldInv, NEW x \in Tasks, AcquireSlot(x) \/ ReleaseSlot(x)
  PROVE  HoldInv'
<1>1. PICK b \in BOOLEAN :
        IF b THEN AcquireSlot(x) ELSE ReleaseSlot(x)
  <2>1. CASE AcquireSlot(x)
    <3> WITNESS TRUE \in BOOLEAN
    <3> QED BY <2>1
  <2>2. CASE ReleaseSlot(x)
    <3> WITNESS FALSE \in BOOLEAN
    <3> QED BY <2>2
  <2> QED BY <2>1, <2>2
<1> DEFINE n == [Next1(x) EXCEPT !.slot = b]
<1>2. /\ cacheLock' = cacheLock /\ fresh' = fresh /\ limit' = limit
      /\ gate' = gate /\ joblock' = joblock /\ t' = [t EXCEPT ![x] = n]
      /\ IF b THEN At(x, "slot") /\ sem > 0 /\ sem' = sem - 1
         ELSE At(x, "unslot") /\ sem' = sem + 1
  BY <1>1 DEF AcquireSlot, ReleaseSlot
<1>3. PICK op : At(x, op) /\ op = IF b THEN "slot" ELSE "unslot"
  BY <1>2
<1>4. t[x].todo # <<>> /\ t[x].sub = "run" /\ cacheLock # x
  BY <1>3, AtOp
<1>5. PICK p \in Plans(x) : \E k \in Nat :
        AtPlace(x, p, k) /\ p.ops[k] = op /\ t[x].conns = p.conns[k]
  BY <1>3, AtOp
<1>6. PICK k \in Nat : AtPlace(x, p, k) /\ p.ops[k] = op /\ t[x].conns = p.conns[k]
  BY <1>5
<1>7. /\ n \in Handler /\ n.locked = t[x].locked /\ n.lost = t[x].lost /\ n.slot = b
      /\ n.todo = Tail(t[x].todo) /\ n.sub = "run" /\ n.conns = t[x].conns
  <2>1. PICK m \in Handler : m = Next1(x)
    BY <1>4, NextOp
  <2>2. m.locked = t[x].locked /\ m.lost = t[x].lost
    BY <1>4, <2>1, NextOp
  <2>3. m.todo = Tail(t[x].todo) /\ m.sub = "run" /\ m.conns = t[x].conns
    BY <2>1, NextFields
  <2> QED BY <2>1, <2>2, <2>3 DEF Handler
<1> HIDE DEF n
<1>8. p.conns[k + 1] = p.conns[k] /\ (t[x].slot <=> ~b) /\ (k + 1 \in p.slot <=> b)
  BY <1>3, <1>6 DEF AtPlace, Held, Fits
<1>9. /\ gate' \in BOOLEAN /\ (gate' => gate \/ x = ResetJob)
      /\ x = ResetJob /\ gate' => k + 1 \in p.gates
  BY <1>2, <1>3, <1>6, GateHeld
<1>10. SlotsHeld'
  BY <1>2, <1>7, <1>8, SlotsCounted
<1>11. /\ limit' \in Requests \cup {NoOne} /\ fresh' \in BOOLEAN
       /\ limit' = x => p.conns[k + 1] > 0
  BY <1>2, <1>6, <1>8 DEF HoldInv, Basics, AtPlace, Fits
<1>12. OnPlan' /\ CacheHeld' /\ MineHeld' /\ Basics'
  BY <1>2, <1>3, <1>4, <1>6, <1>7, <1>8, <1>9, <1>11, Forward
<1> QED BY <1>10, <1>12 DEF HoldInv

\* A handler that goes on holds a connection more, or one less.
LEMMA ConnsHold ==
  ASSUME IInv, HoldInv, NEW x \in Tasks, NEW d \in {-1, 1},
         t[x].todo # <<>>, t' = [t EXCEPT ![x] = [Next1(x) EXCEPT !.conns = @ + d]],
         NEW p \in Plans(x), NEW k \in Nat, AtPlace(x, p, k),
         p.ops[k] \in {"connect", "close", "config"}, p.conns[k + 1] = t[x].conns + d,
         limit' \in {limit, NoOne}, limit' = x => p.conns[k + 1] > 0,
         cacheLock' \in {cacheLock, NoOne}, cacheLock' # x, cacheLock' # cacheLock => cacheLock = x,
         fresh' \in BOOLEAN, gate' = gate, joblock' = joblock, sem' = sem
  PROVE  HoldInv'
<1> DEFINE n == [Next1(x) EXCEPT !.conns = @ + d]
<1>1. /\ n \in Handler /\ n.locked = t[x].locked /\ n.lost = t[x].lost /\ n.slot = t[x].slot
      /\ n.todo = Tail(t[x].todo) /\ n.sub = "run" /\ n.conns = t[x].conns + d
  <2>1. PICK m \in Handler : m = Next1(x)
    BY NextOp
  <2>2. m.locked = t[x].locked /\ m.lost = t[x].lost
    BY <2>1, NextOp
  <2>3. m.todo = Tail(t[x].todo) /\ m.sub = "run" /\ m.slot = t[x].slot /\ m.conns = t[x].conns
    BY <2>1, NextFields
  <2>4. m.conns + d \in Int
    BY <2>1 DEF Handler
  <2> QED BY <2>1, <2>2, <2>3, <2>4 DEF Handler
<1>2. t' = [t EXCEPT ![x] = n]
  OBVIOUS
<1> HIDE DEF n
<1>3. n.slot <=> k + 1 \in p.slot
  <2>1. t[x].slot <=> k \in p.slot
    BY DEF AtPlace, Fits
  <2>2. k \in p.slot <=> k + 1 \in p.slot
    BY DEF AtPlace, Held
  <2> QED BY <1>1, <2>1, <2>2
<1>4. /\ gate' \in BOOLEAN /\ (gate' => gate \/ x = ResetJob)
      /\ x = ResetJob /\ gate' => k + 1 \in p.gates
  BY GateHeld
<1>5. SlotsHeld'
  <2>1. n \in Handler /\ (n.slot <=> t[x].slot) /\ sem' = sem
    BY <1>1
  <2>2. \/ (n.slot <=> t[x].slot) /\ sem' = sem
        \/ t[x].slot /\ ~n.slot /\ sem' = sem + 1
    BY <2>1
  <2> QED BY <1>2, <2>1, <2>2, SlotsCounted
<1>6. limit' \in Requests \cup {NoOne} /\ limit' \in {limit, NoOne, x}
  BY DEF HoldInv, Basics
<1>7. OnPlan' /\ CacheHeld' /\ MineHeld' /\ Basics'
  BY <1>1, <1>2, <1>3, <1>4, <1>6, Forward
<1> QED BY <1>5, <1>7 DEF HoldInv

\* The end of a session gives its connection back, and the locks of its transaction.
LEMMA CloseHolds ==
  ASSUME IInv, HoldInv, NEW x \in Tasks, CloseSession(x)
  PROVE  HoldInv'
<1>1. /\ At(x, "close") /\ sem' = sem /\ cacheLock' = cacheLock /\ fresh' = fresh
      /\ gate' = gate /\ joblock' = joblock /\ limit' = IF limit = x THEN NoOne ELSE limit
      /\ t' = [t EXCEPT ![x] = [Next1(x) EXCEPT !.conns = @ - 1]]
  BY DEF CloseSession
<1>0. At(x, "close")
  BY <1>1
<1>2. t[x].todo # <<>> /\ t[x].sub = "run" /\ cacheLock # x
  BY <1>0, AtOp
<1>3. PICK p \in Plans(x) : \E k \in Nat :
        AtPlace(x, p, k) /\ p.ops[k] = "close" /\ t[x].conns = p.conns[k]
  BY <1>0, AtOp
<1>4. PICK k \in Nat : AtPlace(x, p, k) /\ p.ops[k] = "close" /\ t[x].conns = p.conns[k]
  BY <1>3
<1>5. p.conns[k + 1] = t[x].conns + (-1)
  BY <1>4 DEF AtPlace, Held
<1>6. limit' # x /\ limit' \in {limit, NoOne} /\ fresh' \in BOOLEAN
  BY <1>1, RuntimeAssumption DEF HoldInv, Basics
<1>7. t' = [t EXCEPT ![x] = [Next1(x) EXCEPT !.conns = @ + (-1)]]
  <2>1. Next1(x).conns \in Int
    BY <1>2, NextOp
  <2>2. Next1(x).conns - 1 = Next1(x).conns + (-1)
    BY <2>1
  <2> QED BY <1>1, <2>2
<1> QED BY <1>1, <1>2, <1>4, <1>5, <1>6, <1>7, ConnsHold

\* A connection for a session of the handler, or for the load of the settings.
LEMMA ConnectHolds ==
  ASSUME IInv, HoldInv, NEW x \in Tasks, Connect(x)
  PROVE  HoldInv'
<1>1. /\ Wants(x) /\ sem' = sem /\ cacheLock' = cacheLock /\ fresh' = fresh
      /\ gate' = gate /\ joblock' = joblock /\ limit' = limit
      /\ t' = [t EXCEPT ![x] =
                 IF t[x].sub = "connect" THEN [t[x] EXCEPT !.conns = @ + 1, !.sub = "load"]
                 ELSE [Next1(x) EXCEPT !.conns = @ + 1]]
  BY DEF Connect
<1>2. CASE t[x].sub = "connect"
  <2> DEFINE n == [t[x] EXCEPT !.conns = @ + 1, !.sub = "load"]
  <2>1. t[x].todo # <<>> /\ cacheLock = x
    BY <1>2, AtOp
  <2>2. PICK p \in Plans(x) : \E k \in Nat :
          /\ AtPlace(x, p, k) /\ p.ops[k] = "config"
          /\ t[x].conns = p.conns[k] + (IF t[x].sub = "load" THEN 1 ELSE 0)
    BY <1>2, AtOp
  <2>3. PICK k \in Nat :
          /\ AtPlace(x, p, k) /\ p.ops[k] = "config"
          /\ t[x].conns = p.conns[k] + (IF t[x].sub = "load" THEN 1 ELSE 0)
    BY <2>2
  <2>4. /\ n \in Handler /\ n.todo = t[x].todo /\ n.locked = t[x].locked /\ n.lost = t[x].lost
        /\ n.sub = "load" /\ n.conns = t[x].conns + 1 /\ n.slot = t[x].slot
    <3>1. t[x] \in Handler
      BY DEF IInv, Typed
    <3>2. t[x].conns + 1 \in Int
      BY <3>1 DEF Handler
    <3> QED BY <3>1, <3>2 DEF Handler
  <2>5. t' = [t EXCEPT ![x] = n]
    BY <1>1, <1>2
  <2> HIDE DEF n
  <2>6. n.conns = p.conns[k] + (IF n.sub = "load" THEN 1 ELSE 0)
    <3>1. t[x].conns = p.conns[k] /\ p.conns[k] \in 0..2
      BY <1>2, <2>3 DEF AtPlace
    <3> QED BY <2>4, <3>1
  <2>7. n.slot <=> t[x].slot
    BY <2>4
  <2>8. SlotsHeld'
    BY <1>1, <2>4, <2>5, <2>7, SlotsCounted
  <2>9. OnPlan' /\ CacheHeld' /\ MineHeld' /\ Basics'
    BY <1>1, <2>1, <2>3, <2>4, <2>5, <2>6, Within
  <2> QED BY <2>8, <2>9 DEF HoldInv
<1>3. CASE t[x].sub # "connect"
  <2>1. At(x, "connect")
    BY <1>1, <1>3 DEF Wants
  <2>2. t[x].todo # <<>> /\ t[x].sub = "run" /\ cacheLock # x
    BY <2>1, AtOp
  <2>3. PICK p \in Plans(x) : \E k \in Nat :
          AtPlace(x, p, k) /\ p.ops[k] = "connect" /\ t[x].conns = p.conns[k]
    BY <2>1, AtOp
  <2>4. PICK k \in Nat : AtPlace(x, p, k) /\ p.ops[k] = "connect" /\ t[x].conns = p.conns[k]
    BY <2>3
  <2>5. p.conns[k + 1] = t[x].conns + 1
    BY <2>4 DEF AtPlace, Held
  <2>6. limit' \in {limit, NoOne} /\ fresh' \in BOOLEAN /\ (limit' = x => p.conns[k + 1] > 0)
    <3>1. p.conns[k] \in 0..2 /\ p.conns[k + 1] = p.conns[k] + 1
      BY <2>4, <2>5 DEF AtPlace
    <3> QED BY <1>1, <3>1 DEF HoldInv, Basics
  <2>7. t' = [t EXCEPT ![x] = [Next1(x) EXCEPT !.conns = @ + 1]]
    BY <1>1, <1>3
  <2> QED BY <1>1, <2>2, <2>4, <2>5, <2>6, <2>7, ConnsHold
<1> QED BY <1>2, <1>3

\* The settings are in the cache, or the handler waits for the lock of the cache.
LEMMA ReadConfigHolds ==
  ASSUME IInv, HoldInv, NEW x \in Tasks, ReadConfig(x)
  PROVE  HoldInv'
<1>1. /\ At(x, "config") /\ sem' = sem /\ cacheLock' = cacheLock /\ fresh' = fresh
      /\ gate' = gate /\ joblock' = joblock /\ limit' = limit
      /\ t' = [t EXCEPT ![x] = IF fresh THEN Next1(x) ELSE [t[x] EXCEPT !.sub = "wait"]]
  BY DEF ReadConfig
<1>2. t[x].todo # <<>> /\ t[x].sub = "run" /\ cacheLock # x
  BY <1>1, AtOp
<1>3. PICK p \in Plans(x) : \E k \in Nat :
        AtPlace(x, p, k) /\ p.ops[k] = "config" /\ t[x].conns = p.conns[k]
  BY <1>1, AtOp
<1>4. PICK k \in Nat : AtPlace(x, p, k) /\ p.ops[k] = "config" /\ t[x].conns = p.conns[k]
  BY <1>3
<1>5. CASE fresh
  <2>1. /\ gate' \in BOOLEAN /\ (gate' => gate \/ x = ResetJob)
        /\ x = ResetJob /\ gate' => k + 1 \in p.gates
    BY <1>1, <1>4, GateHeld
  <2>2. t' = [t EXCEPT ![x] = Next1(x)]
    BY <1>1, <1>5
  <2> QED BY <1>1, <1>2, <1>4, <2>1, <2>2, Passes
<1>6. CASE ~fresh
  <2> DEFINE n == [t[x] EXCEPT !.sub = "wait"]
  <2>1. /\ n \in Handler /\ n.todo = t[x].todo /\ n.locked = t[x].locked /\ n.lost = t[x].lost
        /\ n.sub = "wait" /\ n.conns = t[x].conns /\ n.slot = t[x].slot
    BY DEF IInv, Typed, Handler
  <2>2. t' = [t EXCEPT ![x] = n]
    BY <1>1, <1>6
  <2> HIDE DEF n
  <2>3. n.conns = p.conns[k] + (IF n.sub = "load" THEN 1 ELSE 0)
    BY <1>4, <2>1 DEF AtPlace
  <2>4. n.slot <=> t[x].slot
    BY <2>1
  <2>5. SlotsHeld'
    BY <1>1, <2>1, <2>2, <2>4, SlotsCounted
  <2>6. OnPlan' /\ CacheHeld' /\ MineHeld' /\ Basics'
    BY <1>1, <1>2, <1>4, <2>1, <2>2, <2>3, Within
  <2> QED BY <2>5, <2>6 DEF HoldInv
<1> QED BY <1>5, <1>6

\* Whoever gets the lock of the cache reads what another has loaded, or loads it.
LEMMA EnterCacheHolds ==
  ASSUME IInv, HoldInv, NEW x \in Tasks, EnterCache(x)
  PROVE  HoldInv'
<1>1. /\ t[x].sub = "wait" /\ cacheLock = NoOne /\ sem' = sem /\ fresh' = fresh
      /\ gate' = gate /\ joblock' = joblock /\ limit' = limit
      /\ cacheLock' = IF fresh THEN NoOne ELSE x
      /\ t' = [t EXCEPT ![x] = IF fresh THEN Next1(x) ELSE [t[x] EXCEPT !.sub = "connect"]]
  BY DEF EnterCache
<1>2. t[x].todo # <<>> /\ cacheLock # x
  BY <1>1, AtOp
<1>3. PICK p \in Plans(x) : \E k \in Nat :
        /\ AtPlace(x, p, k) /\ p.ops[k] = "config"
        /\ t[x].conns = p.conns[k] + (IF t[x].sub = "load" THEN 1 ELSE 0)
  BY <1>1, AtOp
<1>4. PICK k \in Nat :
        /\ AtPlace(x, p, k) /\ p.ops[k] = "config"
        /\ t[x].conns = p.conns[k] + (IF t[x].sub = "load" THEN 1 ELSE 0)
  BY <1>3
<1>5. CASE fresh
  <2>1. /\ gate' \in BOOLEAN /\ (gate' => gate \/ x = ResetJob)
        /\ x = ResetJob /\ gate' => k + 1 \in p.gates
    BY <1>1, <1>4, GateHeld
  <2>2. t' = [t EXCEPT ![x] = Next1(x)] /\ cacheLock' = cacheLock
    BY <1>1, <1>5
  <2> QED BY <1>1, <1>2, <1>4, <2>1, <2>2, Passes
<1>6. CASE ~fresh
  <2> DEFINE n == [t[x] EXCEPT !.sub = "connect"]
  <2>1. /\ n \in Handler /\ n.todo = t[x].todo /\ n.locked = t[x].locked /\ n.lost = t[x].lost
        /\ n.sub = "connect" /\ n.conns = t[x].conns /\ n.slot = t[x].slot
    BY DEF IInv, Typed, Handler
  <2>2. t' = [t EXCEPT ![x] = n]
    BY <1>1, <1>6
  <2> HIDE DEF n
  <2>3. n.conns = p.conns[k] + (IF n.sub = "load" THEN 1 ELSE 0)
    <3>1. p.conns[k] \in 0..2 /\ t[x].conns = p.conns[k]
      BY <1>1, <1>4 DEF AtPlace
    <3> QED BY <2>1, <3>1
  <2>4. n.slot <=> t[x].slot
    BY <2>1
  <2>5. SlotsHeld'
    BY <1>1, <2>1, <2>2, <2>4, SlotsCounted
  <2>6. cacheLock' = x
    BY <1>1, <1>6
  <2>7. OnPlan' /\ CacheHeld' /\ MineHeld' /\ Basics'
    BY <1>1, <1>2, <1>4, <2>1, <2>2, <2>3, <2>6, Within
  <2> QED BY <2>5, <2>7 DEF HoldInv
<1> QED BY <1>5, <1>6

\* The settings are in the cache, and the load's connection goes back.
LEMMA LoadConfigHolds ==
  ASSUME IInv, HoldInv, NEW x \in Tasks, LoadConfig(x)
  PROVE  HoldInv'
<1>1. /\ t[x].sub = "load" /\ sem' = sem /\ fresh' = TRUE
      /\ gate' = gate /\ joblock' = joblock /\ limit' = limit
      /\ cacheLock' = IF cacheLock = x THEN NoOne ELSE cacheLock
      /\ t' = [t EXCEPT ![x] = [Next1(x) EXCEPT !.conns = @ - 1]]
  BY DEF LoadConfig
<1>2. t[x].todo # <<>> /\ cacheLock = x
  BY <1>1, AtOp
<1>3. PICK p \in Plans(x) : \E k \in Nat :
        /\ AtPlace(x, p, k) /\ p.ops[k] = "config"
        /\ t[x].conns = p.conns[k] + (IF t[x].sub = "load" THEN 1 ELSE 0)
  BY <1>1, AtOp
<1>4. PICK k \in Nat :
        /\ AtPlace(x, p, k) /\ p.ops[k] = "config"
        /\ t[x].conns = p.conns[k] + (IF t[x].sub = "load" THEN 1 ELSE 0)
  BY <1>3
<1>5. p.conns[k + 1] = t[x].conns + (-1)
  <2>1. p.conns[k] \in 0..2 /\ t[x].conns = p.conns[k] + 1
    BY <1>1, <1>4 DEF AtPlace
  <2>2. p.conns[k + 1] = p.conns[k]
    BY <1>4 DEF AtPlace, Held
  <2> QED BY <2>1, <2>2
<1>6. limit' = x => p.conns[k + 1] > 0
  BY <1>1, <1>4 DEF AtPlace, Held, Fits
<1>7. t' = [t EXCEPT ![x] = [Next1(x) EXCEPT !.conns = @ + (-1)]]
  <2>1. Next1(x).conns \in Int
    BY <1>2, NextOp
  <2>2. Next1(x).conns - 1 = Next1(x).conns + (-1)
    BY <2>1
  <2> QED BY <1>1, <2>2
<1>8. cacheLock' = NoOne /\ x # NoOne
  BY <1>1, <1>2, RuntimeAssumption
<1> QED BY <1>1, <1>2, <1>4, <1>5, <1>6, <1>7, <1>8, ConnsHold

\* A job goes on with its lock, or ends.
LEMMA TryLockHolds ==
  ASSUME IInv, HoldInv, NEW x \in Jobs, TryLock(x)
  PROVE  HoldInv'
<1>1. /\ x \in Tasks /\ At(x, "trylock") /\ sem' = sem /\ cacheLock' = cacheLock /\ fresh' = fresh
      /\ gate' = gate /\ limit' = limit
  BY DEF TryLock, Tasks
<1>2. gate \in BOOLEAN /\ fresh \in BOOLEAN /\ limit \in Requests \cup {NoOne}
  BY DEF HoldInv, Basics
<1>3. t[x].todo # <<>> /\ t[x].sub = "run" /\ cacheLock # x
  BY <1>1, AtOp
<1>4. ~t[x].slot /\ limit # x /\ ~(x = ResetJob /\ gate) /\ joblock[x] # "mine"
  BY <1>1, Empty
<1>5. CASE joblock[x] = "free"
  <2> DEFINE n == [Next1(x) EXCEPT !.locked = TRUE]
  <2>1. t' = [t EXCEPT ![x] = n] /\ joblock' = [joblock EXCEPT ![x] = "mine"]
    BY <1>5 DEF TryLock
  <2>2. PICK p \in Plans(x) : \E k \in Nat :
          AtPlace(x, p, k) /\ p.ops[k] = "trylock" /\ t[x].conns = p.conns[k]
    BY <1>1, AtOp
  <2>3. PICK k \in Nat : AtPlace(x, p, k) /\ p.ops[k] = "trylock" /\ t[x].conns = p.conns[k]
    BY <2>2
  <2>4. /\ n \in Handler /\ n.locked /\ (n.lost <=> t[x].lost) /\ (n.slot <=> t[x].slot)
        /\ n.todo = Tail(t[x].todo) /\ n.sub = "run" /\ n.conns = t[x].conns
    <3>1. PICK m \in Handler : m = Next1(x)
      BY <1>1, <1>3, NextOp
    <3>2. m.lost = t[x].lost
      BY <1>1, <1>3, <3>1, NextOp
    <3>3. m.todo = Tail(t[x].todo) /\ m.sub = "run" /\ m.slot = t[x].slot /\ m.conns = t[x].conns
      BY <1>1, <3>1, NextFields
    <3> QED BY <3>1, <3>2, <3>3 DEF Handler
  <2>5. n.lost = t[x].lost
    <3>1. PICK m \in Handler : m = Next1(x)
      BY <1>1, <1>3, NextOp
    <3>2. m.lost = t[x].lost
      BY <1>1, <1>3, <3>1, NextOp
    <3> QED BY <3>1, <3>2 DEF Handler
  <2> HIDE DEF n
  <2>6. ~t[x].lost
    BY <2>3 DEF AtPlace, Held, Fits
  <2>7. p.conns[k + 1] = p.conns[k] /\ (n.slot <=> k + 1 \in p.slot)
    BY <1>4, <2>3, <2>4 DEF AtPlace, Held
  <2>8. /\ gate' \in BOOLEAN /\ (gate' => gate \/ x = ResetJob)
        /\ x = ResetJob /\ gate' => k + 1 \in p.gates
    BY <1>1, <1>2, <1>4
  <2>9. SlotsHeld'
    BY <1>1, <2>1, <2>4, SlotsCounted
  <2>10. OnPlan' /\ CacheHeld' /\ MineHeld' /\ Basics'
    BY <1>1, <1>2, <1>3, <1>4, <2>1, <2>3, <2>4, <2>5, <2>6, <2>7, <2>8, Forward
  <2> QED BY <2>9, <2>10 DEF HoldInv
<1>6. CASE joblock[x] # "free"
  <2>1. t' = [t EXCEPT ![x] = Idle] /\ joblock' = joblock
    BY <1>6 DEF TryLock
  <2> QED BY <1>1, <1>2, <1>3, <1>4, <2>1, Ends
<1> QED BY <1>5, <1>6

\* The way out gives everything back.
LEMMA UnwindHolds ==
  ASSUME IInv, HoldInv, NEW x \in Tasks, Unwind(x)
  PROVE  HoldInv'
<1>1. /\ t' = [t EXCEPT ![x] = Idle] /\ sem' = IF t[x].slot THEN sem + 1 ELSE sem
      /\ cacheLock' = IF cacheLock = x THEN NoOne ELSE cacheLock
      /\ limit' = IF limit = x THEN NoOne ELSE limit
      /\ fresh' = fresh
  BY DEF Unwind
<1>2. NoOne \notin Tasks /\ gate \in BOOLEAN
  BY RuntimeAssumption DEF HoldInv, Basics
<1>3. gate' \in BOOLEAN /\ (gate' => gate) /\ ~(x = ResetJob /\ gate')
  <2>1. gate' = IF x = ResetJob THEN FALSE ELSE gate
    BY DEF Unwind
  <2> QED BY <1>2, <2>1
<1>4. \A j \in Jobs : IF j = x THEN joblock'[j] # "mine" ELSE joblock'[j] = joblock[j]
  <2>1. joblock' = IF t[x].locked /\ ~t[x].lost
                   THEN [joblock EXCEPT ![x] = "free"] ELSE joblock
    BY DEF Unwind
  <2>2. CASE t[x].locked /\ ~t[x].lost
    BY <2>1, <2>2 DEF IInv, Typed
  <2>3. CASE ~(t[x].locked /\ ~t[x].lost)
    BY <2>1, <2>3 DEF HoldInv, MineHeld
  <2> QED BY <2>2, <2>3
<1> QED BY <1>1, <1>2, <1>3, <1>4, Ends

\* A handler starts with nothing, at the first place of a plan of its script.
LEMMA StartHolds ==
  ASSUME IInv, HoldInv, NEW x \in Tasks, Start(x)
  PROVE  HoldInv'
<1>1. /\ t[x].todo = <<>> /\ sem' = sem /\ cacheLock' = cacheLock /\ fresh' = fresh /\ limit' = limit
      /\ gate' = gate /\ joblock' = joblock
  BY DEF Start
<1>2. PICK s \in Scripts(x) : t' = [t EXCEPT ![x].todo = s]
  BY DEF Start
<1>3. PICK p \in Plans(x) : p.ops = s /\ WellPlanned(p) /\ OwnKind(x, p)
  BY Planned
<1>4. t[x].conns = 0 /\ ~t[x].slot /\ limit # x /\ t[x].sub = "run" /\ ~(x = ResetJob /\ gate)
  BY <1>1, Finished
<1>5. ~t[x].locked /\ ~t[x].lost
  BY <1>1, Finished
<1> DEFINE n == [t[x] EXCEPT !.todo = s]
<1>6. /\ n \in Handler /\ n.todo = s /\ n.sub = "run" /\ n.conns = 0
      /\ ~n.slot /\ ~n.locked /\ ~n.lost
  <2>1. s \in Seq(Ops)
    BY ScriptsTyped
  <2> QED BY <1>4, <1>5, <2>1 DEF IInv, Typed, Handler
<1>7. t' = [t EXCEPT ![x] = n]
  BY <1>2
<1> HIDE DEF n
<1>8. \A y \in Tasks : IF y = x THEN t'[y] = n ELSE t'[y] = t[y]
  BY <1>7 DEF IInv, Typed
<1>9. PICK k : k = 1
  OBVIOUS
<1>10. k \in 1..(Len(p.ops) + 1) /\ SubSeq(p.ops, k, Len(p.ops)) = s
  <2>1. s \in Seq(Ops) /\ Len(s) \in Nat
    BY ScriptsTyped, LenProperties
  <2>2. SubSeq(s, 1, Len(s)) = s
    BY <2>1
  <2> QED BY <1>3, <1>9, <2>1, <2>2
<1>11. p.conns[k] = 0 /\ k \notin p.slot /\ k \notin p.gates
  BY <1>3, <1>9 DEF WellPlanned
<1>12. Fits(x, p, k)'
  <2>1. t'[x] = n
    BY <1>8
  <2> QED BY <1>1, <1>4, <1>6, <1>10, <1>11, <2>1 DEF Fits
<1>13. OnPlan'
  BY <1>1, <1>6, <1>7, <1>10, <1>12, Arrived
<1>14. SlotsHeld'
  BY <1>1, <1>4, <1>6, <1>7, SlotsCounted
<1>15. CacheHeld'
  BY <1>1, <1>4, <1>6, <1>8 DEF HoldInv, CacheHeld
<1>16. MineHeld'
  BY <1>1, <1>8 DEF HoldInv, MineHeld, Tasks
<1>17. Basics'
  BY <1>1 DEF HoldInv, Basics
<1> QED BY <1>13, <1>14, <1>15, <1>16, <1>17 DEF HoldInv

\* The database drops the connection, and with it the lock, of a job at work.
LEMMA LoseLockHolds ==
  ASSUME IInv, HoldInv, NEW x \in Jobs, LoseLock(x)
  PROVE  HoldInv'
<1>1. /\ t[x].locked /\ ~t[x].lost /\ sem' = sem /\ cacheLock' = cacheLock /\ fresh' = fresh
      /\ gate' = gate /\ limit' = limit /\ joblock' = [joblock EXCEPT ![x] = "free"]
      /\ t' = [t EXCEPT ![x].lost = TRUE] /\ x \in Tasks
  BY DEF LoseLock, Tasks
<1> DEFINE n == [t[x] EXCEPT !.lost = TRUE]
<1>2. /\ n \in Handler /\ n.todo = t[x].todo /\ n.sub = t[x].sub /\ n.conns = t[x].conns
      /\ (n.slot <=> t[x].slot) /\ n.locked
  BY <1>1 DEF IInv, Typed, Handler
<1>3. t' = [t EXCEPT ![x] = n]
  BY <1>1
<1> HIDE DEF n
<1>4. \A y \in Tasks : IF y = x THEN t'[y] = n ELSE t'[y] = t[y]
  BY <1>3 DEF IInv, Typed
<1>5. PICK p \in Plans(x) : \E k \in 1..(Len(p.ops) + 1) : Fits(x, p, k)
  BY <1>1 DEF HoldInv, OnPlan
<1>6. PICK k \in 1..(Len(p.ops) + 1) : Fits(x, p, k)
  BY <1>5
<1>7. Fits(x, p, k)'
  BY <1>1, <1>2, <1>4, <1>6 DEF Fits
<1>8. OnPlan'
  BY <1>1, <1>2, <1>3, <1>7, Arrived
<1>9. SlotsHeld'
  BY <1>1, <1>2, <1>3, SlotsCounted
<1>10. CacheHeld'
  BY <1>1, <1>2, <1>4 DEF HoldInv, CacheHeld
<1>11. MineHeld'
  <2>1. \A j \in Jobs : IF j = x THEN joblock'[j] = "free" ELSE joblock'[j] = joblock[j]
    BY <1>1 DEF IInv, Typed
  <2> QED BY <1>4, <2>1 DEF HoldInv, MineHeld, Tasks
<1>12. Basics'
  BY <1>1 DEF HoldInv, Basics
<1> QED BY <1>8, <1>9, <1>10, <1>11, <1>12 DEF HoldInv

\* What the handlers hold is none of the other instance's business, nor the clock's.
LEMMA OtherHolds ==
  ASSUME IInv, HoldInv, UNCHANGED <<t, sem, cacheLock, limit, gate>>, fresh' \in BOOLEAN,
         \A j \in Jobs : joblock'[j] = "mine" => joblock[j] = "mine"
  PROVE  HoldInv'
<1>1. t' = t /\ sem' = sem /\ cacheLock' = cacheLock /\ limit' = limit /\ gate' = gate
  OBVIOUS
<1>2. OnPlan'
  <2> SUFFICES ASSUME NEW x \in Tasks
               PROVE  \E p \in Plans(x) : \E k \in 1..(Len(p.ops) + 1) : Fits(x, p, k)'
    BY DEF OnPlan
  <2>1. PICK p \in Plans(x) : \E k \in 1..(Len(p.ops) + 1) : Fits(x, p, k)
    BY DEF HoldInv, OnPlan
  <2>2. PICK k \in 1..(Len(p.ops) + 1) : Fits(x, p, k)
    BY <2>1
  <2>3. Fits(x, p, k)'
    BY <1>1, <2>2 DEF Fits
  <2> QED BY <2>3
<1>3. SlotsHeld' /\ CacheHeld' /\ MineHeld' /\ Basics'
  BY <1>1 DEF HoldInv, SlotsHeld, Holders, CacheHeld, MineHeld, Basics
<1> QED BY <1>2, <1>3 DEF HoldInv

\* Nobody works, and nobody holds anything: at the start and after a crash.
LEMMA AtRest ==
  ASSUME t = [x \in Tasks |-> Idle], sem = Slots, cacheLock = NoOne, fresh = FALSE, limit = NoOne,
         gate = FALSE, \A j \in Jobs : joblock[j] # "mine"
  PROVE  HoldInv
<1>1. \A x \in Tasks : t[x] = Idle
  OBVIOUS
<1>2. NoOne \notin Tasks /\ Slots \in Nat
  BY RuntimeAssumption
<1>3. OnPlan
  <2> SUFFICES ASSUME NEW x \in Tasks
               PROVE  \E p \in Plans(x) : \E k \in 1..(Len(p.ops) + 1) : Fits(x, p, k)
    BY DEF OnPlan
  <2>1. PICK p \in Plans(x) : WellPlanned(p)
    <3>1. Scripts(x) # {}
      <4>1. CASE x \in Requests
        BY <4>1, RuntimeAssumption DEF Scripts, Jobs
      <4>2. CASE x = ResetJob
        BY <4>2, RuntimeAssumption DEF Scripts, Jobs
      <4>3. CASE x \in OtherJobs
        BY <4>3, RuntimeAssumption DEF Scripts, Jobs
      <4> QED BY <4>1, <4>2, <4>3 DEF Tasks, Jobs
    <3> QED BY <3>1, Planned
  <2>2. PICK k : k = Len(p.ops) + 1
    OBVIOUS
  <2>3. p.ops \in Seq(Ops) /\ Len(p.ops) \in Nat
    BY <2>1, LenProperties DEF WellPlanned
  <2>4. k \in 1..(Len(p.ops) + 1) /\ SubSeq(p.ops, k, Len(p.ops)) = <<>>
    BY <2>2, <2>3, Place
  <2>5. p.conns[k] = 0 /\ k \notin p.slot /\ k \notin p.gates
    BY <2>1, <2>2 DEF WellPlanned
  <2>6. Fits(x, p, k)
    <3>1. t[x].todo = <<>> /\ t[x].sub = "run" /\ t[x].conns = 0 /\ ~t[x].slot
          /\ ~t[x].locked /\ ~t[x].lost
      BY <1>1 DEF Idle
    <3> QED BY <1>2, <2>4, <2>5, <3>1 DEF Fits
  <2> QED BY <2>4, <2>6
<1>4. SlotsHeld
  <2>1. Holders = {}
    BY <1>1 DEF Holders, Idle
  <2>2. Cardinality({}) = 0
    BY FS_EmptySet
  <2> QED BY <1>2, <2>1, <2>2 DEF SlotsHeld
<1>5. CacheHeld
  BY <1>1, <1>2, IdleHandler DEF CacheHeld
<1>6. MineHeld /\ Basics
  BY DEF MineHeld, Basics
<1> QED BY <1>3, <1>4, <1>5, <1>6 DEF HoldInv

\* Every step keeps what handlers hold at their places.
LEMMA HoldStep == IInv /\ HoldInv /\ [Next]_vars => HoldInv'
<1> SUFFICES ASSUME IInv, HoldInv, [Next]_vars PROVE HoldInv'
  OBVIOUS
<1>0. fresh \in BOOLEAN
  BY DEF HoldInv, Basics
<1>1. CASE Crash
  <2>1. \A j \in Jobs : joblock'[j] # "mine"
    <3>1. joblock' = [j \in Jobs |-> IF joblock[j] = "mine" THEN "free" ELSE joblock[j]]
      BY <1>1 DEF Crash
    <3> QED BY <3>1
  <2>2. /\ t' = [x \in Tasks |-> Idle] /\ sem' = Slots /\ cacheLock' = NoOne /\ fresh' = FALSE
        /\ limit' = NoOne /\ gate' = FALSE
    BY <1>1 DEF Crash
  <2>3. ((/\ t = [x \in Tasks |-> Idle] /\ sem = Slots /\ cacheLock = NoOne /\ fresh = FALSE
          /\ limit = NoOne /\ gate = FALSE /\ \A j \in Jobs : joblock[j] # "mine")
         => HoldInv)'
    BY AtRest, PTL
  <2> QED BY <2>1, <2>2, <2>3
<1>2. CASE Expire
  BY <1>2, OtherHolds DEF Expire
<1>3. CASE UNCHANGED vars
  BY <1>0, <1>3, OtherHolds DEF vars
<1>4. ASSUME NEW x \in Tasks, Start(x) \/ Continue(x) \/ Fails(x)
      PROVE  HoldInv'
  <2>1. CASE Start(x)
    BY <2>1, StartHolds
  <2>2. CASE Fails(x) \/ PoolTimeout(x) \/ (x \in Jobs /\ Unlock(x))
    BY <2>2, UnwindHolds DEF Fails, PoolTimeout, Unlock
  <2>3. CASE CheckGate(x) \/ Busy(x)
    <3>1. CASE CheckGate(x)
      BY <3>1, CheckGateHolds
    <3>2. CASE Busy(x)
      BY <3>2, BusyHolds
    <3> QED BY <2>3, <3>1, <3>2
  <2>4. CASE AcquireSlot(x) \/ ReleaseSlot(x) \/ Connect(x) \/ CloseSession(x)
    BY <2>4, SlotHolds, ConnectHolds, CloseHolds
  <2>5. CASE LockLimit(x) \/ ShutGate(x) \/ OpenGate(x)
    BY <2>5, LockLimitHolds, GateHolds
  <2>6. CASE ReadConfig(x) \/ EnterCache(x) \/ LoadConfig(x)
    BY <2>6, ReadConfigHolds, EnterCacheHolds, LoadConfigHolds
  <2>7. CASE x \in Jobs /\ TryLock(x)
    BY <2>7, TryLockHolds
  <2> QED BY <1>4, <2>1, <2>2, <2>3, <2>4, <2>5, <2>6, <2>7 DEF Continue
<1>5. ASSUME NEW j \in Jobs, LoseLock(j) \/ OtherStarts(j) \/ OtherEnds(j)
      PROVE  HoldInv'
  <2>1. CASE LoseLock(j)
    BY <2>1, LoseLockHolds
  <2>2. CASE OtherStarts(j) \/ OtherEnds(j)
    <3>1. \A i \in Jobs : joblock'[i] = "mine" => joblock[i] = "mine"
      BY <2>2 DEF OtherStarts, OtherEnds, IInv, Typed
    <3> QED BY <1>0, <2>2, <3>1, OtherHolds DEF OtherStarts, OtherEnds
  <2> QED BY <1>5, <2>1, <2>2
<1> QED BY <1>1, <1>2, <1>3, <1>4, <1>5 DEF Next

\* The start of the program.
LEMMA HoldFirst == Init => HoldInv
BY AtRest DEF Init

\* Both invariants together.
LEMMA Holding == Spec => [](IInv /\ HoldInv)
BY First, Step, HoldFirst, HoldStep, PTL DEF Spec

\* Whatever ends a handler or a job - its last line, an exception, a refusal, a
\* crash - leaves no slot, no connection, no lock and no shut gate behind; and the
\* gate is shut only while the reset still has to open it.
THEOREM NothingStays == Spec => []NothingLeaks
<1>1. ASSUME IInv, HoldInv PROVE NothingLeaks
  <2>1. sem = Slots - Cardinality({x \in Tasks : t[x].slot})
    BY <1>1 DEF HoldInv, SlotsHeld, Holders
  <2>2. ASSUME NEW x \in Tasks, t[x].todo = <<>>
        PROVE  t[x].conns = 0 /\ ~t[x].slot /\ cacheLock # x /\ limit # x
    <3>1. t[x].conns = 0 /\ ~t[x].slot /\ limit # x /\ t[x].sub = "run"
      BY <1>1, <2>2, Finished
    <3> QED BY <1>1, <3>1 DEF HoldInv, CacheHeld
  <2>3. \A j \in Jobs : joblock[j] = "mine" => t[j].todo # <<>>
    BY <1>1 DEF HoldInv, MineHeld
  <2>4. ASSUME gate
        PROVE  \E i \in DOMAIN t[ResetJob].todo : t[ResetJob].todo[i] = "open"
    <3>1. ResetJob \in Tasks
      BY DEF Tasks, Jobs
    <3>2. t[ResetJob].todo # <<>>
      BY <1>1, <2>4, <3>1, Finished
    <3>3. PICK p \in Plans(ResetJob) : \E k \in Nat : AtPlace(ResetJob, p, k)
      BY <1>1, <3>1, <3>2, UnderWay
    <3>4. PICK k \in Nat : AtPlace(ResetJob, p, k)
      BY <3>3
    <3>5. PICK ops \in Seq(Ops) : ops = p.ops
      BY <3>4 DEF AtPlace, WellPlanned
    <3>6. PICK m \in k..Len(ops) : ops[m] = "open"
      BY <2>4, <3>4, <3>5 DEF AtPlace, Fits, Held
    <3>7. PICK todo : todo = t[ResetJob].todo /\ todo = SubSeq(ops, k, Len(ops))
      BY <3>4, <3>5 DEF AtPlace, Fits
    <3>8. k \in 1..(Len(ops) + 1)
      BY <3>4, <3>5 DEF AtPlace
    <3>9. m - k + 1 \in DOMAIN todo /\ todo[m - k + 1] = ops[m]
      BY <3>7, <3>8, Place
    <3> QED BY <3>6, <3>7, <3>9
  <2> QED BY <2>1, <2>2, <2>3, <2>4 DEF NothingLeaks
<1> QED BY <1>1, Holding, PTL

-----------------------------------------------------------------------------
(* Connections *)

\* What the pool is sized for: a connection for every slot, and two for every job.
Sized == ((Holders \cap Requests) \X (1..1)) \cup (Jobs \X (1..2))

\* The connections in use.
Used == {p \in Tasks \X (1..3) : p[2] <= t[p[1]].conns}

\* How many connections that is.
LEMMA SizedCounted ==
  ASSUME HoldInv
  PROVE  /\ IsFiniteSet(Sized) /\ IsFiniteSet(Jobs) /\ Cardinality(Jobs) \in Nat
         /\ Cardinality(Sized) \in Nat /\ Cardinality(Sized) <= Slots + 2 * Cardinality(Jobs)
<1> DEFINE A == Holders \cap Requests
<1>1. IsFiniteSet(Tasks) /\ Slots \in Nat
  BY RuntimeAssumption
<1>2. IsFiniteSet(Holders) /\ Cardinality(Holders) \in Nat
  BY <1>1, FS_Subset, FS_CardinalityType DEF Holders
<1>3. IsFiniteSet(A) /\ Cardinality(A) \in Nat /\ Cardinality(A) <= Cardinality(Holders)
  BY <1>2, FS_Subset, FS_CardinalityType
<1>4. IsFiniteSet(Jobs) /\ Cardinality(Jobs) \in Nat
  BY <1>1, FS_Subset, FS_CardinalityType DEF Tasks
<1>5. Cardinality(Holders) <= Slots
  BY <1>1, <1>2 DEF HoldInv, SlotsHeld
<1>6. IsFiniteSet(1..1) /\ Cardinality(1..1) = 1 /\ IsFiniteSet(1..2) /\ Cardinality(1..2) = 2
  <2>1. \A n \in 1..2 : IsFiniteSet(1..n) /\ Cardinality(1..n) = IF 1 > n THEN 0 ELSE n - 1 + 1
    BY FS_Interval
  <2> QED BY <2>1
<1>7. IsFiniteSet(A \X (1..1)) /\ Cardinality(A \X (1..1)) = Cardinality(A)
  <2>1. Cardinality(A) * 1 = Cardinality(A)
    BY <1>3
  <2> HIDE DEF A
  <2> QED BY <1>3, <1>6, <2>1, FS_Product
<1>8. IsFiniteSet(Jobs \X (1..2)) /\ Cardinality(Jobs \X (1..2)) = 2 * Cardinality(Jobs)
  <2>1. Cardinality(Jobs) * 2 = 2 * Cardinality(Jobs)
    BY <1>4
  <2> QED BY <1>4, <1>6, <2>1, FS_Product
<1> HIDE DEF A
<1>9. PICK V, W : V = A \X (1..1) /\ W = Jobs \X (1..2)
  OBVIOUS
<1>10. /\ IsFiniteSet(V \cup W)
       /\ Cardinality(V \cup W) = Cardinality(V) + Cardinality(W) - Cardinality(V \cap W)
  BY <1>7, <1>8, <1>9, FS_Union
<1>11. Cardinality(V \cap W) \in Nat /\ Cardinality(V \cup W) \in Nat
  BY <1>7, <1>9, <1>10, FS_Subset, FS_CardinalityType
<1>12. Cardinality(V \cup W) <= Slots + 2 * Cardinality(Jobs)
  BY <1>1, <1>2, <1>3, <1>4, <1>5, <1>7, <1>8, <1>9, <1>10, <1>11
<1>13. Sized = V \cup W
  BY <1>9 DEF Sized, A
<1> QED BY <1>4, <1>10, <1>11, <1>12, <1>13

\* A handler holds what its plan says, and one more while it loads the settings.
LEMMA Conns ==
  ASSUME IInv, HoldInv, NEW x \in Tasks
  PROVE  /\ t[x].sub # "load" => /\ t[x].conns \in 0..2
                                 /\ x \in Requests => t[x].conns <= 1
         /\ t[x].sub = "load" => /\ cacheLock = x /\ t[x].conns \in 0..3
                                 /\ x \in Requests => t[x].conns <= 2
         /\ At(x, "connect") => /\ t[x].conns <= 1 /\ t[x].sub = "run"
                                /\ x \in Requests => t[x].conns = 0
<1>1. t[x].sub = "load" => cacheLock = x
  BY DEF HoldInv, CacheHeld
<1>2. CASE t[x].todo = <<>>
  <2>1. t[x].conns = 0 /\ t[x].sub = "run"
    BY <1>2, Finished
  <2> QED BY <1>2, <2>1 DEF At, Op
<1>3. CASE t[x].todo # <<>>
  <2>1. PICK p \in Plans(x) : \E k \in Nat : AtPlace(x, p, k)
    BY <1>3, UnderWay
  <2>2. PICK k \in Nat : AtPlace(x, p, k)
    BY <2>1
  <2>3. p.conns[k] \in 0..2 /\ p.conns[k + 1] \in 0..2
        /\ t[x].conns = p.conns[k] + (IF t[x].sub = "load" THEN 1 ELSE 0)
    BY <2>2 DEF AtPlace, Fits
  <2>4. x \in Requests => p.conns[k] <= 1
    BY <2>2 DEF AtPlace, OwnKind
  <2>5. ASSUME At(x, "connect")
        PROVE  /\ t[x].conns <= 1 /\ t[x].sub = "run"
               /\ x \in Requests => t[x].conns = 0
    <3>1. t[x].sub = "run" /\ p.ops[k] = "connect"
      BY <2>2, <2>5 DEF At, Op, AtPlace
    <3>2. p.conns[k + 1] = p.conns[k] + 1 /\ t[x].conns = p.conns[k]
      BY <2>2, <2>3, <3>1 DEF AtPlace, Held
    <3>3. k + 1 # Len(p.ops) + 1
      BY <2>2, <2>3, <3>2 DEF AtPlace, WellPlanned
    <3>4. k + 1 \in 1..Len(p.ops)
      BY <2>2, <3>3 DEF AtPlace
    <3>5. x \in Requests => p.conns[k + 1] <= 1
      BY <2>2, <3>4 DEF AtPlace, OwnKind
    <3> QED BY <2>3, <3>1, <3>2, <3>5
  <2> QED BY <1>1, <2>3, <2>4, <2>5
<1> QED BY <1>2, <1>3

\* With a connection for every slot, two for every job and one for the cache, a
\* handler that holds a slot and a job never wait for the pool, as long as every
\* member's handler with a connection holds a slot.
THEOREM PoolIsEnough == Spec => []PoolSuffices
<1>1. ASSUME IInv, HoldInv, Pool >= Slots + 2 * Cardinality(Jobs) + 1,
             \A y \in Requests : t[y].conns > 0 => t[y].slot,
             NEW x \in Tasks, Wants(x), x \in Jobs \/ t[x].slot
      PROVE  InUse < Pool
  <2>1. IsFiniteSet(Sized) /\ Cardinality(Sized) \in Nat /\ Cardinality(Jobs) \in Nat
        /\ Cardinality(Sized) <= Slots + 2 * Cardinality(Jobs)
    BY <1>1, SizedCounted
  <2>2. Pool \in Nat /\ Slots \in Nat /\ NoOne \notin Tasks /\ Requests \cap Jobs = {}
    BY RuntimeAssumption
  <2>3. \A y \in Tasks : t[y].conns \in Int
    BY <1>1 DEF IInv, Typed, Handler
  <2>4. PICK e : e = <<cacheLock, t[cacheLock].conns>>
    OBVIOUS
  \* Only the loader of the settings holds more than the pool is sized for.
  <2>5. ASSUME NEW y \in Tasks, NEW i \in 1..3, i <= t[y].conns, <<y, i>> \notin Sized
        PROVE  t[y].sub = "load" /\ <<y, i>> = e
    <3>1. y \in Requests => y \in Holders
      <4>1. t[y].conns > 0
        BY <2>3, <2>5
      <4> QED BY <1>1, <4>1 DEF Holders
    <3>2. y \in Requests => i # 1
      BY <2>5, <3>1 DEF Sized
    <3>3. y \in Jobs => i = 3
      BY <2>5 DEF Sized
    <3>4. y \in Requests \/ y \in Jobs
      BY DEF Tasks
    <3>5. t[y].sub = "load"
      BY <1>1, <2>5, <3>2, <3>3, <3>4, Conns
    <3>6. cacheLock = y /\ t[y].conns \in 0..3 /\ (y \in Requests => t[y].conns <= 2)
      BY <1>1, <3>5, Conns
    <3>7. i = t[y].conns
      BY <2>5, <3>2, <3>3, <3>4, <3>6
    <3> QED BY <2>4, <3>5, <3>6, <3>7
  <2>6. \A p \in Used : \E y \in Tasks : \E i \in 1..3 : p = <<y, i>> /\ i <= t[y].conns
    BY DEF Used
  <2>7. CASE t[x].sub = "connect"
    <3>1. \A y \in Tasks : t[y].sub # "load"
      <4>1. cacheLock = x
        BY <1>1, <2>7 DEF HoldInv, CacheHeld
      <4> QED BY <1>1, <2>7, <4>1 DEF HoldInv, CacheHeld
    <3>2. Used \subseteq Sized
      BY <2>5, <2>6, <3>1
    <3>3. IsFiniteSet(Used) /\ Cardinality(Used) \in Nat /\ Cardinality(Used) <= Cardinality(Sized)
      BY <2>1, <3>2, FS_Subset, FS_CardinalityType
    <3>4. Cardinality(Used) < Pool
      BY <1>1, <2>1, <2>2, <3>3
    <3> QED BY <3>4 DEF InUse, Used
  <2>8. CASE t[x].sub # "connect"
    <3>1. At(x, "connect")
      BY <1>1, <2>8 DEF Wants
    <3>2. t[x].conns <= 1 /\ t[x].sub = "run" /\ (x \in Requests => t[x].conns = 0)
          /\ t[x].conns \in 0..2
      BY <1>1, <3>1, Conns
    <3>3. PICK c : c = t[x].conns + 1 /\ c \in 1..2 /\ (x \in Requests => c = 1) /\ ~(c <= t[x].conns)
      BY <3>2
    <3>4. PICK w : w = <<x, c>>
      OBVIOUS
    <3>5. w \in Sized
      BY <1>1, <3>3, <3>4 DEF Sized, Holders, Tasks
    <3>6. w \notin Used
      BY <3>3, <3>4 DEF Used
    <3>7. Used \subseteq (Sized \ {w}) \cup {e}
      <4> SUFFICES ASSUME NEW p \in Used, p \notin Sized PROVE p = e
        BY <3>6
      <4>1. PICK y \in Tasks : \E i \in 1..3 : p = <<y, i>> /\ i <= t[y].conns
        BY <2>6
      <4>2. PICK i \in 1..3 : p = <<y, i>> /\ i <= t[y].conns
        BY <4>1
      <4> QED BY <2>5, <4>2
    <3>8. /\ IsFiniteSet(Sized \ {w}) /\ Cardinality(Sized \ {w}) = Cardinality(Sized) - 1
      BY <2>1, <3>5, FS_RemoveElement
    <3>9. PICK R : R = Sized \ {w}
      OBVIOUS
    <3>10. /\ IsFiniteSet(R \cup {e})
           /\ Cardinality(R \cup {e}) \in Nat
           /\ Cardinality(R \cup {e}) = IF e \in R THEN Cardinality(R) ELSE Cardinality(R) + 1
      BY <3>8, <3>9, FS_AddElement, FS_CardinalityType
    <3>11. Cardinality(R \cup {e}) <= Cardinality(Sized)
      BY <2>1, <3>8, <3>9, <3>10
    <3>12. Cardinality(Used) \in Nat /\ Cardinality(Used) <= Cardinality(R \cup {e})
      BY <3>7, <3>9, <3>10, FS_Subset, FS_CardinalityType
    <3>13. Cardinality(Used) < Pool
      BY <1>1, <2>1, <2>2, <3>10, <3>11, <3>12
    <3> QED BY <3>13 DEF InUse, Used
  <2> QED BY <2>7, <2>8
<1>2. ASSUME IInv, HoldInv PROVE PoolSuffices
  BY <1>1, <1>2 DEF PoolSuffices
<1> QED BY <1>2, Holding, PTL
=============================================================================
