--------------------------- MODULE Members_proofs ---------------------------
(***************************************************************************)
(* For any accounts, usernames, handlers and requests: nobody comes by     *)
(* access that no admin meant them to have, and members are told and       *)
(* kicked only after the COMMIT that says so, unless another request has   *)
(* overtaken the one that does it.                                         *)
(***************************************************************************)
EXTENDS Members, TLAPS

Ops    == {"none", "start", "allow", "unban", "ban", "delete", "appoint",
           "revoke", "revert", "add", "form", "bulk", "lift"}
Stages == {"idle", "lookup", "bind", "create", "finish", "fill", "write",
           "grant", "insert", "bulk", "lift", "check", "kick", "dm"}

Row  == [tg : Accounts \cup {NoAccount}, name : Names \cup {NoName},
         full : FullNames \cup {NoName}, allowed : BOOLEAN, banned : BOOLEAN]
Task == [op : Ops, at : Stages, acc : Accounts \cup {NoAccount},
         name : Names \cup {NoName}, full : FullNames \cup {NoName},
         id : 0..MaxRows, seen : Row, ids : SUBSET Ids,
         todo : SUBSET Accounts, overtaken : BOOLEAN]

\* The stages of a /start.
StartStages == {"lookup", "bind", "create", "finish", "fill"}

Typed ==
  /\ rows \in [Ids -> Row]
  /\ nextId \in Nat \ {0}
  /\ uname \in [Accounts -> Names \cup {NoName}]
  /\ had \in [Accounts -> SUBSET (Names \cup {NoName})]
  /\ told \in [Accounts -> SUBSET FullNames]
  /\ task \in [Handlers -> Task]

\* Ids from the sequence's next one on have no row.
Fresh == \A i \in Ids : i >= nextId => rows[i] = NoRow

\* Telegram gives a username to one account at a time.
Usernames ==
  /\ \A a \in Accounts : uname[a] \in had[a]
  /\ \A a, b \in Accounts : uname[a] = uname[b] /\ uname[a] # NoName => a = b

\* An admin has meant account a, or a username it has had.
Entitled(a) == ({a} \cup had[a]) \cap granted # {}

\* The username of a placeholder was granted. The row of an account has access
\* only where the account is entitled to it; and where it is not, the row has
\* a username and a full name that are the account's own.
Sound(row) ==
  IF row.tg = NoAccount THEN row.name \in granted
  ELSE /\ row.allowed => Entitled(row.tg)
       /\ row.name \in had[row.tg] \cup {NoName} \/ Entitled(row.tg)
       /\ row.full \in told[row.tg] \cup {NoName} \/ Entitled(row.tg)

RowGranted(i) == rows[i] # NoRow => Sound(rows[i])

\* What has become of the row in hand: it is gone, or it still is its
\* account's. A placeholder has kept its username until an account that has
\* had that username came for it.
SeenKnown(t) ==
  t.id \in Ids =>
    /\ t.id < nextId /\ Sound(t.seen)
    /\ \/ rows[t.id] = NoRow
       \/ rows[t.id].tg = t.seen.tg
          /\ (t.seen.tg = NoAccount => rows[t.id].name = t.seen.name)
       \/ /\ t.seen.tg = NoAccount
          /\ rows[t.id].tg \in Accounts
          /\ t.seen.name \in had[rows[t.id].tg]

\* A /start carries a username its account has had, and no other account has
\* got since. The placeholder it is about to bind is nobody else's.
StartKnown(t) ==
  /\ t.at \in StartStages =>
       /\ t.op = "start" /\ t.acc \in Accounts /\ t.name \in had[t.acc]
       /\ \A b \in Accounts : uname[b] = t.name /\ t.name # NoName => b = t.acc
  /\ t.at = "bind" =>
       /\ t.id \in Ids /\ t.seen.tg = NoAccount
       /\ t.seen.name = t.name /\ t.name # NoName
       /\ rows[t.id] = NoRow \/ rows[t.id].tg \in {NoAccount, t.acc}
  /\ t.at \in {"finish", "fill"} => t.id \in Ids /\ t.seen.tg = t.acc

\* Commands hold a row, and a grant that of an account: it was found by the
\* username or by the full name of the command.
HoldsRow(t) ==
  /\ t.at \in {"write", "grant"} => t.id \in Ids
  /\ t.at = "write" /\ t.op = "allow" => t.seen.name = t.name /\ t.name \in Names
  /\ t.at = "grant" =>
       /\ t.seen.tg # NoAccount /\ t.name \in Names /\ t.op \in {"add", "form"}
       /\ t.seen.name = t.name \/ (t.seen.full = t.full /\ t.full # NoName)

TaskKnown(t) == SeenKnown(t) /\ StartKnown(t) /\ HoldsRow(t)

\* Two /start that carry one username are of one account.
OneCarrier ==
  \A p, q \in Handlers :
    /\ task[p].at \in StartStages /\ task[q].at \in StartStages
    /\ task[p].name = task[q].name /\ task[p].name # NoName
    => task[p].acc = task[q].acc

RowsGranted == \A i \in Ids : RowGranted(i)
TasksKnown  == \A p \in Handlers : TaskKnown(task[p])

IInv ==
  /\ Typed /\ Fresh /\ Usernames /\ RowsGranted /\ TasksKnown /\ OneCarrier

-----------------------------------------------------------------------------
(* Rows and tasks *)

\* The defaults are of their types.
LEMMA Defaults == NoRow \in Row /\ Idle \in Task
<1>1. NoRow \in Row
  BY DEF NoRow, Row
<1>2. 0 \in 0..MaxRows
  BY MembersAssumption
<1> QED BY <1>1, <1>2 DEF Idle, Task, Ops, Stages

\* A flush writes the columns that were changed.
LEMMA FlushColumns ==
  ASSUME NEW row \in Row, NEW seen \in Row, NEW new \in Row
  PROVE  /\ Flush(row, seen, new) \in Row
         /\ Flush(row, seen, new).tg =
              IF new.tg = seen.tg THEN row.tg ELSE new.tg
         /\ Flush(row, seen, new).name =
              IF new.name = seen.name THEN row.name ELSE new.name
         /\ Flush(row, seen, new).full =
              IF new.full = seen.full THEN row.full ELSE new.full
         /\ Flush(row, seen, new).allowed =
              IF new.allowed = seen.allowed THEN row.allowed ELSE new.allowed
BY DEF Flush, Row

\* A row of the table is not the row that is missing.
LEMMA StoredRows ==
  ASSUME IInv, NEW i \in Stored
  PROVE  i \in Ids /\ i < nextId /\ rows[i] \in Row /\ rows[i] # NoRow
BY MembersAssumption DEF IInv, Typed, Fresh, Stored, Ids

\* What admins have meant, and what accounts have come with, is not forgotten.
Grows ==
  /\ UNCHANGED had /\ granted \subseteq granted'
  /\ told' \in [Accounts -> SUBSET FullNames]
  /\ \A a \in Accounts : told[a] \subseteq told'[a]

LEMMA SoundStays ==
  ASSUME Grows, NEW row \in Row, Sound(row)
  PROVE  Sound(row)'
<1>1. row.tg # NoAccount => row.tg \in Accounts
  BY DEF Row
<1>2. row.tg # NoAccount /\ Entitled(row.tg) => Entitled(row.tg)'
  BY DEF Grows, Entitled
<1> QED BY <1>1, <1>2 DEF Grows, Sound

LEMMA RowsStaySound ==
  ASSUME IInv, Grows, NEW i \in Ids, rows'[i] = rows[i]
  PROVE  RowGranted(i)'
<1> PICK row \in Row : row = rows[i]
  BY DEF IInv, Typed
<1>1. row # NoRow => Sound(row)'
  BY SoundStays DEF IInv, RowsGranted, RowGranted
<1> QED BY <1>1 DEF RowGranted

LEMMA InitHolds == Init => IInv
<1> SUFFICES ASSUME Init PROVE IInv
  OBVIOUS
<1> USE MembersAssumption
<1>1. Typed /\ Fresh /\ Usernames
  BY Defaults DEF Init, Typed, Fresh, Usernames
<1>2. RowsGranted
  BY DEF Init, RowsGranted, RowGranted, NoRow
<1>3. TasksKnown /\ OneCarrier
  BY DEF Init, TasksKnown, OneCarrier, TaskKnown, SeenKnown, StartKnown,
         HoldsRow, StartStages, Idle, Ids
<1> QED BY <1>1, <1>2, <1>3 DEF IInv

\* Idle handlers know nothing and carry nothing.
LEMMA IdleKnown == TaskKnown(Idle) /\ Idle.at \notin StartStages
BY DEF TaskKnown, SeenKnown, StartKnown, HoldsRow, StartStages, Idle, Ids

-----------------------------------------------------------------------------
(* Steps that leave the tables alone *)

\* What t carries is what p carried before, or what its account has now.
Carries(p, t) ==
  t.at \in StartStages =>
    \/ t.acc \in Accounts /\ t.name = uname[t.acc]
    \/ /\ task[p].at \in StartStages
       /\ t.acc = task[p].acc /\ t.name = task[p].name

LEMMA TaskOnly ==
  ASSUME IInv, NEW p \in Handlers, NEW t \in Task,
         task' = [task EXCEPT ![p] = t],
         UNCHANGED <<rows, nextId, uname, granted, had, told>>,
         TaskKnown(t), Carries(p, t)
  PROVE  IInv'
<1>0. /\ rows' = rows /\ nextId' = nextId /\ uname' = uname
      /\ granted' = granted /\ had' = had /\ told' = told
  OBVIOUS
<1>1. Typed' /\ Fresh' /\ Usernames' /\ RowsGranted'
  BY <1>0 DEF IInv, Typed, Fresh, Usernames, RowsGranted, RowGranted, Sound, Entitled
<1>2. \A q \in Handlers : task'[q] = IF q = p THEN t ELSE task[q]
  BY DEF IInv, Typed
<1>3. TasksKnown'
  BY <1>0, <1>2 DEF IInv, TasksKnown, TaskKnown, SeenKnown, StartKnown,
                    HoldsRow, Sound, Entitled
<1>4. OneCarrier'
  <2>1. ASSUME NEW q \in Handlers, t.at \in StartStages,
               task[q].at \in StartStages, t.name = task[q].name, t.name # NoName
        PROVE  t.acc = task[q].acc
    <3>1. CASE t.acc \in Accounts /\ t.name = uname[t.acc]
      BY <2>1, <3>1 DEF IInv, TasksKnown, TaskKnown, StartKnown
    <3>2. CASE /\ task[p].at \in StartStages
               /\ t.acc = task[p].acc /\ t.name = task[p].name
      BY <2>1, <3>2 DEF IInv, OneCarrier
    <3> QED BY <2>1, <3>1, <3>2 DEF Carries
  <2>2. ASSUME NEW q \in Handlers, NEW r \in Handlers,
               task'[q].at \in StartStages, task'[r].at \in StartStages,
               task'[q].name = task'[r].name, task'[q].name # NoName
        PROVE  task'[q].acc = task'[r].acc
    <3>1. CASE q = p /\ r # p
      BY <1>2, <2>1, <2>2, <3>1
    <3>2. CASE q # p /\ r = p
      BY <1>2, <2>1, <2>2, <3>2
    <3>3. CASE q = p /\ r = p
      BY <3>3
    <3>4. CASE q # p /\ r # p
      BY <1>2, <2>2, <3>4 DEF IInv, OneCarrier
    <3> QED BY <3>1, <3>2, <3>3, <3>4
  <2> QED BY <2>2 DEF OneCarrier
<1> QED BY <1>1, <1>3, <1>4 DEF IInv

\* A handler that ends.
LEMMA Ends ==
  ASSUME IInv, NEW p \in Handlers, task' = [task EXCEPT ![p] = Idle],
         UNCHANGED <<rows, nextId, uname, granted, had, told>>
  PROVE  IInv'
BY TaskOnly, Defaults, IdleKnown DEF Carries

\* A handler that begins.
LEMMA Begins ==
  ASSUME IInv, NEW p \in Handlers, NEW t \in Task, Begin(p, t),
         TaskKnown(t), t.at \in StartStages => t.acc \in Accounts /\ t.name = uname[t.acc]
  PROVE  IInv'
BY TaskOnly DEF Begin, Carries

\* One that goes on.
LEMMA GoesOn ==
  ASSUME IInv, NEW p \in Handlers, NEW t \in Task, Go(p, t),
         TaskKnown(t), Carries(p, t)
  PROVE  IInv'
BY TaskOnly DEF Go

\* A row just read is known.
LEMMA Read ==
  ASSUME IInv, NEW i \in Stored
  PROVE  \A t \in Task : t.id = i /\ t.seen = rows[i] => SeenKnown(t)
<1>1. Sound(rows[i])
  BY StoredRows DEF IInv, RowsGranted, RowGranted
<1> QED BY <1>1, StoredRows DEF SeenKnown

-----------------------------------------------------------------------------
(* Requests that arrive *)

LEMMA LoadRowKeeps ==
  ASSUME IInv, NEW p \in Handlers, NEW n \in Names, NEW i \in Named(n),
         NEW op \in Ops, op # "start", LoadRow(p, op, n, i)
  PROVE  IInv'
<1> DEFINE t == [Idle EXCEPT !.op = op, !.at = "write", !.name = n, !.id = i,
                             !.seen = rows[i]]
<1>1. i \in Stored /\ rows[i] \in Row /\ i \in 0..MaxRows
  BY StoredRows, MembersAssumption DEF Named, Ids
<1>2. t \in Task
  BY <1>1, Defaults DEF Task, Ops, Stages
<1>3. t.id = i /\ t.seen = rows[i] /\ t.at = "write" /\ t.name = n /\ rows[i].name = n
  BY DEF Idle, Named
<1>4. TaskKnown(t)
  BY <1>1, <1>2, <1>3, Read, StoredRows DEF TaskKnown, StartKnown, HoldsRow, StartStages
<1>5. Begin(p, t)
  BY DEF LoadRow
<1> HIDE DEF t
<1> QED BY <1>2, <1>3, <1>4, <1>5, Begins DEF StartStages


LEMMA LoadByIdKeeps ==
  ASSUME IInv, NEW p \in Handlers, NEW i \in Stored, AutoBan(p, i) \/ Revert(p, i)
  PROVE  IInv'
<1>0. PICK op \in {"ban", "revert"} : LoadById(p, op, i)
  BY DEF AutoBan, Revert
<1> DEFINE t == [Idle EXCEPT !.op = op, !.at = "write", !.id = i, !.seen = rows[i]]
<1>1. rows[i] \in Row /\ i \in 0..MaxRows /\ i \in Ids
  BY StoredRows, MembersAssumption DEF Ids
<1>2. t \in Task
  BY <1>1, Defaults DEF Task, Ops, Stages
<1>3. t.id = i /\ t.seen = rows[i] /\ t.at = "write" /\ t.op = op
  BY DEF Idle
<1>4. TaskKnown(t)
  BY <1>1, <1>2, <1>3, Read DEF TaskKnown, StartKnown, HoldsRow, StartStages
<1>5. Begin(p, t)
  BY <1>0 DEF LoadById
<1> HIDE DEF t
<1> QED BY <1>2, <1>3, <1>4, <1>5, Begins DEF StartStages

\* Bans that have run out.
LEMMA LiftLoadKeeps ==
  ASSUME IInv, NEW p \in Handlers, LiftLoad(p)
  PROVE  IInv'
<1>1. PICK due \in SUBSET Ids :
        Begin(p, [Idle EXCEPT !.op = "lift", !.at = "lift", !.ids = due])
  BY DEF LiftLoad, Stored
<1> DEFINE t == [Idle EXCEPT !.op = "lift", !.at = "lift", !.ids = due]
<1>2. t \in Task /\ t.at = "lift" /\ t.id = 0
  BY Defaults DEF Task, Ops, Stages, Idle
<1>3. Begin(p, t)
  BY <1>1
<1> HIDE DEF t
<1>4. TaskKnown(t)
  BY <1>2 DEF TaskKnown, SeenKnown, StartKnown, HoldsRow, StartStages, Ids
<1> QED BY <1>2, <1>3, <1>4, Begins DEF StartStages

LEMMA ReceiveKeeps ==
  ASSUME IInv, NEW p \in Handlers, NEW a \in Accounts, Receive(p, a)
  PROVE  IInv'
<1> DEFINE t == [Idle EXCEPT !.op = "start", !.at = "lookup", !.acc = a,
                             !.name = uname[a]]
<1>1. uname[a] \in Names \cup {NoName}
  BY DEF IInv, Typed
<1>2. t \in Task
  BY <1>1, Defaults DEF Task, Ops, Stages
<1>3. t.op = "start" /\ t.at = "lookup" /\ t.acc = a /\ t.name = uname[a] /\ t.id = 0
  BY DEF Idle
<1>4. Begin(p, t)
  BY DEF Receive
<1> HIDE DEF t
<1>5. TaskKnown(t)
  BY <1>3 DEF IInv, Usernames, TaskKnown, SeenKnown, StartKnown, HoldsRow, Ids
<1> QED BY <1>2, <1>3, <1>4, <1>5, Begins

LEMMA CommandKeeps ==
  ASSUME IInv, NEW p \in Handlers, NEW n \in Names,
         \/ AllowUser(p, n) \/ UnbanUser(p, n) \/ BanUser(p, n)
         \/ DeleteUser(p, n) \/ Appoint(p, n) \/ Revoke(p, n)
  PROVE  IInv'
BY LoadRowKeeps DEF AllowUser, UnbanUser, BanUser, DeleteUser, Appoint, Revoke, Ops

LEMMA RevokeAgainKeeps ==
  ASSUME IInv, NEW p \in Handlers, NEW n \in Names, RevokeAgain(p, n)
  PROVE  IInv'
<1>1. PICK i \in Named(n) :
        Begin(p, [Idle EXCEPT !.op = "revoke", !.at = "kick", !.name = n,
                              !.id = i, !.seen = rows[i], !.acc = rows[i].tg])
  BY DEF RevokeAgain
<1> DEFINE t == [Idle EXCEPT !.op = "revoke", !.at = "kick", !.name = n,
                             !.id = i, !.seen = rows[i], !.acc = rows[i].tg]
<1>2. i \in Stored /\ rows[i] \in Row /\ i \in 0..MaxRows
  BY StoredRows, MembersAssumption DEF Named, Ids
<1>3. rows[i].tg \in Accounts \cup {NoAccount}
  BY <1>2 DEF Row
<1>4. t \in Task
  BY <1>2, <1>3, Defaults DEF Task, Ops, Stages
<1>5. t.id = i /\ t.seen = rows[i] /\ t.at = "kick"
  BY DEF Idle
<1>6. TaskKnown(t)
  BY <1>2, <1>4, <1>5, Read DEF TaskKnown, StartKnown, HoldsRow, StartStages
<1>7. Begin(p, t)
  BY <1>1
<1> HIDE DEF t
<1> QED BY <1>4, <1>5, <1>6, <1>7, Begins DEF StartStages

\* Whoever a grant finds has an account, and the username or the full name.
LEMMA MatchBound ==
  ASSUME NEW n \in Names, NEW f \in FullNames \cup {NoName}, NEW i \in Match(n, f)
  PROVE  /\ i \in Stored /\ IsBound(i)
         /\ rows[i].name = n \/ (rows[i].full = f /\ f # NoName)
BY DEF Match, Latest, Named

LEMMA GrantLoads ==
  ASSUME IInv, NEW p \in Handlers, NEW n \in Names, NEW f \in FullNames \cup {NoName},
         NEW i \in Match(n, f), NEW op \in {"add", "form"}, Begin(p, GrantOf(op, n, f, i))
  PROVE  IInv'
<1> DEFINE t == GrantOf(op, n, f, i)
<1>1. i \in Stored /\ rows[i] \in Row /\ i \in 0..MaxRows /\ rows[i].tg # NoAccount
  BY MatchBound, StoredRows, MembersAssumption DEF Ids, IsBound
<1>2. {j \in Named(n) : ~IsBound(j)} \in SUBSET Ids
  BY DEF Named, Stored
<1>3. t \in Task
  BY <1>1, <1>2, Defaults DEF GrantOf, Task, Ops, Stages
<1>4. /\ t.id = i /\ t.seen = rows[i] /\ t.at = "grant" /\ t.name = n
      /\ t.full = f /\ t.op = op
  BY DEF GrantOf, Idle
<1>5. i \in Ids /\ (rows[i].name = n \/ (rows[i].full = f /\ f # NoName))
  BY <1>1, MatchBound DEF Stored
<1> HIDE DEF t
<1>6. TaskKnown(t)
  BY <1>1, <1>3, <1>4, <1>5, Read DEF TaskKnown, StartKnown, HoldsRow, StartStages
<1> QED BY <1>3, <1>4, <1>6, Begins DEF t, StartStages

LEMMA AddUserKeeps ==
  ASSUME IInv, NEW p \in Handlers, NEW n \in Names, NEW f \in FullNames \cup {NoName},
         AddUser(p, n, f) \/ FormPass(p, n, f)
  PROVE  IInv'
<1> DEFINE t == [Idle EXCEPT !.op = "add", !.name = n, !.full = f, !.at = "insert"]
<1>1. t \in Task
  BY Defaults DEF Task, Ops, Stages
<1>2. t.at = "insert" /\ t.id = 0
  BY DEF Idle
<1>3. CASE Begin(p, t)
  <2> HIDE DEF t
  <2>1. TaskKnown(t)
    BY <1>2 DEF TaskKnown, SeenKnown, StartKnown, HoldsRow, StartStages, Ids
  <2> QED BY <1>1, <1>2, <1>3, <2>1, Begins DEF StartStages
<1>4. CASE \E i \in Match(n, f), op \in {"add", "form"} : Begin(p, GrantOf(op, n, f, i))
  BY <1>4, GrantLoads
<1> QED BY <1>3, <1>4 DEF AddUser, FormPass

LEMMA BulkLoadKeeps ==
  ASSUME IInv, NEW p \in Handlers, NEW listed \in SUBSET Names, BulkLoad(p, listed)
  PROVE  IInv'
<1> DEFINE out == {i \in Stored : /\ rows[i].name \notin listed \cup {NoName}
                                  /\ rows[i].allowed
                                  /\ rows[i].tg \notin admins}
           kicks == {rows[i].tg : i \in out} \ {NoAccount}
           t == [Idle EXCEPT !.op = "bulk", !.at = "bulk", !.ids = out, !.todo = kicks]
<1>1. Begin(p, t)
  BY DEF BulkLoad
<1>2. out \in SUBSET Ids
  BY DEF Stored
<1>3. kicks \in SUBSET Accounts
  BY <1>2 DEF IInv, Typed, Row
<1> HIDE DEF out, kicks
<1>4. t \in Task
  BY <1>2, <1>3, Defaults DEF Task, Ops, Stages
<1>5. t.at = "bulk" /\ t.id = 0
  BY DEF Idle
<1> HIDE DEF t
<1>6. TaskKnown(t)
  BY <1>5 DEF TaskKnown, SeenKnown, StartKnown, HoldsRow, StartStages, Ids
<1> QED BY <1>1, <1>4, <1>5, <1>6, Begins DEF StartStages

-----------------------------------------------------------------------------
(* What goes on without the tables *)

LEMMA StartLookupKeeps ==
  ASSUME IInv, NEW p \in Handlers, StartLookup(p)
  PROVE  IInv'
<1> DEFINE t == task[p]
           waiting == {i \in Named(t.name) : ~IsBound(i)}
<1>0. t \in Task /\ TaskKnown(t) /\ t.at = "lookup"
  BY DEF StartLookup, IInv, Typed, TasksKnown
<1>1. ASSUME NEW i \in RowsOf(t.acc), Go(p, InHand(p, "finish", i))
      PROVE  IInv'
  <2> DEFINE u == InHand(p, "finish", i)
  <2>1. i \in Stored /\ i \in Ids /\ rows[i] \in Row /\ i \in 0..MaxRows /\ rows[i].tg = t.acc
    BY StoredRows, MembersAssumption DEF RowsOf, Ids, Stored
  <2>2. u \in Task
    BY <1>0, <2>1 DEF InHand, Task, Ops, Stages
  <2>3. /\ u.id = i /\ u.seen = rows[i] /\ u.at = "finish"
        /\ u.op = t.op /\ u.acc = t.acc /\ u.name = t.name
    BY <1>0 DEF InHand, Task
  <2> HIDE DEF u
  <2>4. TaskKnown(u)
    BY <1>0, <2>1, <2>2, <2>3, Read DEF TaskKnown, StartKnown, HoldsRow, StartStages
  <2>5. Carries(p, u)
    BY <1>0, <2>3 DEF Carries, StartStages
  <2> QED BY <1>1, <2>2, <2>4, <2>5, GoesOn DEF u
<1>2. ASSUME NEW i \in Latest(waiting), Go(p, InHand(p, "bind", i))
      PROVE  IInv'
  <2> DEFINE u == InHand(p, "bind", i)
  <2>1. /\ i \in Stored /\ i \in Ids /\ rows[i] \in Row /\ i \in 0..MaxRows
        /\ rows[i].tg = NoAccount /\ rows[i].name = t.name /\ t.name # NoName
    BY StoredRows, MembersAssumption DEF Latest, Named, Ids, Stored, IsBound
  <2>2. u \in Task
    BY <1>0, <2>1 DEF InHand, Task, Ops, Stages
  <2>3. /\ u.id = i /\ u.seen = rows[i] /\ u.at = "bind"
        /\ u.op = t.op /\ u.acc = t.acc /\ u.name = t.name
    BY <1>0 DEF InHand, Task
  <2> HIDE DEF u
  <2>4. TaskKnown(u)
    BY <1>0, <2>1, <2>2, <2>3, Read DEF TaskKnown, StartKnown, HoldsRow, StartStages
  <2>5. Carries(p, u)
    BY <1>0, <2>3 DEF Carries, StartStages
  <2> QED BY <1>2, <2>2, <2>4, <2>5, GoesOn DEF u
<1>3. ASSUME Go(p, [t EXCEPT !.at = "create"])
      PROVE  IInv'
  <2> DEFINE u == [t EXCEPT !.at = "create"]
  <2>2. u \in Task
    BY <1>0 DEF Task, Stages
  <2>3. /\ u.id = t.id /\ u.seen = t.seen /\ u.at = "create"
        /\ u.op = t.op /\ u.acc = t.acc /\ u.name = t.name
    BY <1>0 DEF Task
  <2> HIDE DEF u
  <2>4. TaskKnown(u)
    BY <1>0, <2>3 DEF TaskKnown, SeenKnown, StartKnown, HoldsRow, StartStages
  <2>5. Carries(p, u)
    BY <1>0, <2>3 DEF Carries, StartStages
  <2> QED BY <1>3, <2>2, <2>4, <2>5, GoesOn DEF u
<1> QED BY <1>1, <1>2, <1>3 DEF StartLookup

\* The next account to kick is one of the same request.
LEMMA NextKickKnown ==
  ASSUME NEW t \in Task, SeenKnown(t)
  PROVE  NextKick(t) \in Task /\ TaskKnown(NextKick(t)) /\ NextKick(t).at \notin StartStages
<1> DEFINE u == [t EXCEPT !.at = "check"]
<1>1. u \in Task
  BY DEF Task, Stages
<1>2. u.at = "check" /\ u.id = t.id /\ u.seen = t.seen
  BY DEF Task
<1> HIDE DEF u
<1>3. TaskKnown(u) /\ u.at \notin StartStages
  BY <1>2 DEF TaskKnown, SeenKnown, StartKnown, HoldsRow, StartStages
<1>4. NextKick(t) \in {Idle, u}
  BY DEF NextKick, u
<1> QED BY <1>1, <1>3, <1>4, IdleKnown, Defaults

LEMMA BulkCheckKeeps ==
  ASSUME IInv, NEW p \in Handlers, BulkCheck(p)
  PROVE  IInv'
<1> DEFINE t == task[p]
<1>1. t \in Task /\ SeenKnown(t)
  BY DEF IInv, Typed, TasksKnown, TaskKnown
<1>2. PICK a \in t.todo :
        LET rest == [t EXCEPT !.todo = @ \ {a}] IN
          Go(p, IF a \in admins THEN NextKick(rest)
                ELSE [rest EXCEPT !.at = "kick", !.acc = a])
  BY DEF BulkCheck
<1> DEFINE rest == [t EXCEPT !.todo = @ \ {a}]
           u == [rest EXCEPT !.at = "kick", !.acc = a]
<1>3. a \in Accounts /\ rest \in Task /\ rest.id = t.id /\ rest.seen = t.seen
  BY <1>1, <1>2 DEF Task
<1>4. Go(p, NextKick(rest)) \/ Go(p, u)
  BY <1>2
<1> HIDE DEF rest
<1>5. SeenKnown(rest)
  BY <1>1, <1>3 DEF SeenKnown
<1>6. u \in Task /\ u.at = "kick" /\ u.id = t.id /\ u.seen = t.seen
  BY <1>3 DEF Task, Stages
<1> HIDE DEF u
<1>7. TaskKnown(u) /\ u.at \notin StartStages
  BY <1>1, <1>6 DEF TaskKnown, SeenKnown, StartKnown, HoldsRow, StartStages
<1> QED BY <1>3, <1>4, <1>5, <1>6, <1>7, NextKickKnown, GoesOn DEF Carries

\* Messages, kicks, appointments and failures.
LEMMA QuietWork ==
  ASSUME IInv, NEW p \in Handlers,
         Kick(p) \/ SendDm(p) \/ NotifyFails(p) \/ Fail(p) \/ AddAdmin(p)
  PROVE  IInv'
<1>1. task[p] \in Task /\ SeenKnown(task[p])
  BY DEF IInv, Typed, TasksKnown, TaskKnown
<1>2. CASE Kick(p) \/ NotifyFails(p)
  <2>1. task' = [task EXCEPT ![p] = NextKick(task[p])]
    BY <1>2 DEF Kick, NotifyFails, Go
  <2>2. UNCHANGED <<rows, nextId, uname, granted, had, told>>
    BY <1>2 DEF Kick, NotifyFails, Go
  <2> QED BY <1>1, <2>1, <2>2, NextKickKnown, TaskOnly DEF Carries
<1>3. CASE SendDm(p) \/ Fail(p) \/ AddAdmin(p)
  <2>1. task' = [task EXCEPT ![p] = Idle]
    BY <1>3 DEF SendDm, Fail, AddAdmin
  <2>2. UNCHANGED <<rows, nextId, uname, granted, had, told>>
    BY <1>3 DEF SendDm, Fail, AddAdmin
  <2> QED BY <2>1, <2>2, Ends
<1> QED BY <1>2, <1>3

\* Telegram: who joins, and who is renamed while no /start carries the name.
LEMMA JoinKeeps ==
  ASSUME IInv, NEW a \in Accounts, Join(a)
  PROVE  IInv'
BY DEF Join, IInv, Typed, Fresh, Usernames, RowsGranted, RowGranted, TasksKnown,
       TaskKnown, SeenKnown, StartKnown, HoldsRow, OneCarrier, Sound, Entitled

LEMMA RenameKeeps ==
  ASSUME IInv, NEW a \in Accounts, NEW n \in Names \cup {NoName}, Rename(a, n)
  PROVE  IInv'
<1>0. /\ rows' = rows /\ nextId' = nextId /\ task' = task /\ granted' = granted
      /\ told' = told
      /\ uname' = [uname EXCEPT ![a] = n] /\ had' = [had EXCEPT ![a] = @ \cup {n}]
  BY DEF Rename
<1>1. \A b \in Accounts : had[b] \subseteq had'[b]
  BY <1>0 DEF IInv, Typed
<1>s. ASSUME NEW row \in Row, Sound(row) PROVE Sound(row)'
  BY <1>0, <1>1, <1>s DEF Sound, Entitled, Row
<1>2. \A b \in Accounts : uname'[b] = IF b = a THEN n ELSE uname[b]
  BY <1>0 DEF IInv, Typed
<1>3. Typed' /\ Fresh' /\ OneCarrier'
  BY <1>0 DEF IInv, Typed, Fresh, OneCarrier
<1>4. Usernames'
  <2>1. n \in had'[a]
    BY <1>0 DEF IInv, Typed
  <2>2. \A b \in Accounts : n # NoName => uname[b] # n
    BY DEF Rename
  <2> QED BY <1>1, <1>2, <2>1, <2>2 DEF IInv, Usernames
<1>5. RowsGranted'
  <2> SUFFICES ASSUME NEW i \in Ids PROVE RowGranted(i)'
    BY DEF RowsGranted
  <2> PICK row \in Row : row = rows[i]
    BY DEF IInv, Typed
  <2>1. row # NoRow => Sound(row)'
    BY <1>s DEF IInv, RowsGranted, RowGranted
  <2> QED BY <1>0, <2>1 DEF RowGranted
<1>6. TasksKnown'
  <2> SUFFICES ASSUME NEW p \in Handlers PROVE TaskKnown(task[p])'
    BY <1>0 DEF TasksKnown
  <2>1. TaskKnown(task[p])
    BY DEF IInv, TasksKnown
  <2>s. PICK seen \in Row : seen = task[p].seen
    BY DEF IInv, Typed, Task
  <2>2. SeenKnown(task[p])' /\ HoldsRow(task[p])'
    <3>1. task[p].id \in Ids => Sound(seen)'
      BY <1>s, <2>1, <2>s DEF TaskKnown, SeenKnown
    <3>2. task'[p].seen = seen
      BY <1>0, <2>s
    <3> QED BY <1>0, <1>1, <2>1, <3>1, <3>2 DEF TaskKnown, SeenKnown, HoldsRow
  <2>3. n # NoName /\ task[p].op = "start" => task[p].name # n
    BY DEF Rename
  <2>4. StartKnown(task[p])'
    BY <1>0, <1>1, <1>2, <2>1, <2>3 DEF TaskKnown, StartKnown
  <2> QED BY <2>2, <2>4, <1>0 DEF TaskKnown
<1> QED BY <1>3, <1>4, <1>5, <1>6 DEF IInv

-----------------------------------------------------------------------------
(* Steps that write rows *)

\* Two tasks that differ in overtaken, at most.
SameTask(t, u) ==
  /\ t.op = u.op /\ t.at = u.at /\ t.acc = u.acc /\ t.name = u.name
  /\ t.id = u.id /\ t.seen = u.seen /\ t.full = u.full

\* Row i goes, is inserted, keeps its account and, without one, its username;
\* or it is bound to the account that p starts for.
RowKept(p, i) ==
  \/ rows'[i] = NoRow
  \/ rows[i] = NoRow /\ i >= nextId
  \/ /\ rows[i] # NoRow /\ rows'[i].tg = rows[i].tg
     /\ rows[i].tg = NoAccount => rows'[i].name = rows[i].name
  \/ /\ rows[i] # NoRow /\ rows[i].tg = NoAccount
     /\ task[p].at \in StartStages /\ rows[i].name = task[p].name
     /\ task[p].name # NoName /\ rows'[i].tg = task[p].acc

\* Others that have read such a row still know what they have to.
LEMMA OthersKnow ==
  ASSUME IInv, NEW p \in Handlers, NEW q \in Handlers, NEW u \in Task,
         SameTask(u, task[q]), UNCHANGED uname, Grows, nextId' >= nextId,
         nextId' \in Nat, \A i \in Ids : RowKept(p, i)
  PROVE  TaskKnown(u)'
<1>0. task[q] \in Task /\ TaskKnown(task[q]) /\ StartKnown(task[p])
  BY DEF IInv, Typed, TasksKnown, TaskKnown
<1>h. had' = had
  BY DEF Grows
<1>1. SeenKnown(u)'
  <2> SUFFICES ASSUME u.id \in Ids PROVE SeenKnown(u)'
    BY DEF SeenKnown
  <2>1. SeenKnown(u) /\ u.id < nextId /\ RowKept(p, u.id)
    BY <1>0 DEF TaskKnown, SeenKnown, SameTask
  <2>s. PICK seen \in Row : seen = u.seen
    BY DEF Task
  <2>t. Sound(seen)'
    BY <2>1, <2>s, SoundStays DEF SeenKnown
  <2>2. u.id < nextId' /\ Sound(u.seen)'
    BY <2>1, <2>s, <2>t, MembersAssumption DEF Ids, IInv, Typed
  <2>3. CASE rows'[u.id] = NoRow
    BY <2>2, <2>3 DEF SeenKnown
  <2>4. CASE /\ rows[u.id] # NoRow /\ rows'[u.id].tg = rows[u.id].tg
             /\ rows[u.id].tg = NoAccount => rows'[u.id].name = rows[u.id].name
    BY <2>1, <2>2, <2>4, <1>h, MembersAssumption DEF SeenKnown
  <2>5. CASE /\ rows[u.id] # NoRow /\ rows[u.id].tg = NoAccount
             /\ task[p].at \in StartStages /\ rows[u.id].name = task[p].name
             /\ task[p].name # NoName /\ rows'[u.id].tg = task[p].acc
    BY <1>0, <2>1, <2>2, <2>5, <1>h, MembersAssumption DEF SeenKnown, StartKnown
  <2>6. ~(u.id >= nextId)
    BY <2>1, MembersAssumption DEF Ids, IInv, Typed
  <2> QED BY <2>1, <2>3, <2>4, <2>5, <2>6 DEF RowKept
<1>2. ASSUME u.at = "bind"
      PROVE  rows'[u.id] = NoRow \/ rows'[u.id].tg \in {NoAccount, u.acc}
  <2>1. /\ task[q].at \in StartStages /\ u.id \in Ids /\ u.seen.tg = NoAccount
        /\ u.seen.name = u.name /\ u.name # NoName
        /\ rows[u.id] = NoRow \/ rows[u.id].tg \in {NoAccount, u.acc}
    BY <1>0, <1>2 DEF TaskKnown, StartKnown, SameTask, StartStages
  <2>2. RowKept(p, u.id) /\ SeenKnown(u) /\ u.id < nextId
    BY <1>0, <2>1 DEF TaskKnown, SeenKnown, SameTask
  <2>3. ASSUME rows[u.id] # NoRow, rows[u.id].tg = NoAccount
        PROVE  rows[u.id].name = u.name
    BY <2>1, <2>2, <2>3, MembersAssumption DEF SeenKnown
  <2>4. ASSUME /\ rows[u.id] # NoRow /\ rows[u.id].tg = NoAccount
               /\ task[p].at \in StartStages /\ rows[u.id].name = task[p].name
               /\ task[p].name # NoName
        PROVE  task[p].acc = u.acc
    <3>1. task[p].name = task[q].name
      BY <2>3, <2>4 DEF SameTask
    <3> QED BY <2>1, <2>4, <3>1 DEF IInv, OneCarrier, SameTask
  <2>5. ~(u.id >= nextId)
    BY <2>1, <2>2, MembersAssumption DEF Ids, IInv, Typed
  <2> QED BY <2>1, <2>2, <2>4, <2>5 DEF RowKept
<1>3. StartKnown(u)'
  <2>1. StartKnown(u)
    BY <1>0, <1>2 DEF TaskKnown, StartKnown, SameTask
  <2> QED BY <1>2, <1>h, <2>1 DEF StartKnown
<1>4. HoldsRow(u)'
  BY <1>0 DEF TaskKnown, HoldsRow, SameTask
<1> QED BY <1>1, <1>3, <1>4 DEF TaskKnown

\* p goes on as t, and every row is kept and granted.
LEMMA RowStep ==
  ASSUME IInv, NEW p \in Handlers, NEW t \in Task,
         task' \in [Handlers -> Task], task'[p] = t,
         \A q \in Handlers \ {p} : SameTask(task'[q], task[q]),
         UNCHANGED uname, Grows,
         rows' \in [Ids -> Row], nextId' \in Nat, nextId' >= nextId, Fresh',
         \A i \in Ids : RowKept(p, i), RowsGranted',
         TaskKnown(t)', Carries(p, t)
  PROVE  IInv'
<1>1. Typed' /\ Usernames'
  BY DEF IInv, Typed, Usernames, Grows
<1>2. TasksKnown'
  <2> SUFFICES ASSUME NEW q \in Handlers, NEW u \in Task, u = task'[q]
               PROVE  TaskKnown(u)'
    BY DEF TasksKnown
  <2>1. CASE q = p
    BY <2>1
  <2>2. CASE q # p
    BY <2>2, OthersKnow
  <2> QED BY <2>1, <2>2
<1>3. OneCarrier'
  <2>1. ASSUME NEW q \in Handlers, t.at \in StartStages,
               task[q].at \in StartStages, t.name = task[q].name, t.name # NoName
        PROVE  t.acc = task[q].acc
    <3>1. CASE t.acc \in Accounts /\ t.name = uname[t.acc]
      BY <2>1, <3>1 DEF IInv, TasksKnown, TaskKnown, StartKnown
    <3>2. CASE /\ task[p].at \in StartStages
               /\ t.acc = task[p].acc /\ t.name = task[p].name
      BY <2>1, <3>2 DEF IInv, OneCarrier
    <3> QED BY <2>1, <3>1, <3>2 DEF Carries
  <2>2. ASSUME NEW q \in Handlers, NEW r \in Handlers,
               task'[q].at \in StartStages, task'[r].at \in StartStages,
               task'[q].name = task'[r].name, task'[q].name # NoName
        PROVE  task'[q].acc = task'[r].acc
    <3>1. CASE q = p /\ r # p
      BY <2>1, <2>2, <3>1 DEF SameTask
    <3>2. CASE q # p /\ r = p
      BY <2>1, <2>2, <3>2 DEF SameTask
    <3>3. CASE q = p /\ r = p
      BY <3>3
    <3>4. CASE q # p /\ r # p
      BY <2>2, <3>4 DEF IInv, OneCarrier, SameTask
    <3> QED BY <3>1, <3>2, <3>3, <3>4
  <2> QED BY <2>2 DEF OneCarrier
<1> QED BY <1>1, <1>2, <1>3 DEF IInv

-----------------------------------------------------------------------------
(* Commits *)

\* The others learn that they were overtaken, and nothing else.
LEMMA Continued ==
  ASSUME IInv, NEW p \in Handlers, NEW t \in Task, NEW ids, Continue(p, t, ids)
  PROVE  /\ task' \in [Handlers -> Task] /\ task'[p] = t
         /\ \A q \in Handlers \ {p} : SameTask(task'[q], task[q])
<1>1. \A u \in Task : /\ [u EXCEPT !.overtaken = TRUE] \in Task
                      /\ SameTask([u EXCEPT !.overtaken = TRUE], u)
  BY DEF Task, SameTask
<1>2. \A u \in Task : SameTask(u, u)
  BY DEF SameTask
<1>3. \A q \in Handlers : task[q] \in Task
  BY DEF IInv, Typed
<1> QED BY <1>1, <1>2, <1>3 DEF Continue

\* A row is as sound after a flush as the columns that were changed.
LEMMA SoundFlush ==
  ASSUME NEW row \in Row, NEW seen \in Row, NEW new \in Row,
         NEW r \in Row, r = Flush(row, seen, new), Sound(row)',
         new.tg = seen.tg,
         \/ row.tg = seen.tg /\ Sound(new)'
         \/ /\ new.name = seen.name /\ new.full = seen.full
            /\ \/ new.allowed => seen.allowed
               \/ row.tg # NoAccount => Entitled(row.tg)'
  PROVE  Sound(r)'
<1>1. /\ r.tg = row.tg
      /\ r.name = IF new.name = seen.name THEN row.name ELSE new.name
      /\ r.full = IF new.full = seen.full THEN row.full ELSE new.full
      /\ r.allowed = IF new.allowed = seen.allowed THEN row.allowed ELSE new.allowed
  BY FlushColumns
<1>2. CASE row.tg = seen.tg /\ Sound(new)'
  BY <1>1, <1>2 DEF Sound
<1>3. CASE /\ new.name = seen.name /\ new.full = seen.full
           /\ new.allowed => seen.allowed
  <2>1. r.allowed => row.allowed
    BY <1>1, <1>3 DEF Row
  <2> QED BY <1>1, <1>3, <2>1 DEF Sound
<1>4. CASE /\ new.name = seen.name /\ new.full = seen.full
           /\ row.tg # NoAccount => Entitled(row.tg)'
  BY <1>1, <1>4 DEF Sound
<1> QED BY <1>2, <1>3, <1>4

\* A transaction that changes no account, renames no placeholder, and leaves
\* the row in hand sound, keeps the invariant.
LEMMA Commits ==
  ASSUME IInv, NEW p \in Handlers, NEW t \in Task, NEW new \in Row,
         NEW gone \in SUBSET Ids,
         Commit(p, new, gone, t), task[p].id \in Ids,
         new.tg = task[p].seen.tg,
         new.tg = NoAccount => new.name = task[p].seen.name, Grows,
         NEW r \in Row, r = Flush(rows[task[p].id], task[p].seen, new),
         rows[task[p].id] # NoRow => Sound(r)',
         \/ t = Idle
         \/ /\ t.id = task[p].id /\ t.seen = task[p].seen
            /\ t.at \notin StartStages \cup {"write", "grant"}
  PROVE  IInv'
<1> DEFINE i == task[p].id
           s == task[p].seen
<1>1. i \in Ids /\ rows[i] \in Row /\ s \in Row
  BY DEF IInv, Typed, Task
<1>2. /\ nextId' = nextId /\ uname' = uname
      /\ Continue(p, t, {i} \cup gone)
      /\ rows' = [j \in Ids |-> IF j \in gone THEN NoRow
                                ELSE IF j = i /\ i \in Stored THEN r
                                ELSE rows[j]]
  BY DEF Commit
<1>3. /\ r.tg = IF new.tg = s.tg THEN rows[i].tg ELSE new.tg
      /\ r.name = IF new.name = s.name THEN rows[i].name ELSE new.name
  BY <1>1, FlushColumns
<1>4. SeenKnown(task[p])
  BY DEF IInv, TasksKnown, TaskKnown
<1>5. ASSUME rows[i] # NoRow
      PROVE  r.tg = rows[i].tg /\ (rows[i].tg = NoAccount => r.name = rows[i].name)
  BY <1>1, <1>3, <1>4, <1>5, MembersAssumption DEF SeenKnown
<1>7. \A j \in Ids :
        rows'[j] = IF j \in gone THEN NoRow
                   ELSE IF j = i /\ rows[i] # NoRow THEN r ELSE rows[j]
  BY <1>1, <1>2 DEF Stored
<1>8. rows' \in [Ids -> Row] /\ Fresh'
  <2>1. rows' \in [Ids -> Row]
    BY <1>2, <1>3, Defaults DEF IInv, Typed
  <2>2. Fresh'
    BY <1>2, <1>7 DEF IInv, Fresh
  <2> QED BY <2>1, <2>2
<1>9. \A j \in Ids : RowKept(p, j)
  <2> SUFFICES ASSUME NEW j \in Ids PROVE RowKept(p, j)
    OBVIOUS
  <2>1. CASE rows[j] = NoRow
    BY <1>7, <2>1 DEF RowKept
  <2>2. CASE rows[j] # NoRow
    BY <1>5, <1>7, <2>2 DEF RowKept
  <2> QED BY <2>1, <2>2
<1>10. RowsGranted'
  <2> SUFFICES ASSUME NEW j \in Ids PROVE RowGranted(j)'
    BY DEF RowsGranted
  <2>1. CASE rows'[j] = NoRow
    BY <2>1 DEF RowGranted, NoRow
  <2>2. CASE rows[i] # NoRow /\ rows'[j] = r
    BY <2>2 DEF RowGranted
  <2>3. CASE rows'[j] = rows[j]
    BY <2>3, RowsStaySound
  <2> QED BY <1>7, <2>1, <2>2, <2>3
<1>11. nextId' \in Nat /\ nextId' >= nextId
  BY <1>2 DEF IInv, Typed
<1>12. TaskKnown(t)' /\ Carries(p, t)
  <2>1. CASE t = Idle
    BY <2>1 DEF TaskKnown, SeenKnown, StartKnown, HoldsRow, Carries,
                StartStages, Idle, Ids
  <2>2. CASE /\ t.id = task[p].id /\ t.seen = task[p].seen
             /\ t.at \notin StartStages \cup {"write", "grant"}
    <3>1. ASSUME NEW u \in Task, u = task[p] PROVE TaskKnown(u)'
      BY <1>2, <1>9, <1>11, <3>1, OthersKnow DEF SameTask
    <3>2. task[p] \in Task
      BY DEF IInv, Typed
    <3>3. ASSUME NEW u \in Task, u = task[p] PROVE SeenKnown(t)'
      BY <2>2, <3>1, <3>3 DEF TaskKnown, SeenKnown
    <3>4. SeenKnown(t)'
      BY <3>2, <3>3
    <3> QED BY <2>2, <3>4 DEF TaskKnown, StartKnown, HoldsRow, Carries, StartStages
  <2> QED BY <2>1, <2>2
<1> HIDE DEF i
<1> QED BY <1>2, <1>8, <1>9, <1>10, <1>11, <1>12, Continued, RowStep


-----------------------------------------------------------------------------
(* What commands and grants write *)

\* What follows a commit is about the same row.
LEMMA AfterKnown ==
  ASSUME IInv, NEW p \in Handlers
  PROVE  /\ After(p) \in Task
         /\ \/ After(p) = Idle
            \/ /\ After(p).id = task[p].id /\ After(p).seen = task[p].seen
               /\ After(p).at \notin StartStages \cup {"write", "grant"}
<1>1. task[p] \in Task
  BY DEF IInv, Typed
<1>2. CASE After(p) = Idle
  BY <1>2, Defaults
<1>3. CASE \E at \in {"dm", "kick"} :
             /\ task[p].seen.tg # NoAccount
             /\ After(p) = [task[p] EXCEPT !.at = at, !.acc = task[p].seen.tg]
  BY <1>1, <1>3 DEF Task, Row, Stages, StartStages
<1>4. After(p) = Idle \/ \E at \in {"dm", "kick"} :
             /\ task[p].seen.tg # NoAccount
             /\ After(p) = [task[p] EXCEPT !.at = at, !.acc = task[p].seen.tg]
  BY DEF After
<1> QED BY <1>2, <1>3, <1>4

\* Grants are remembered.
LEMMA GrantsGrow ==
  ASSUME IInv, NEW S, Grants(S), had' = had
  PROVE  Grows /\ granted' = granted \cup S /\ told' = told
BY DEF Grants, Grows, IInv, Typed

LEMMA ChangeRowKeeps ==
  ASSUME IInv, NEW p \in Handlers, ChangeRow(p)
  PROVE  IInv'
<1> DEFINE t == task[p]
           new == Changed(t.op, t.seen)
<1>1. /\ t.op \in {"allow", "unban", "ban", "revoke", "revert"} /\ t.at = "write"
      /\ Commit(p, new, {}, After(p)) /\ Grants(Meant(t)) /\ had' = had
  BY DEF ChangeRow, Commit
<1>2. /\ t \in Task /\ t.seen \in Row /\ t.id \in Ids /\ SeenKnown(t)
      /\ t.op = "allow" => t.seen.name = t.name /\ t.name \in Names
  BY <1>1 DEF IInv, Typed, TasksKnown, TaskKnown, HoldsRow, Task
<1>3. /\ new \in Row /\ new.tg = t.seen.tg /\ new.name = t.seen.name
      /\ new.full = t.seen.full
      /\ new.allowed => t.seen.allowed \/ t.op \in {"allow", "revert"}
  BY <1>1, <1>2 DEF Changed, Row
<1>4. Grows /\ granted' = granted \cup Meant(t)
  BY <1>1, GrantsGrow
<1>m. /\ t.op = "allow" => Meant(t) = Holders(t.name)
      /\ t.op = "revert" => Meant(t) = {t.seen.tg} \ {NoAccount}
  BY DEF Meant
<1> HIDE DEF new
<1>o. PICK row \in Row : row = rows[t.id]
  BY <1>2 DEF IInv, Typed
<1>r. PICK r \in Row : r = Flush(rows[t.id], t.seen, new)
  BY <1>2, <1>3, <1>o, FlushColumns
<1>5. ASSUME row # NoRow PROVE Sound(row) /\ Sound(row)'
  BY <1>2, <1>4, <1>5, <1>o, SoundStays DEF IInv, RowsGranted, RowGranted
<1>6. ASSUME row # NoRow, row.tg # NoAccount, t.op \in {"allow", "revert"}
      PROVE  Entitled(row.tg)'
  <2>1. row.tg \in Accounts /\ t.seen.tg \in Accounts \cup {NoAccount}
    BY <1>2, <1>6 DEF Row
  <2>2. Sound(t.seen)
    BY <1>2 DEF SeenKnown
  <2>3. CASE t.seen.tg = NoAccount
    <3>1. t.seen.name \in had[row.tg] /\ t.seen.name \in granted
      BY <1>2, <1>6, <1>o, <2>2, <2>3 DEF SeenKnown, Sound
    <3> QED BY <1>4, <3>1 DEF Entitled, Grows
  <2>4. CASE t.seen.tg # NoAccount
    <3>1. row.tg = t.seen.tg
      BY <1>2, <1>6, <1>o, <2>4 DEF SeenKnown
    <3>2. CASE t.op = "revert"
      BY <1>4, <1>m, <2>1, <2>4, <3>1, <3>2 DEF Entitled
    <3>3. CASE t.op = "allow"
      <4>1. t.name \in had[row.tg] \/ Entitled(row.tg)
        BY <1>2, <2>2, <2>4, <3>1, <3>3, MembersAssumption DEF Sound
      <4>2. t.name \in had[row.tg] => row.tg \in granted'
        BY <1>4, <1>m, <2>1, <3>3 DEF Holders
      <4> QED BY <1>4, <4>1, <4>2 DEF Entitled, Grows
    <3> QED BY <1>6, <3>2, <3>3
  <2> QED BY <2>3, <2>4
<1>7. ASSUME row # NoRow PROVE Sound(r)'
  BY <1>2, <1>3, <1>5, <1>6, <1>7, <1>o, <1>r, SoundFlush
<1> QED BY <1>1, <1>2, <1>3, <1>4, <1>7, <1>o, <1>r, AfterKnown, Commits

LEMMA DeleteRowKeeps ==
  ASSUME IInv, NEW p \in Handlers, DeleteRow(p)
  PROVE  IInv'
<1> DEFINE seen == task[p].seen
<1>1. /\ seen \in Row /\ task[p].id \in Ids
      /\ Commit(p, seen, {task[p].id}, Idle) /\ UNCHANGED <<granted, told>>
  BY DEF DeleteRow, IInv, Typed, TasksKnown, TaskKnown, HoldsRow, Task
<1>2. Grows
  BY <1>1 DEF Commit, Grows, IInv, Typed
<1>3. PICK row \in Row : row = rows[task[p].id]
  BY <1>1 DEF IInv, Typed
<1>4. PICK r \in Row : r = Flush(rows[task[p].id], seen, seen)
  BY <1>1, <1>3, FlushColumns
<1>5. row # NoRow => Sound(row)'
  BY <1>1, <1>2, <1>3, SoundStays DEF IInv, RowsGranted, RowGranted
<1>6. row # NoRow => Sound(r)'
  BY <1>1, <1>3, <1>4, <1>5, SoundFlush
<1> QED BY <1>1, <1>2, <1>3, <1>4, <1>6, Defaults, Commits

LEMMA GrantWriteKeeps ==
  ASSUME IInv, NEW p \in Handlers, GrantWrite(p)
  PROVE  IInv'
<1> DEFINE t == task[p]
           new == [t.seen EXCEPT !.allowed = TRUE, !.name = t.name,
                                 !.full = IF t.full = NoName THEN @ ELSE t.full]
           next == IF t.seen.allowed THEN Idle ELSE After(p)
<1>1. Commit(p, new, t.ids, next) /\ Grants(Meant(t)) /\ had' = had
  BY DEF GrantWrite, Commit
<1>2. /\ t \in Task /\ t.seen \in Row /\ t.id \in Ids /\ t.seen.tg # NoAccount
      /\ SeenKnown(t) /\ t.name \in Names /\ t.op \in {"add", "form"}
      /\ t.seen.name = t.name \/ (t.seen.full = t.full /\ t.full # NoName)
  BY DEF GrantWrite, IInv, Typed, TasksKnown, TaskKnown, HoldsRow, Task
<1>3. t.ids \in SUBSET Ids
  BY <1>2 DEF Task
<1>4. new \in Row /\ new.tg = t.seen.tg
  BY <1>2 DEF Row, Task
<1>5. Grows /\ granted' = granted \cup Meant(t)
  BY <1>1, GrantsGrow
<1>6. /\ next \in Task
      /\ \/ next = Idle
         \/ /\ next.id = t.id /\ next.seen = t.seen
            /\ next.at \notin StartStages \cup {"write", "grant"}
  BY AfterKnown, Defaults
<1> HIDE DEF new, next
<1>o. PICK row \in Row : row = rows[t.id]
  BY <1>2 DEF IInv, Typed
<1>r. PICK r \in Row : r = Flush(rows[t.id], t.seen, new)
  BY <1>2, <1>4, <1>o, FlushColumns
<1>a. PICK a \in Accounts : a = t.seen.tg
  BY <1>2 DEF Row
<1>7. Entitled(a)'
  <2>1. Sound(t.seen)
    BY <1>2 DEF SeenKnown
  <2>2. Meant(t) = IF t.seen.name = t.name THEN Holders(t.name) ELSE Bearers(t.full)
    BY <1>2 DEF Meant
  <2>3. Entitled(a) \/ a \in granted'
    BY <1>2, <1>5, <1>a, <2>1, <2>2, MembersAssumption DEF Sound, Holders, Bearers
  <2> QED BY <1>5, <2>3 DEF Entitled, Grows
<1>8. ASSUME row # NoRow PROVE Sound(r)'
  <2>1. row.tg = a
    BY <1>2, <1>8, <1>o, <1>a DEF SeenKnown
  <2>2. r.tg = row.tg
    BY <1>2, <1>4, <1>o, <1>r, FlushColumns
  <2> QED BY <1>2, <1>7, <1>a, <2>1, <2>2 DEF Sound
<1> QED BY <1>1, <1>2, <1>3, <1>4, <1>5, <1>6, <1>8, <1>o, <1>r, Commits

-----------------------------------------------------------------------------
(* What a /start writes *)

\* What an account comes with is remembered.
LEMMA TellsGrow ==
  ASSUME IInv, NEW p \in Handlers, NEW f \in FullNames, Tells(p, f),
         task[p].acc \in Accounts, UNCHANGED <<granted, had>>
  PROVE  Grows /\ f \in told'[task[p].acc]
BY DEF Tells, Grows, IInv, Typed

LEMMA StartFinishKeeps ==
  ASSUME IInv, NEW p \in Handlers, NEW f \in FullNames, StartFinish(p, f)
  PROVE  IInv'
<1> DEFINE t == task[p]
           new == [t.seen EXCEPT !.name = IF t.name = NoName THEN @ ELSE t.name,
                                 !.full = IF @ = NoName THEN f ELSE @]
           gone == IF t.at = "finish" THEN Stale(t.name, t.id) ELSE {}
<1>1. Commit(p, new, gone, Idle) /\ Tells(p, f) /\ UNCHANGED <<granted, had>>
  BY DEF StartFinish, Commit
<1>2. /\ t \in Task /\ t.seen \in Row /\ t.id \in Ids /\ SeenKnown(t)
      /\ t.seen.tg = t.acc /\ t.acc \in Accounts /\ t.name \in had[t.acc]
  BY DEF StartFinish, IInv, Typed, TasksKnown, TaskKnown, StartKnown, StartStages, Task
<1>3. gone \in SUBSET Ids
  BY DEF Stale, Named, Stored
<1>4. /\ new \in Row /\ new.tg = t.seen.tg /\ new.allowed = t.seen.allowed
      /\ new.name \in {t.seen.name, t.name} /\ new.full \in {t.seen.full, f}
  BY <1>2 DEF Row, Task
<1>5. Grows /\ f \in told'[t.acc]
  BY <1>1, <1>2, TellsGrow
<1> HIDE DEF new, gone
<1>a. PICK a \in Accounts : a = t.acc
  BY <1>2
<1>s. PICK seen \in Row : seen = t.seen
  BY <1>2
<1>n. PICK c \in Row : c = new
  BY <1>4
<1>o. PICK row \in Row : row = rows[t.id]
  BY <1>2 DEF IInv, Typed
<1>r. PICK r \in Row : r = Flush(rows[t.id], t.seen, new)
  BY <1>2, <1>4, <1>o, FlushColumns
<1>6. Sound(c)'
  <2>1. Sound(seen)'
    BY <1>2, <1>5, <1>s, SoundStays DEF SeenKnown
  <2>2. t.name \in had'[a] /\ f \in told'[a]
    BY <1>2, <1>5, <1>a DEF Grows
  <2> QED BY <1>2, <1>4, <1>a, <1>s, <1>n, <2>1, <2>2, MembersAssumption DEF Sound
<1>7. ASSUME row # NoRow PROVE Sound(r)'
  <2>1. Sound(row)'
    BY <1>2, <1>5, <1>7, <1>o, SoundStays DEF IInv, RowsGranted, RowGranted
  <2>2. row.tg = seen.tg
    BY <1>2, <1>7, <1>o, <1>s, MembersAssumption DEF SeenKnown
  <2>3. r = Flush(row, seen, c) /\ c.tg = seen.tg
    BY <1>4, <1>o, <1>r, <1>s, <1>n
  <2> QED BY <1>6, <2>1, <2>2, <2>3, SoundFlush
<1> QED BY <1>1, <1>2, <1>3, <1>4, <1>5, <1>7, <1>o, <1>r, MembersAssumption,
           Defaults, Commits

\* The placeholder is still there, under the username the account came with,
\* or it is the account's already; the account has no row, so it is there.
LEMMA StartBindKeeps ==
  ASSUME IInv, NEW p \in Handlers, StartBind(p)
  PROVE  IInv'
<1> DEFINE t == task[p]
           i == t.id
           new == [t.seen EXCEPT !.tg = t.acc]
           r == Flush(rows[i], t.seen, new)
<1>0. /\ t.at = "bind" /\ RowsOf(t.acc) = {} /\ UNCHANGED <<granted, told>>
      /\ Commit(p, new, {}, [t EXCEPT !.at = "fill", !.seen = r])
  BY DEF StartBind
<1>1. /\ t \in Task /\ t.seen \in Row /\ t.id \in Ids /\ rows[i] \in Row
      /\ t.acc \in Accounts /\ t.name \in had[t.acc] /\ SeenKnown(t)
      /\ t.seen.tg = NoAccount /\ t.seen.name = t.name /\ t.name # NoName
      /\ rows[i] = NoRow \/ rows[i].tg \in {NoAccount, t.acc}
      /\ \A b \in Accounts : uname[b] = t.name => b = t.acc
  BY <1>0 DEF IInv, Typed, TasksKnown, TaskKnown, StartKnown, StartStages, Task
<1>2. new \in Row /\ new.tg = t.acc /\ new.name = t.seen.name /\ new.allowed = t.seen.allowed
  BY <1>1 DEF Row
<1> HIDE DEF new
<1>3. r \in Row /\ r.tg = t.acc /\ r.name = rows[i].name /\ r.allowed = rows[i].allowed
  <2>1. t.acc # t.seen.tg
    BY <1>1, MembersAssumption
  <2> QED BY <1>1, <1>2, <2>1, FlushColumns
<1>4. i \in Stored
  BY <1>0, <1>1, <1>2, MembersAssumption DEF Commit
<1>5. rows[i] # NoRow /\ rows[i].tg = NoAccount /\ rows[i].name = t.name
  <2>1. rows[i] # NoRow
    BY <1>4 DEF Stored
  <2>2. rows[i].tg # t.acc
    BY <1>0, <1>4 DEF RowsOf
  <2> QED BY <1>1, <2>1, <2>2, MembersAssumption DEF SeenKnown
<1> HIDE DEF r
<1>u. PICK u \in Task : u = [t EXCEPT !.at = "fill", !.seen = r]
  BY <1>1, <1>3 DEF Task, Stages
<1>6. /\ u.at = "fill" /\ u.id = i /\ u.seen = r
      /\ u.op = t.op /\ u.acc = t.acc /\ u.name = t.name
  BY <1>1, <1>u DEF Task
<1>7. /\ nextId' = nextId /\ uname' = uname /\ had' = had /\ granted' = granted
      /\ told' = told /\ Continue(p, u, {i} \cup {})
      /\ rows' = [j \in Ids |-> IF j = i THEN r ELSE rows[j]]
  BY <1>0, <1>4, <1>u DEF Commit, r
<1>g. Grows
  BY <1>7 DEF Grows, IInv, Typed
<1>c. PICK c \in Row : c = r
  BY <1>3
<1>s. Sound(c)'
  <2>1. rows[i].name \in granted
    BY <1>1, <1>5 DEF IInv, RowsGranted, RowGranted, Sound
  <2>a. PICK a \in Accounts : a = t.acc
    BY <1>1
  <2>2. t.name \in had'[a] \cap granted'
    BY <1>1, <1>5, <1>7, <2>1, <2>a
  <2>3. c.tg = a
    BY <1>3, <1>c, <2>a
  <2> QED BY <2>2, <2>3, MembersAssumption DEF Sound, Entitled
<1>8. \A j \in Ids : rows'[j] = IF j = i THEN r ELSE rows[j]
  BY <1>7
<1>9. rows' \in [Ids -> Row] /\ Fresh'
  <2>1. rows' \in [Ids -> Row]
    BY <1>3, <1>7 DEF IInv, Typed
  <2>2. Fresh'
    BY <1>5, <1>7, <1>8 DEF IInv, Fresh
  <2> QED BY <2>1, <2>2
<1>10. \A j \in Ids : RowKept(p, j)
  <2> SUFFICES ASSUME NEW j \in Ids PROVE RowKept(p, j)
    OBVIOUS
  <2>1. CASE j = i
    BY <1>0, <1>1, <1>3, <1>5, <1>8, <2>1 DEF RowKept, StartStages
  <2>2. CASE j # i
    BY <1>8, <2>2 DEF RowKept, IInv, Fresh
  <2> QED BY <2>1, <2>2
<1>11. RowsGranted'
  <2> SUFFICES ASSUME NEW j \in Ids PROVE RowGranted(j)'
    BY DEF RowsGranted
  <2>1. CASE j = i
    BY <1>8, <1>c, <1>s, <2>1 DEF RowGranted
  <2>2. CASE j # i
    BY <1>g, <1>8, <2>2, RowsStaySound
  <2> QED BY <2>1, <2>2
<1>12. TaskKnown(u)'
  <2>1. StartKnown(u)'
    BY <1>0, <1>1, <1>3, <1>6, <1>7 DEF StartKnown, StartStages, IInv, TasksKnown, TaskKnown
  <2>2. SeenKnown(u)'
    BY <1>1, <1>3, <1>6, <1>7, <1>8, <1>c, <1>s, MembersAssumption DEF SeenKnown
  <2>3. HoldsRow(u)'
    BY <1>6 DEF HoldsRow
  <2> QED BY <2>1, <2>2, <2>3 DEF TaskKnown
<1>13. Carries(p, u)
  BY <1>0, <1>6 DEF Carries, StartStages
<1>14. nextId' \in Nat /\ nextId' >= nextId
  BY <1>7 DEF IInv, Typed
<1> HIDE DEF i
<1> QED BY <1>6, <1>7, <1>g, <1>9, <1>10, <1>11, <1>12, <1>13, <1>14, Continued, RowStep

\* A new row is sound.
LEMMA Inserts ==
  ASSUME IInv, NEW p \in Handlers, NEW row \in Row, Insert(p, row), Grows,
         Sound(row)'
  PROVE  IInv'
<1>1. /\ nextId \in Ids /\ nextId' = nextId + 1 /\ uname' = uname /\ had' = had
      /\ rows' = [rows EXCEPT ![nextId] = row]
      /\ task' = [task EXCEPT ![p] = Idle]
  BY MembersAssumption DEF Insert, IInv, Typed, Ids
<1>2. \A j \in Ids : rows'[j] = IF j = nextId THEN row ELSE rows[j]
  BY <1>1 DEF IInv, Typed
<1>3. rows' \in [Ids -> Row] /\ nextId' \in Nat /\ nextId' >= nextId
  BY <1>1 DEF IInv, Typed
<1>4. Fresh'
  BY <1>1, <1>2, MembersAssumption DEF IInv, Fresh, Typed, Ids
<1>5. \A j \in Ids : RowKept(p, j)
  BY <1>1, <1>2, MembersAssumption DEF RowKept, IInv, Fresh, Typed, Ids
<1>6. RowsGranted'
  <2> SUFFICES ASSUME NEW j \in Ids PROVE RowGranted(j)'
    BY DEF RowsGranted
  <2>1. CASE j = nextId
    BY <1>1, <1>2, <2>1 DEF RowGranted
  <2>2. CASE j # nextId
    BY <1>2, <2>2, RowsStaySound
  <2> QED BY <2>1, <2>2
<1>7. /\ task' \in [Handlers -> Task] /\ task'[p] = Idle
      /\ \A q \in Handlers \ {p} : SameTask(task'[q], task[q])
  BY <1>1, Defaults DEF IInv, Typed, SameTask
<1>8. TaskKnown(Idle)' /\ Carries(p, Idle)
  BY DEF TaskKnown, SeenKnown, StartKnown, HoldsRow, Carries, StartStages, Idle, Ids
<1> QED BY <1>1, <1>3, <1>4, <1>5, <1>6, <1>7, <1>8, Defaults, RowStep

LEMMA AddPlaceholderKeeps ==
  ASSUME IInv, NEW p \in Handlers, AddPlaceholder(p)
  PROVE  IInv'
<1> DEFINE row == NewRow(NoAccount, task[p].name, task[p].full, TRUE)
<1>1. Insert(p, row) /\ Grants({task[p].name}) /\ had' = had
  BY DEF AddPlaceholder, Insert
<1>2. row \in Row /\ row.tg = NoAccount /\ row.name = task[p].name
  BY DEF NewRow, Row, IInv, Typed, Task
<1>3. Grows /\ row.name \in granted'
  BY <1>1, <1>2, GrantsGrow
<1> HIDE DEF row
<1>c. PICK c \in Row : c = row
  BY <1>2
<1>4. Sound(c)'
  BY <1>2, <1>3, <1>c DEF Sound
<1> QED BY <1>1, <1>3, <1>4, <1>c, Inserts

LEMMA StartCreateKeeps ==
  ASSUME IInv, NEW p \in Handlers, NEW f \in FullNames, StartCreate(p, f)
  PROVE  IInv'
<1> DEFINE t == task[p]
<1>1. /\ t \in Task /\ t.acc \in Accounts /\ t.name \in Names \cup {NoName}
      /\ t.name \in had[t.acc]
  BY DEF StartCreate, IInv, Typed, TasksKnown, TaskKnown, StartKnown, StartStages, Task
<1>2. granted' = granted /\ had' = had /\ Tells(p, f)
  BY DEF StartCreate, Insert
<1>g. Grows /\ f \in told'[t.acc]
  BY <1>1, <1>2, TellsGrow
<1>a. PICK a \in Accounts : a = t.acc
  BY <1>1
<1>b. t.name \in had'[a] /\ f \in told'[a]
  BY <1>1, <1>2, <1>g, <1>a
<1>3. CASE Insert(p, NewRow(t.acc, t.name, f, FALSE))
  <2> DEFINE row == NewRow(t.acc, t.name, f, FALSE)
  <2>1. /\ row \in Row /\ ~row.allowed /\ row.tg = t.acc /\ row.name = t.name
        /\ row.full = f
    BY <1>1 DEF NewRow, Row
  <2>i. Insert(p, row)
    BY <1>3
  <2> HIDE DEF row
  <2>c. PICK c \in Row : c = row
    BY <2>1
  <2>a. c.tg = a /\ a # NoAccount /\ ~c.allowed /\ c.name = t.name /\ c.full = f
    BY <1>a, <2>1, <2>c, MembersAssumption
  <2>b. c.name \in had'[a] /\ c.full \in told'[a]
    BY <1>b, <2>a
  <2>2. Sound(c)'
    BY <2>a, <2>b DEF Sound
  <2> QED BY <1>g, <2>i, <2>2, <2>c, Inserts
<1>4. ASSUME NEW i \in RowsOf(t.acc),
             rows' = [rows EXCEPT ![i].name = t.name, ![i].full = f],
             Continue(p, Idle, {i}),
             UNCHANGED <<nextId, admins, uname, chat, invited, requests, had>>
      PROVE  IInv'
  <2>1. i \in Ids /\ i \in Stored /\ rows[i] \in Row /\ rows[i].tg = t.acc
    BY StoredRows DEF RowsOf
  <2>2. rows[i] # NoRow /\ rows[i].tg # NoAccount
    BY <1>1, <2>1, MembersAssumption DEF Stored
  <2>3. /\ rows' \in [Ids -> Row]
        /\ rows'[i].tg = rows[i].tg /\ rows'[i].allowed = rows[i].allowed
        /\ rows'[i].name = t.name /\ rows'[i].full = f
        /\ \A j \in Ids \ {i} : rows'[j] = rows[j]
    BY <1>1, <1>4, <2>1 DEF IInv, Typed, Row
  <2>4. nextId' = nextId /\ uname' = uname /\ had' = had /\ nextId \in Nat
    BY <1>4 DEF IInv, Typed
  <2>5. Fresh'
    BY <2>1, <2>2, <2>3, <2>4 DEF IInv, Fresh
  <2>6. \A j \in Ids : RowKept(p, j)
    BY <2>2, <2>3 DEF RowKept, IInv, Fresh
  <2>7. RowsGranted'
    <3>1. PICK c \in Row : c = rows'[i]
      BY <2>1, <2>3
    <3>2. Sound(rows[i]) /\ (rows[i].allowed => Entitled(a))
      BY <1>a, <2>1, <2>2 DEF IInv, RowsGranted, RowGranted, Sound
    <3>3. Entitled(a) => Entitled(a)'
      BY <1>g DEF Entitled, Grows
    <3>4. /\ c.tg = a /\ a # NoAccount /\ c.name \in had'[a] /\ c.full \in told'[a]
          /\ c.allowed => Entitled(a)'
      BY <1>a, <1>b, <2>1, <2>2, <2>3, <3>1, <3>2, <3>3
    <3>5. Sound(c)'
      BY <3>4 DEF Sound
    <3>6. ASSUME NEW j \in Ids PROVE RowGranted(j)'
      <4>1. CASE j = i
        BY <3>1, <3>5, <4>1 DEF RowGranted
      <4>2. CASE j # i
        BY <1>g, <2>3, <4>2, RowsStaySound
      <4> QED BY <4>1, <4>2
    <3> QED BY <3>6 DEF RowsGranted
  <2>8. TaskKnown(Idle)' /\ Carries(p, Idle)
    BY DEF TaskKnown, SeenKnown, StartKnown, HoldsRow, Carries, StartStages, Idle, Ids
  <2>9. nextId' \in Nat /\ nextId' >= nextId
    BY <2>4
  <2> QED BY <1>4, <1>g, <2>3, <2>4, <2>5, <2>6, <2>7, <2>8, <2>9, Defaults, Continued, RowStep
<1> QED BY <1>3, <1>4 DEF StartCreate

\* Rows that keep their columns, but for access or a ban that is taken.
LEMMA TakesOnly ==
  ASSUME IInv, NEW p \in Handlers, NEW t \in Task, Continue(p, t, task[p].ids),
         UNCHANGED <<nextId, uname, had, granted, told>>,
         rows' \in [Ids -> Row],
         \A j \in Ids : \/ rows'[j] = rows[j]
                       \/ /\ rows[j] # NoRow /\ rows'[j].tg = rows[j].tg
                          /\ rows'[j].name = rows[j].name
                          /\ rows'[j].full = rows[j].full
                          /\ rows'[j].allowed => rows[j].allowed,
         t = Idle \/ t = NextKick(task[p])
  PROVE  IInv'
<1>1. Grows /\ nextId \in Nat
  BY DEF Grows, IInv, Typed
<1>2. Fresh'
  BY DEF IInv, Fresh
<1>3. \A j \in Ids : RowKept(p, j)
  BY DEF RowKept, IInv, Fresh
<1>4. RowsGranted'
  <2> SUFFICES ASSUME NEW j \in Ids PROVE RowGranted(j)'
    BY DEF RowsGranted
  <2>1. CASE rows'[j] = rows[j]
    BY <1>1, <2>1, RowsStaySound
  <2>2. CASE /\ rows[j] # NoRow /\ rows'[j].tg = rows[j].tg
             /\ rows'[j].name = rows[j].name /\ rows'[j].full = rows[j].full
             /\ rows'[j].allowed => rows[j].allowed
    <3>1. PICK row \in Row, c \in Row : row = rows[j] /\ c = rows'[j]
      BY DEF IInv, Typed
    <3>2. Sound(row)'
      BY <1>1, <2>2, <3>1, SoundStays DEF IInv, RowsGranted, RowGranted
    <3>3. Sound(c)'
      BY <2>2, <3>1, <3>2 DEF Sound
    <3> QED BY <3>1, <3>3 DEF RowGranted
  <2> QED BY <2>1, <2>2
<1>5. task[p] \in Task /\ TaskKnown(task[p])
  BY DEF IInv, Typed, TasksKnown
<1>6. TaskKnown(t) /\ t.at \notin StartStages
  BY <1>5, NextKickKnown, IdleKnown DEF TaskKnown
<1>7. TaskKnown(t)'
  <2>s. PICK seen \in Row : seen = t.seen
    BY DEF Task
  <2>1. t.id \in Ids => Sound(seen)'
    BY <1>1, <1>6, <2>s, SoundStays DEF TaskKnown, SeenKnown
  <2>2. SeenKnown(t)'
    BY <1>6, <2>s, <2>1 DEF TaskKnown, SeenKnown
  <2> QED BY <1>6, <2>2 DEF TaskKnown, StartKnown, HoldsRow, StartStages
<1>8. nextId' \in Nat /\ nextId' >= nextId
  BY <1>1
<1> QED BY <1>1, <1>2, <1>3, <1>4, <1>6, <1>7, <1>8, Continued, RowStep DEF Carries

\* The bulk sync takes access, and the nightly job bans.
LEMMA BulkWriteKeeps ==
  ASSUME IInv, NEW p \in Handlers, BulkWrite(p) \/ LiftWrite(p)
  PROVE  IInv'
<1>1. task[p] \in Task /\ task[p].ids \subseteq Stored /\ SeenKnown(task[p])
  BY DEF BulkWrite, LiftWrite, IInv, Typed, TasksKnown, TaskKnown
<1>2. PICK t \in Task : /\ Continue(p, t, task[p].ids)
                        /\ t = Idle \/ t = NextKick(task[p])
  BY <1>1, NextKickKnown, Defaults DEF BulkWrite, LiftWrite
<1>3. rows \in [Ids -> Row]
  BY DEF IInv, Typed
<1>4. UNCHANGED <<nextId, uname, had, granted, told>>
  BY DEF BulkWrite, LiftWrite
<1>5. CASE BulkWrite(p)
  <2>1. rows' = [j \in Ids |-> IF j \in task[p].ids THEN [rows[j] EXCEPT !.allowed = FALSE]
                               ELSE rows[j]]
    BY <1>5 DEF BulkWrite
  <2>2. /\ rows' \in [Ids -> Row]
        /\ \A j \in Ids : \/ rows'[j] = rows[j]
                          \/ /\ rows[j] # NoRow /\ rows'[j].tg = rows[j].tg
                             /\ rows'[j].name = rows[j].name
                             /\ rows'[j].full = rows[j].full
                             /\ rows'[j].allowed => rows[j].allowed
    BY <1>1, <1>3, <2>1 DEF Row, Stored
  <2> QED BY <1>2, <1>4, <2>2, TakesOnly
<1>6. CASE LiftWrite(p)
  <2>1. rows' = [j \in Ids |-> IF j \in task[p].ids THEN [rows[j] EXCEPT !.banned = FALSE]
                               ELSE rows[j]]
    BY <1>6 DEF LiftWrite
  <2>2. /\ rows' \in [Ids -> Row]
        /\ \A j \in Ids : \/ rows'[j] = rows[j]
                          \/ /\ rows[j] # NoRow /\ rows'[j].tg = rows[j].tg
                             /\ rows'[j].name = rows[j].name
                             /\ rows'[j].full = rows[j].full
                             /\ rows'[j].allowed => rows[j].allowed
    BY <1>1, <1>3, <2>1 DEF Row, Stored
  <2> QED BY <1>2, <1>4, <2>2, TakesOnly
<1> QED BY <1>5, <1>6

-----------------------------------------------------------------------------
(* Theorems *)

LEMMA UpdateKeeps ==
  ASSUME IInv, NEW p \in Handlers, Update(p)
  PROVE  IInv'
BY ReceiveKeeps, CommandKeeps, RevokeAgainKeeps, AddUserKeeps, BulkLoadKeeps,
   LoadByIdKeeps, LiftLoadKeeps
   DEF Update

LEMMA WorkKeeps ==
  ASSUME IInv, NEW p \in Handlers, Work(p)
  PROVE  IInv'
BY StartLookupKeeps, StartBindKeeps, StartCreateKeeps, StartFinishKeeps,
   ChangeRowKeeps, DeleteRowKeeps, GrantWriteKeeps, AddPlaceholderKeeps,
   BulkWriteKeeps, BulkCheckKeeps, QuietWork
   DEF Work

LEMMA Step == IInv /\ [Next]_vars => IInv'
<1> SUFFICES ASSUME IInv, [Next]_vars PROVE IInv'
  OBVIOUS
<1>1. CASE UNCHANGED vars
  BY <1>1 DEF vars, IInv, Typed, Fresh, Usernames, RowsGranted, RowGranted,
              TasksKnown, TaskKnown, SeenKnown, StartKnown, HoldsRow, OneCarrier,
              Sound, Entitled
<1>2. CASE Next
  BY <1>2, UpdateKeeps, WorkKeeps, JoinKeeps, RenameKeeps DEF Next
<1> QED BY <1>1, <1>2

\* The table has what admins granted, and each handler knows of its row what
\* its write relies on, in every reachable state.
THEOREM Invariant == Spec => []IInv
BY InitHolds, Step, PTL DEF Spec

\* Nobody comes by access that no admin meant them to have: an account whose
\* row is allowed has had a username that was granted, has come with the full
\* name a grant was made out to, or was let in again by a revert of its warning
\* (resolve_start_user, allow_or_add_user, grant_form_pass_access, allow_user,
\* revert_latest_warning).
THEOREM AccessGranted == Spec => []AccessWasGranted
<1>1. ASSUME IInv, NEW a \in Accounts, HasAccess(a)
      PROVE  ({a} \cup had[a]) \cap granted # {}
  <2>1. PICK i \in Ids : rows[i] # NoRow /\ rows[i].tg = a /\ rows[i].allowed
    BY <1>1 DEF HasAccess, RowsOf, Stored
  <2>2. Sound(rows[i])
    BY <1>1, <2>1 DEF IInv, RowsGranted, RowGranted
  <2> QED BY <2>1, <2>2, MembersAssumption DEF Sound, Entitled
<1>2. IInv => AccessWasGranted
  BY <1>1 DEF AccessWasGranted
<1> QED BY Invariant, <1>2, PTL

-----------------------------------------------------------------------------
(* What is told and who is kicked *)

\* An account has one row.
OneRow == \A i, j \in Ids : rows[i].tg = rows[j].tg /\ rows[i].tg # NoAccount => i = j

\* The rows in hand.
Touched(t) == ({t.id} \cup t.ids) \cap Ids

\* One of them is the row of account a, and has no access.
Out(t, a) == a # NoAccount /\ \E i \in Touched(t) : rows[i].tg = a /\ ~rows[i].allowed

\* What a handler has in hand at each of its stages.
Stage(t) ==
  /\ t.at \notin {"bulk", "check", "kick"} => t.todo = {}
  /\ t.at = "grant" => t.id \notin t.ids /\ t.op \in {"add", "form"}

\* Unless another has written them, the rows in hand are as they were read, and
\* after the commit as they were written.
InHandKnown(t) ==
  /\ t.at \in {"write", "grant"} => rows[t.id] = t.seen /\ t.seen # NoRow
  /\ t.at = "dm" => /\ t.id \in Ids /\ t.acc # NoAccount
                    /\ rows[t.id].tg = t.acc /\ rows[t.id].allowed
  /\ t.at = "bulk" => \A a \in t.todo : \E i \in t.ids : rows[i].tg = a
  /\ t.at = "check" => \A a \in t.todo : Out(t, a)
  /\ t.at = "kick" => \A a \in t.todo \cup {t.acc} : Out(t, a)

Ready(t) == Stage(t) /\ (t.overtaken \/ InHandKnown(t))

OutcomeKnown == OneRow /\ \A p \in Handlers : Ready(task[p])

\* Stages at which nothing is relied on.
LEMMA Unready ==
  ASSUME NEW t \in Task, t.todo = {},
         t.at \notin {"write", "grant", "bulk", "check", "kick", "dm"}
  PROVE  Ready(t)
BY DEF Ready, Stage, InHandKnown

LEMMA IdleReady == Ready(Idle) /\ Ready(Idle)'
BY DEF Ready, Stage, InHandKnown, Idle

LEMMA InitOutcome == Init => OutcomeKnown
<1> SUFFICES ASSUME Init PROVE OutcomeKnown
  OBVIOUS
<1>1. OneRow
  BY DEF Init, OneRow, NoRow
<1>2. \A p \in Handlers : task[p] = Idle
  BY DEF Init
<1> QED BY <1>1, <1>2, IdleReady DEF OutcomeKnown

\* A task is as ready as before while its rows are not written. Nothing that a
\* handler relies on is that a row is missing.
LEMMA StaysReady ==
  ASSUME NEW t \in Task, Ready(t), HoldsRow(t),
         \A i \in Touched(t) : rows[i] # NoRow => rows'[i] = rows[i]
  PROVE  Ready(t)'
<1>1. Stage(t)'
  BY DEF Ready, Stage
<1>2. ASSUME ~t.overtaken PROVE InHandKnown(t)'
  <2>0. InHandKnown(t)
    BY <1>2 DEF Ready
  <2>t. t.todo \subseteq Accounts /\ t.ids \subseteq Ids
    BY DEF Task
  <2>1. \A a, i : a # NoAccount /\ rows[i].tg = a => rows[i] # NoRow
    BY DEF NoRow
  <2>2. \A a : Out(t, a) => Out(t, a)'
    <3> SUFFICES ASSUME NEW a, a # NoAccount, NEW i \in Touched(t),
                        rows[i].tg = a, ~rows[i].allowed
                 PROVE  Out(t, a)'
      BY DEF Out
    <3>1. rows'[i] = rows[i]
      BY <2>1
    <3> QED BY <3>1 DEF Out, Touched
  <2>3. ASSUME t.at \in {"write", "grant"} PROVE rows'[t.id] = t.seen /\ t.seen # NoRow
    BY <2>0, <2>3 DEF InHandKnown, HoldsRow, Touched
  <2>4. ASSUME t.at = "dm"
        PROVE  t.id \in Ids /\ t.acc # NoAccount /\ rows'[t.id].tg = t.acc /\ rows'[t.id].allowed
    <3>1. t.id \in Ids /\ t.acc # NoAccount /\ rows[t.id].tg = t.acc /\ rows[t.id].allowed
      BY <2>0, <2>4 DEF InHandKnown
    <3>2. rows'[t.id] = rows[t.id]
      BY <2>1, <3>1 DEF Touched
    <3> QED BY <3>1, <3>2
  <2>5. ASSUME t.at = "bulk", NEW a \in t.todo PROVE \E i \in t.ids : rows'[i].tg = a
    <3>1. PICK i \in t.ids : rows[i].tg = a
      BY <2>0, <2>5 DEF InHandKnown
    <3>2. rows[i] # NoRow /\ i \in Touched(t)
      BY <2>1, <2>t, <3>1, MembersAssumption DEF Touched
    <3> QED BY <3>1, <3>2
  <2> QED BY <2>0, <2>2, <2>3, <2>4, <2>5 DEF InHandKnown
<1> QED BY <1>1, <1>2 DEF Ready

\* Nor is it less ready for learning that it was overtaken.
LEMMA OvertakenReady ==
  ASSUME NEW t \in Task, Ready(t)
  PROVE  Ready([t EXCEPT !.overtaken = TRUE])'
<1> PICK u \in Task : u = [t EXCEPT !.overtaken = TRUE]
  BY DEF Task
<1>1. /\ u.overtaken /\ u.at = t.at /\ u.todo = t.todo /\ u.id = t.id
      /\ u.ids = t.ids /\ u.op = t.op
  BY DEF Task
<1>2. Ready(u)'
  BY <1>1 DEF Ready, Stage
<1> QED BY <1>2

\* p goes on as t; the rows that it wrote are the rows of ids.
LEMMA WritesReady ==
  ASSUME IInv, OutcomeKnown, NEW p \in Handlers, NEW t \in Task, NEW ids,
         Continue(p, t, ids), \A i \in Ids \ ids : rows'[i] = rows[i],
         OneRow', Ready(t)'
  PROVE  OutcomeKnown'
<1> SUFFICES ASSUME NEW q \in Handlers PROVE Ready(task[q])'
  BY DEF OutcomeKnown
<1>0. PICK u \in Task : u = task[q]
  BY DEF IInv, Typed
<1>1. Ready(u) /\ HoldsRow(u)
  BY <1>0 DEF OutcomeKnown, IInv, TasksKnown, TaskKnown
<1>2. CASE q = p
  <2>1. task'[q] = t
    BY <1>2 DEF Continue
  <2> QED BY <2>1
<1>3. CASE q # p /\ ids \cap ({u.id} \cup u.ids) # {}
  <2>1. task'[q] = [u EXCEPT !.overtaken = TRUE]
    BY <1>0, <1>3 DEF Continue
  <2> QED BY <1>1, <2>1, OvertakenReady
<1>4. CASE q # p /\ ids \cap ({u.id} \cup u.ids) = {}
  <2>1. task'[q] = u
    BY <1>0, <1>4 DEF Continue
  <2>2. \A i \in Touched(u) : rows'[i] = rows[i]
    BY <1>4 DEF Touched
  <2>3. Ready(u)'
    BY <1>1, <2>2, StaysReady
  <2> QED BY <2>1, <2>3
<1> QED BY <1>2, <1>3, <1>4

\* Nothing is written.
LEMMA QuietReady ==
  ASSUME IInv, OutcomeKnown, NEW p \in Handlers, NEW t \in Task, Ready(t),
         rows' = rows, task' = [task EXCEPT ![p] = t]
  PROVE  OutcomeKnown'
<1>1. OneRow' /\ Ready(t)'
  BY DEF OutcomeKnown, OneRow, Ready, Stage, InHandKnown, Out, Touched
<1> SUFFICES ASSUME NEW q \in Handlers PROVE Ready(task[q])'
  BY <1>1 DEF OutcomeKnown
<1>0. PICK u \in Task : u = task[q]
  BY DEF IInv, Typed
<1>2. Ready(u)'
  BY <1>0 DEF OutcomeKnown, Ready, Stage, InHandKnown, Out, Touched
<1>3. task'[q] = IF q = p THEN t ELSE u
  BY <1>0 DEF IInv, Typed
<1>4. CASE q = p
  BY <1>1, <1>3, <1>4
<1>5. CASE q # p
  BY <1>2, <1>3, <1>5
<1> QED BY <1>4, <1>5

-----------------------------------------------------------------------------
(* What is in hand when a request has been read *)

LEMMA LoadRowReady ==
  ASSUME IInv, OutcomeKnown, NEW p \in Handlers, NEW n \in Names,
         NEW i \in Named(n), NEW op \in Ops, LoadRow(p, op, n, i)
  PROVE  OutcomeKnown'
<1> DEFINE t == [Idle EXCEPT !.op = op, !.at = "write", !.name = n, !.id = i,
                             !.seen = rows[i]]
<1>1. i \in Stored /\ rows[i] \in Row /\ rows[i] # NoRow /\ i \in 0..MaxRows
  BY StoredRows, MembersAssumption DEF Named, Ids
<1>2. t \in Task
  BY <1>1, Defaults DEF Task, Ops, Stages
<1>3. t.id = i /\ t.seen = rows[i] /\ t.at = "write" /\ t.todo = {}
  BY DEF Idle
<1>4. rows' = rows /\ task' = [task EXCEPT ![p] = t]
  BY DEF LoadRow, Begin
<1> HIDE DEF t
<1>5. Ready(t)
  BY <1>1, <1>3 DEF Ready, Stage, InHandKnown
<1> QED BY <1>2, <1>4, <1>5, QuietReady

LEMMA LoadByIdReady ==
  ASSUME IInv, OutcomeKnown, NEW p \in Handlers, NEW i \in Stored,
         AutoBan(p, i) \/ Revert(p, i)
  PROVE  OutcomeKnown'
<1>0. PICK op \in {"ban", "revert"} : LoadById(p, op, i)
  BY DEF AutoBan, Revert
<1> DEFINE t == [Idle EXCEPT !.op = op, !.at = "write", !.id = i, !.seen = rows[i]]
<1>1. rows[i] \in Row /\ rows[i] # NoRow /\ i \in 0..MaxRows
  BY StoredRows, MembersAssumption DEF Ids
<1>2. t \in Task
  BY <1>1, Defaults DEF Task, Ops, Stages
<1>3. t.id = i /\ t.seen = rows[i] /\ t.at = "write" /\ t.todo = {}
  BY DEF Idle
<1>4. rows' = rows /\ task' = [task EXCEPT ![p] = t]
  BY <1>0 DEF LoadById, Begin
<1> HIDE DEF t
<1>5. Ready(t)
  BY <1>1, <1>3 DEF Ready, Stage, InHandKnown
<1> QED BY <1>2, <1>4, <1>5, QuietReady

LEMMA LiftLoadReady ==
  ASSUME IInv, OutcomeKnown, NEW p \in Handlers, LiftLoad(p)
  PROVE  OutcomeKnown'
<1>1. PICK due \in SUBSET Ids :
        Begin(p, [Idle EXCEPT !.op = "lift", !.at = "lift", !.ids = due])
  BY DEF LiftLoad, Stored
<1> DEFINE t == [Idle EXCEPT !.op = "lift", !.at = "lift", !.ids = due]
<1>2. t \in Task /\ t.at = "lift" /\ t.todo = {}
  BY Defaults DEF Task, Ops, Stages, Idle
<1>3. rows' = rows /\ task' = [task EXCEPT ![p] = t]
  BY <1>1 DEF Begin
<1> HIDE DEF t
<1> QED BY <1>2, <1>3, Unready, QuietReady

LEMMA RevokeAgainReady ==
  ASSUME IInv, OutcomeKnown, NEW p \in Handlers, NEW n \in Names, RevokeAgain(p, n)
  PROVE  OutcomeKnown'
<1>1. PICK i \in Named(n) :
        /\ IsBound(i) /\ ~rows[i].allowed
        /\ Begin(p, [Idle EXCEPT !.op = "revoke", !.at = "kick", !.name = n,
                                 !.id = i, !.seen = rows[i], !.acc = rows[i].tg])
  BY DEF RevokeAgain
<1> DEFINE t == [Idle EXCEPT !.op = "revoke", !.at = "kick", !.name = n,
                             !.id = i, !.seen = rows[i], !.acc = rows[i].tg]
<1>2. i \in Stored /\ i \in Ids /\ rows[i] \in Row /\ i \in 0..MaxRows
  BY StoredRows, MembersAssumption DEF Named, Ids
<1>3. rows[i].tg \in Accounts \cup {NoAccount}
  BY <1>2 DEF Row
<1>4. t \in Task
  BY <1>2, <1>3, Defaults DEF Task, Ops, Stages
<1>5. t.id = i /\ t.acc = rows[i].tg /\ t.at = "kick" /\ t.todo = {} /\ t.ids = {}
  BY DEF Idle
<1>6. rows' = rows /\ task' = [task EXCEPT ![p] = t]
  BY <1>1 DEF Begin
<1> HIDE DEF t
<1>7. Out(t, t.acc)
  BY <1>1, <1>2, <1>5 DEF Out, Touched, IsBound
<1>8. Ready(t)
  BY <1>5, <1>7 DEF Ready, Stage, InHandKnown
<1> QED BY <1>4, <1>6, <1>8, QuietReady

LEMMA ReceiveReady ==
  ASSUME IInv, OutcomeKnown, NEW p \in Handlers, NEW a \in Accounts, Receive(p, a)
  PROVE  OutcomeKnown'
<1> DEFINE t == [Idle EXCEPT !.op = "start", !.at = "lookup", !.acc = a,
                             !.name = uname[a]]
<1>1. uname[a] \in Names \cup {NoName}
  BY DEF IInv, Typed
<1>2. t \in Task
  BY <1>1, Defaults DEF Task, Ops, Stages
<1>3. t.at = "lookup" /\ t.todo = {}
  BY DEF Idle
<1>4. rows' = rows /\ task' = [task EXCEPT ![p] = t]
  BY DEF Receive, Begin
<1> HIDE DEF t
<1> QED BY <1>2, <1>3, <1>4, Unready, QuietReady

\* The row a grant is for has an account, the placeholders it deletes have none.
LEMMA GrantReady ==
  ASSUME IInv, OutcomeKnown, NEW p \in Handlers, NEW n \in Names,
         NEW f \in FullNames \cup {NoName}, NEW i \in Match(n, f),
         NEW op \in {"add", "form"}, Begin(p, GrantOf(op, n, f, i))
  PROVE  OutcomeKnown'
<1> DEFINE gone == {j \in Named(n) : ~IsBound(j)}
           t == [Idle EXCEPT !.op = op, !.name = n, !.full = f, !.at = "grant",
                             !.id = i, !.seen = rows[i], !.ids = gone]
<1>1. /\ i \in Stored /\ rows[i] \in Row /\ rows[i] # NoRow
      /\ i \in 0..MaxRows /\ IsBound(i)
  BY MatchBound, StoredRows, MembersAssumption DEF Ids
<1>2. gone \in SUBSET Ids /\ i \notin gone
  BY <1>1 DEF Named, Stored
<1>5. rows' = rows /\ task' = [task EXCEPT ![p] = t]
  BY DEF Begin, GrantOf
<1> HIDE DEF gone
<1>3. t \in Task
  BY <1>1, <1>2, Defaults DEF Task, Ops, Stages
<1>4. /\ t.id = i /\ t.seen = rows[i] /\ t.at = "grant" /\ t.todo = {}
      /\ t.op = op /\ t.ids = gone
  BY DEF Idle
<1> HIDE DEF t
<1>6. Ready(t)
  BY <1>1, <1>2, <1>4 DEF Ready, Stage, InHandKnown
<1> QED BY <1>3, <1>5, <1>6, QuietReady

LEMMA AddUserReady ==
  ASSUME IInv, OutcomeKnown, NEW p \in Handlers, NEW n \in Names,
         NEW f \in FullNames \cup {NoName}, AddUser(p, n, f) \/ FormPass(p, n, f)
  PROVE  OutcomeKnown'
<1> DEFINE t == [Idle EXCEPT !.op = "add", !.name = n, !.full = f, !.at = "insert"]
<1>1. t \in Task
  BY Defaults DEF Task, Ops, Stages
<1>2. t.at = "insert" /\ t.todo = {}
  BY DEF Idle
<1>3. CASE Begin(p, t)
  <2>1. rows' = rows /\ task' = [task EXCEPT ![p] = t]
    BY <1>3 DEF Begin
  <2> HIDE DEF t
  <2> QED BY <1>1, <1>2, <2>1, Unready, QuietReady
<1>4. CASE \E i \in Match(n, f), op \in {"add", "form"} : Begin(p, GrantOf(op, n, f, i))
  BY <1>4, GrantReady
<1> QED BY <1>3, <1>4 DEF AddUser, FormPass

LEMMA BulkLoadReady ==
  ASSUME IInv, OutcomeKnown, NEW p \in Handlers, NEW listed \in SUBSET Names,
         BulkLoad(p, listed)
  PROVE  OutcomeKnown'
<1> DEFINE out == {i \in Stored : /\ rows[i].name \notin listed \cup {NoName}
                                  /\ rows[i].allowed
                                  /\ rows[i].tg \notin admins}
           kicks == {rows[i].tg : i \in out} \ {NoAccount}
           t == [Idle EXCEPT !.op = "bulk", !.at = "bulk", !.ids = out, !.todo = kicks]
<1>1. rows' = rows /\ task' = [task EXCEPT ![p] = t]
  BY DEF BulkLoad, Begin
<1>2. out \in SUBSET Ids /\ \A a \in kicks : \E i \in out : rows[i].tg = a
  BY DEF Stored
<1>3. kicks \in SUBSET Accounts
  BY <1>2 DEF IInv, Typed, Row
<1> HIDE DEF out, kicks
<1>4. t \in Task
  BY <1>2, <1>3, Defaults DEF Task, Ops, Stages
<1>5. t.at = "bulk" /\ t.ids = out /\ t.todo = kicks
  BY DEF Idle
<1> HIDE DEF t
<1>6. Ready(t)
  BY <1>2, <1>5 DEF Ready, Stage, InHandKnown
<1> QED BY <1>1, <1>4, <1>6, QuietReady

LEMMA UpdateReady ==
  ASSUME IInv, OutcomeKnown, NEW p \in Handlers, Update(p)
  PROVE  OutcomeKnown'
<1>1. ASSUME NEW n \in Names,
             \/ AllowUser(p, n) \/ UnbanUser(p, n) \/ BanUser(p, n)
             \/ DeleteUser(p, n) \/ Appoint(p, n) \/ Revoke(p, n)
      PROVE  OutcomeKnown'
  BY <1>1, LoadRowReady
     DEF AllowUser, UnbanUser, BanUser, DeleteUser, Appoint, Revoke, Ops
<1> QED BY <1>1, ReceiveReady, RevokeAgainReady, AddUserReady, BulkLoadReady,
           LoadByIdReady, LiftLoadReady DEF Update

-----------------------------------------------------------------------------
(* What goes on without a write *)

\* A /start relies on the rows only when it writes them.
LEMMA StartLookupReady ==
  ASSUME IInv, OutcomeKnown, NEW p \in Handlers, StartLookup(p)
  PROVE  OutcomeKnown'
<1> DEFINE t == task[p]
           waiting == {i \in Named(t.name) : ~IsBound(i)}
<1>0. t \in Task /\ t.at = "lookup" /\ t.todo = {} /\ rows' = rows
  BY DEF StartLookup, Go, IInv, Typed, OutcomeKnown, Ready, Stage
<1>1. ASSUME NEW i \in Stored, NEW at \in {"finish", "bind"}, Go(p, InHand(p, at, i))
      PROVE  OutcomeKnown'
  <2> DEFINE u == InHand(p, at, i)
  <2>1. i \in Ids /\ rows[i] \in Row /\ i \in 0..MaxRows
    BY StoredRows, MembersAssumption DEF Ids, Stored
  <2>2. u \in Task /\ u.at = at /\ u.todo = {}
    BY <1>0, <2>1 DEF InHand, Task, Stages
  <2>3. task' = [task EXCEPT ![p] = u]
    BY <1>1 DEF Go
  <2> HIDE DEF u
  <2> QED BY <1>0, <2>2, <2>3, Unready, QuietReady
<1>2. ASSUME Go(p, [t EXCEPT !.at = "create"])
      PROVE  OutcomeKnown'
  <2> DEFINE u == [t EXCEPT !.at = "create"]
  <2>1. u \in Task /\ u.at = "create" /\ u.todo = {}
    BY <1>0 DEF Task, Stages
  <2>2. task' = [task EXCEPT ![p] = u]
    BY <1>2 DEF Go
  <2> HIDE DEF u
  <2> QED BY <1>0, <2>1, <2>2, Unready, QuietReady
<1>3. RowsOf(t.acc) \subseteq Stored /\ Latest(waiting) \subseteq Stored
  BY DEF RowsOf, Latest, Named
<1> QED BY <1>1, <1>2, <1>3 DEF StartLookup

\* Whoever is still to be kicked is out already.
LEMMA NextKickReady ==
  ASSUME NEW t \in Task, t.overtaken \/ \A a \in t.todo : Out(t, a)
  PROVE  NextKick(t) \in Task /\ Ready(NextKick(t))
<1> DEFINE u == [t EXCEPT !.at = "check"]
<1>1. /\ u \in Task /\ u.at = "check" /\ u.todo = t.todo /\ u.id = t.id
      /\ u.ids = t.ids /\ u.overtaken = t.overtaken
  BY DEF Task, Stages
<1>2. NextKick(t) \in {Idle, u}
  BY DEF NextKick
<1> HIDE DEF u
<1>3. Ready(u)
  BY <1>1 DEF Ready, Stage, InHandKnown, Out, Touched
<1> QED BY <1>1, <1>2, <1>3, IdleReady, Defaults

LEMMA BulkCheckReady ==
  ASSUME IInv, OutcomeKnown, NEW p \in Handlers, BulkCheck(p)
  PROVE  OutcomeKnown'
<1> DEFINE t == task[p]
<1>1. t \in Task /\ t.at = "check" /\ (t.overtaken \/ \A a \in t.todo : Out(t, a))
  BY DEF BulkCheck, IInv, Typed, OutcomeKnown, Ready, InHandKnown
<1>2. PICK a \in t.todo :
        LET rest == [t EXCEPT !.todo = @ \ {a}] IN
          Go(p, IF a \in admins THEN NextKick(rest)
                ELSE [rest EXCEPT !.at = "kick", !.acc = a])
  BY DEF BulkCheck
<1> DEFINE rest == [t EXCEPT !.todo = @ \ {a}]
           u == [rest EXCEPT !.at = "kick", !.acc = a]
<1>3. /\ a \in Accounts /\ rest \in Task /\ rest.id = t.id /\ rest.ids = t.ids
      /\ rest.todo = t.todo \ {a} /\ rest.overtaken = t.overtaken
  BY <1>1, <1>2 DEF Task
<1>4. Go(p, NextKick(rest)) \/ Go(p, u)
  BY <1>2
<1> HIDE DEF rest
<1>5. rest.overtaken \/ \A b \in rest.todo \cup {a} : Out(rest, b)
  BY <1>1, <1>3 DEF Out, Touched
<1>6. /\ u \in Task /\ u.at = "kick" /\ u.id = rest.id /\ u.ids = rest.ids
      /\ u.acc = a /\ u.todo = rest.todo /\ u.overtaken = rest.overtaken
  BY <1>3 DEF Task, Stages
<1> HIDE DEF u
<1>7. Ready(u)
  BY <1>5, <1>6 DEF Ready, Stage, InHandKnown, Out, Touched
<1>8. PICK next \in Task : Ready(next) /\ Go(p, next)
  BY <1>3, <1>4, <1>5, <1>6, <1>7, NextKickReady
<1> QED BY <1>8, QuietReady DEF Go

\* Messages, kicks, appointments and failures.
LEMMA QuietWorkReady ==
  ASSUME IInv, OutcomeKnown, NEW p \in Handlers,
         Kick(p) \/ SendDm(p) \/ NotifyFails(p) \/ Fail(p) \/ AddAdmin(p)
  PROVE  OutcomeKnown'
<1>1. task[p] \in Task /\ Ready(task[p])
  BY DEF IInv, Typed, OutcomeKnown
<1>2. CASE Kick(p) \/ NotifyFails(p)
  <2>1. task' = [task EXCEPT ![p] = NextKick(task[p])] /\ rows' = rows
    BY <1>2 DEF Kick, NotifyFails, Go
  <2>2. task[p].at \in {"dm", "kick"}
    BY <1>2 DEF Kick, NotifyFails
  <2>3. task[p].overtaken \/ \A a \in task[p].todo : Out(task[p], a)
    BY <1>1, <2>2 DEF Ready, Stage, InHandKnown
  <2> QED BY <1>1, <2>1, <2>3, NextKickReady, QuietReady
<1>3. CASE SendDm(p) \/ Fail(p) \/ AddAdmin(p)
  <2>1. task' = [task EXCEPT ![p] = Idle] /\ rows' = rows
    BY <1>3 DEF SendDm, Fail, AddAdmin
  <2> QED BY <2>1, IdleReady, Defaults, QuietReady
<1> QED BY <1>2, <1>3

-----------------------------------------------------------------------------
(* What is in hand when rows have been written *)

\* A transaction that binds no account.
LEMMA CommitReady ==
  ASSUME IInv, OutcomeKnown, NEW p \in Handlers, NEW t \in Task, NEW new \in Row,
         NEW gone \in SUBSET Ids, Commit(p, new, gone, t), task[p].id \in Ids,
         new.tg = task[p].seen.tg, Ready(t)'
  PROVE  OutcomeKnown'
<1> DEFINE i == task[p].id
           r == Flush(rows[i], task[p].seen, new)
<1>1. rows[i] \in Row /\ task[p].seen \in Row
  BY DEF IInv, Typed, Task
<1>2. r.tg = rows[i].tg
  BY <1>1, FlushColumns
<1>3. /\ Continue(p, t, {i} \cup gone)
      /\ rows' = [j \in Ids |-> IF j \in gone THEN NoRow
                                ELSE IF j = i /\ i \in Stored THEN r
                                ELSE rows[j]]
  BY DEF Commit
<1> HIDE DEF r
<1>4. \A j \in Ids : rows'[j].tg \in {rows[j].tg, NoAccount}
  BY <1>2, <1>3 DEF NoRow
<1>5. OneRow'
  BY <1>4 DEF OutcomeKnown, OneRow
<1>6. \A j \in Ids \ ({i} \cup gone) : rows'[j] = rows[j]
  BY <1>3
<1> HIDE DEF i
<1> QED BY <1>3, <1>5, <1>6, WritesReady

\* The row in hand after a commit: what was changed is as it was set, the
\* account as it was read.
LEMMA Committed ==
  ASSUME IInv, NEW p \in Handlers, NEW t, NEW new \in Row,
         NEW gone \in SUBSET Ids, Commit(p, new, gone, t),
         task[p].id \in Ids \ gone, new.tg = task[p].seen.tg,
         rows[task[p].id] = task[p].seen, task[p].seen # NoRow
  PROVE  /\ rows'[task[p].id].tg = task[p].seen.tg
         /\ rows'[task[p].id].allowed = new.allowed
<1> DEFINE i == task[p].id
           r == Flush(rows[i], task[p].seen, new)
<1>1. rows[i] \in Row /\ task[p].seen \in Row
  BY DEF IInv, Typed, Task
<1>2. r.tg = rows[i].tg /\ r.allowed = new.allowed
  BY <1>1, FlushColumns
<1>3. rows'[i] = r
  BY DEF Commit, Stored
<1> QED BY <1>2, <1>3

\* Who is told, or kicked, next: the account of the row as it was read.
LEMMA AfterIs ==
  ASSUME IInv, NEW p \in Handlers, After(p) # Idle
  PROVE  /\ After(p) \in Task /\ task[p].seen.tg # NoAccount
         /\ After(p).at = IF task[p].op = "revoke" THEN "kick" ELSE "dm"
         /\ task[p].op \in {"allow", "revert", "add", "form", "revoke"}
         /\ After(p).acc = task[p].seen.tg /\ After(p).id = task[p].id
         /\ After(p).ids = task[p].ids /\ After(p).todo = task[p].todo
         /\ After(p).op = task[p].op /\ After(p).overtaken = task[p].overtaken
<1>1. task[p] \in Task
  BY DEF IInv, Typed
<1>2. PICK at \in {"dm", "kick"} :
        /\ task[p].seen.tg # NoAccount
        /\ After(p) = [task[p] EXCEPT !.at = at, !.acc = task[p].seen.tg]
        /\ at = IF task[p].op = "revoke" THEN "kick" ELSE "dm"
        /\ task[p].op \in {"allow", "revert", "add", "form", "revoke"}
  BY DEF After
<1> QED BY <1>1, <1>2 DEF Task, Row, Stages

LEMMA ChangeRowReady ==
  ASSUME IInv, OutcomeKnown, NEW p \in Handlers, ChangeRow(p)
  PROVE  OutcomeKnown'
<1> DEFINE t == task[p]
           new == Changed(t.op, t.seen)
<1>1. /\ t.op \in {"allow", "unban", "ban", "revoke", "revert"} /\ t.at = "write"
      /\ Commit(p, new, {}, After(p))
  BY DEF ChangeRow
<1>2. t \in Task /\ t.seen \in Row /\ t.id \in Ids
  BY <1>1 DEF IInv, Typed, TasksKnown, TaskKnown, HoldsRow, Task
<1>3. /\ new \in Row /\ new.tg = t.seen.tg
      /\ t.op \in {"allow", "revert"} => new.allowed
      /\ t.op = "revoke" => ~new.allowed
  BY <1>1, <1>2 DEF Changed, Row
<1>4. t.todo = {} /\ (t.overtaken \/ (rows[t.id] = t.seen /\ t.seen # NoRow))
  BY <1>1 DEF OutcomeKnown, Ready, Stage, InHandKnown
<1>u. PICK u \in Task : u = After(p)
  BY AfterKnown
<1> HIDE DEF new
<1>5. ASSUME ~t.overtaken
      PROVE  rows'[t.id].tg = t.seen.tg /\ rows'[t.id].allowed = new.allowed
  BY <1>1, <1>2, <1>3, <1>4, <1>5, Committed
<1>6. CASE u = Idle
  BY <1>1, <1>2, <1>3, <1>6, <1>u, IdleReady, CommitReady
<1>7. CASE u # Idle
  <2>1. /\ u.acc = t.seen.tg /\ u.acc # NoAccount /\ u.id = t.id /\ u.todo = {}
        /\ u.overtaken = t.overtaken
        /\ u.at = IF t.op = "revoke" THEN "kick" ELSE "dm"
        /\ t.op \in {"allow", "revert", "revoke"}
    BY <1>1, <1>4, <1>7, <1>u, AfterIs
  <2>2. CASE t.op \in {"allow", "revert"}
    <3>1. Ready(u)'
      BY <1>2, <1>3, <1>5, <2>1, <2>2 DEF Ready, Stage, InHandKnown
    <3> QED BY <1>1, <1>2, <1>3, <1>u, <3>1, CommitReady
  <2>3. CASE t.op = "revoke"
    <3>1. ~t.overtaken => Out(u, u.acc)'
      BY <1>2, <1>3, <1>5, <2>1, <2>3 DEF Out, Touched
    <3>2. Ready(u)'
      BY <2>1, <2>3, <3>1 DEF Ready, Stage, InHandKnown
    <3> QED BY <1>1, <1>2, <1>3, <1>u, <3>2, CommitReady
  <2> QED BY <2>1, <2>2, <2>3
<1> QED BY <1>6, <1>7

LEMMA DeleteRowReady ==
  ASSUME IInv, OutcomeKnown, NEW p \in Handlers, DeleteRow(p)
  PROVE  OutcomeKnown'
<1>1. /\ task[p].seen \in Row /\ task[p].id \in Ids
      /\ Commit(p, task[p].seen, {task[p].id}, Idle)
  BY DEF DeleteRow, IInv, Typed, TasksKnown, TaskKnown, HoldsRow, Task
<1> QED BY <1>1, Defaults, IdleReady, CommitReady

LEMMA GrantWriteReady ==
  ASSUME IInv, OutcomeKnown, NEW p \in Handlers, GrantWrite(p)
  PROVE  OutcomeKnown'
<1> DEFINE t == task[p]
           new == [t.seen EXCEPT !.allowed = TRUE, !.name = t.name,
                                 !.full = IF t.full = NoName THEN @ ELSE t.full]
           next == IF t.seen.allowed THEN Idle ELSE After(p)
<1>1. Commit(p, new, t.ids, next) /\ t.at = "grant"
  BY DEF GrantWrite
<1>2. t \in Task /\ t.seen \in Row /\ t.id \in Ids
  BY <1>1 DEF IInv, Typed, TasksKnown, TaskKnown, HoldsRow, Task
<1>3. t.ids \in SUBSET Ids
  BY <1>2 DEF Task
<1>4. new \in Row /\ new.tg = t.seen.tg /\ new.allowed
  BY <1>2 DEF Row, Task
<1>5. /\ t.todo = {} /\ t.id \notin t.ids /\ t.op \in {"add", "form"}
      /\ t.overtaken \/ (rows[t.id] = t.seen /\ t.seen # NoRow)
  BY <1>1 DEF OutcomeKnown, Ready, Stage, InHandKnown
<1>u. PICK u \in Task : u = next
  BY AfterKnown, Defaults
<1>6. u # Idle => u = After(p) /\ After(p) # Idle
  BY <1>u
<1> HIDE DEF new, next
<1>7. ASSUME ~t.overtaken
      PROVE  rows'[t.id].tg = t.seen.tg /\ rows'[t.id].allowed
  BY <1>1, <1>2, <1>3, <1>4, <1>5, <1>7, Committed
<1>8. Ready(u)'
  <2>1. CASE u = Idle
    BY <2>1, IdleReady
  <2>2. CASE u # Idle
    <3>1. /\ u.acc = t.seen.tg /\ u.acc # NoAccount /\ u.id = t.id /\ u.todo = {}
          /\ u.overtaken = t.overtaken /\ u.at = "dm"
      BY <1>5, <1>6, <2>2, AfterIs
    <3> QED BY <1>2, <1>7, <3>1 DEF Ready, Stage, InHandKnown
  <2> QED BY <2>1, <2>2
<1> QED BY <1>1, <1>2, <1>3, <1>4, <1>8, <1>u, CommitReady

LEMMA StartFinishReady ==
  ASSUME IInv, OutcomeKnown, NEW p \in Handlers, NEW f \in FullNames, StartFinish(p, f)
  PROVE  OutcomeKnown'
<1> DEFINE t == task[p]
           new == [t.seen EXCEPT !.name = IF t.name = NoName THEN @ ELSE t.name,
                                 !.full = IF @ = NoName THEN f ELSE @]
           gone == IF t.at = "finish" THEN Stale(t.name, t.id) ELSE {}
<1>1. Commit(p, new, gone, Idle)
  BY DEF StartFinish
<1>2. t \in Task /\ t.seen \in Row /\ t.id \in Ids
  BY DEF StartFinish, IInv, Typed, TasksKnown, TaskKnown, StartKnown, StartStages, Task
<1>3. gone \in SUBSET Ids
  BY DEF Stale, Named, Stored
<1>4. new \in Row /\ new.tg = t.seen.tg
  BY <1>2 DEF Row, Task
<1> HIDE DEF new, gone
<1> QED BY <1>1, <1>2, <1>3, <1>4, Defaults, IdleReady, CommitReady

\* A placeholder is bound to an account that has no row.
LEMMA StartBindReady ==
  ASSUME IInv, OutcomeKnown, NEW p \in Handlers, StartBind(p)
  PROVE  OutcomeKnown'
<1> DEFINE t == task[p]
           i == t.id
           new == [t.seen EXCEPT !.tg = t.acc]
           r == Flush(rows[i], t.seen, new)
<1>0. /\ t.at = "bind" /\ RowsOf(t.acc) = {}
      /\ Commit(p, new, {}, [t EXCEPT !.at = "fill", !.seen = r])
  BY DEF StartBind
<1>1. /\ t \in Task /\ t.seen \in Row /\ i \in Ids /\ rows[i] \in Row
      /\ t.acc \in Accounts /\ t.seen.tg = NoAccount /\ t.todo = {}
  BY <1>0 DEF IInv, Typed, TasksKnown, TaskKnown, StartKnown, StartStages, Task,
              OutcomeKnown, Ready, Stage
<1>2. new \in Row /\ new.tg = t.acc
  BY <1>1 DEF Row
<1> HIDE DEF new
<1>3. r \in Row /\ r.tg = t.acc
  <2>1. t.acc # t.seen.tg
    BY <1>1, MembersAssumption
  <2> QED BY <1>1, <1>2, <2>1, FlushColumns
<1>4. /\ Continue(p, [t EXCEPT !.at = "fill", !.seen = r], {i} \cup {})
      /\ rows' = [j \in Ids |-> IF j = i /\ i \in Stored THEN r ELSE rows[j]]
  BY <1>0 DEF Commit
<1> HIDE DEF r
<1>u. PICK u \in Task : u = [t EXCEPT !.at = "fill", !.seen = r]
  BY <1>1, <1>3 DEF Task, Stages
<1>5. u.at = "fill" /\ u.todo = {}
  BY <1>1, <1>u DEF Task
<1>6. \A j \in Ids : rows[j].tg # t.acc
  BY <1>0, <1>1, MembersAssumption DEF RowsOf, Stored, NoRow
<1>7. OneRow'
  <2>1. \A j \in Ids : rows'[j].tg = rows[j].tg \/ (j = i /\ rows'[j].tg = t.acc)
    BY <1>3, <1>4
  <2> QED BY <1>6, <2>1 DEF OutcomeKnown, OneRow
<1>8. Ready(u)'
  BY <1>5 DEF Ready, Stage, InHandKnown
<1>9. \A j \in Ids \ ({i} \cup {}) : rows'[j] = rows[j]
  BY <1>4
<1> HIDE DEF i
<1> QED BY <1>4, <1>7, <1>8, <1>9, <1>u, WritesReady

\* A row that is inserted is in no handler's hand.
LEMMA InsertReady ==
  ASSUME IInv, OutcomeKnown, NEW p \in Handlers, NEW row \in Row, Insert(p, row),
         row.tg # NoAccount => \A j \in Ids : rows[j].tg # row.tg
  PROVE  OutcomeKnown'
<1>1. /\ nextId \in Ids /\ rows' = [rows EXCEPT ![nextId] = row]
      /\ task' = [task EXCEPT ![p] = Idle]
  BY MembersAssumption DEF Insert, IInv, Typed, Ids
<1>2. \A j \in Ids : rows'[j] = IF j = nextId THEN row ELSE rows[j]
  BY <1>1 DEF IInv, Typed
<1>3. rows[nextId] = NoRow
  BY <1>1, MembersAssumption DEF IInv, Fresh, Typed, Ids
<1>4. OneRow'
  BY <1>2 DEF OutcomeKnown, OneRow
<1> SUFFICES ASSUME NEW q \in Handlers PROVE Ready(task[q])'
  BY <1>4 DEF OutcomeKnown
<1>u. PICK u \in Task : u = task[q]
  BY DEF IInv, Typed
<1>5. Ready(u) /\ HoldsRow(u)
  BY <1>u DEF OutcomeKnown, IInv, TasksKnown, TaskKnown
<1>6. \A i \in Touched(u) : rows[i] # NoRow => rows'[i] = rows[i]
  BY <1>2, <1>3 DEF Touched
<1>7. Ready(u)'
  BY <1>5, <1>6, StaysReady
<1>8. task'[q] = IF q = p THEN Idle ELSE u
  BY <1>1, <1>u DEF IInv, Typed
<1>9. CASE q = p
  BY <1>8, <1>9, IdleReady
<1>10. CASE q # p
  BY <1>7, <1>8, <1>10
<1> QED BY <1>9, <1>10

LEMMA AddPlaceholderReady ==
  ASSUME IInv, OutcomeKnown, NEW p \in Handlers, AddPlaceholder(p)
  PROVE  OutcomeKnown'
<1> DEFINE row == NewRow(NoAccount, task[p].name, task[p].full, TRUE)
<1>1. Insert(p, row)
  BY DEF AddPlaceholder
<1>2. row \in Row /\ row.tg = NoAccount
  BY DEF NewRow, Row, IInv, Typed, Task
<1> HIDE DEF row
<1> QED BY <1>1, <1>2, InsertReady

\* An account gets a row when it has none, or its row gets its username.
LEMMA StartCreateReady ==
  ASSUME IInv, OutcomeKnown, NEW p \in Handlers, NEW f \in FullNames, StartCreate(p, f)
  PROVE  OutcomeKnown'
<1> DEFINE t == task[p]
<1>1. t \in Task /\ t.acc \in Accounts /\ t.name \in Names \cup {NoName}
  BY DEF StartCreate, IInv, Typed, TasksKnown, TaskKnown, StartKnown, StartStages, Task
<1>2. CASE RowsOf(t.acc) = {} /\ Insert(p, NewRow(t.acc, t.name, f, FALSE))
  <2> DEFINE row == NewRow(t.acc, t.name, f, FALSE)
  <2>1. row \in Row /\ row.tg = t.acc
    BY <1>1 DEF NewRow, Row
  <2>2. \A j \in Ids : rows[j].tg # t.acc
    BY <1>1, <1>2, MembersAssumption DEF RowsOf, Stored, NoRow
  <2> HIDE DEF row
  <2> QED BY <1>2, <2>1, <2>2, InsertReady DEF row
<1>3. ASSUME NEW i \in RowsOf(t.acc),
             rows' = [rows EXCEPT ![i].name = t.name, ![i].full = f],
             Continue(p, Idle, {i})
      PROVE  OutcomeKnown'
  <2>1. i \in Ids /\ rows[i] \in Row
    BY StoredRows DEF RowsOf
  <2>2. /\ \A j \in Ids \ {i} : rows'[j] = rows[j]
        /\ rows'[i].tg = rows[i].tg
    BY <1>3, <2>1 DEF IInv, Typed, Row
  <2>3. \A j \in Ids : rows'[j].tg = rows[j].tg
    BY <2>2
  <2>4. OneRow'
    BY <2>3 DEF OutcomeKnown, OneRow
  <2> QED BY <1>3, <2>2, <2>4, Defaults, IdleReady, WritesReady
<1> QED BY <1>2, <1>3 DEF StartCreate

\* The rows of the sync lose access before the first of them is kicked.
LEMMA BulkWriteReady ==
  ASSUME IInv, OutcomeKnown, NEW p \in Handlers, BulkWrite(p)
  PROVE  OutcomeKnown'
<1> DEFINE t == task[p]
<1>1. /\ t \in Task /\ t.ids \subseteq Stored /\ t.ids \subseteq Ids
      /\ t.overtaken \/ \A a \in t.todo : \E i \in t.ids : rows[i].tg = a
      /\ t.todo \subseteq Accounts
  BY DEF BulkWrite, IInv, Typed, Task, OutcomeKnown, Ready, InHandKnown
<1>2. /\ rows' = [j \in Ids |-> IF j \in t.ids THEN [rows[j] EXCEPT !.allowed = FALSE]
                                ELSE rows[j]]
      /\ Continue(p, NextKick(t), t.ids)
  BY DEF BulkWrite
<1>3. rows \in [Ids -> Row]
  BY DEF IInv, Typed
<1>4. \A j \in Ids : IF j \in t.ids
                     THEN ~rows'[j].allowed /\ rows'[j].tg = rows[j].tg
                     ELSE rows'[j] = rows[j]
  BY <1>2, <1>3 DEF Row
<1>5. OneRow'
  <2>1. \A j \in Ids : rows'[j].tg = rows[j].tg
    BY <1>4
  <2> QED BY <2>1 DEF OutcomeKnown, OneRow
<1>6. \A i \in Ids \ t.ids : rows'[i] = rows[i]
  BY <1>4
<1>c. PICK c \in Task : c = t
  BY <1>1
<1> DEFINE v == [c EXCEPT !.at = "check"]
<1>7. /\ v \in Task /\ v.at = "check" /\ v.todo = c.todo /\ v.ids = c.ids
      /\ v.overtaken = c.overtaken
  BY DEF Task, Stages
<1>8. NextKick(t) \in {Idle, v}
  BY <1>c DEF NextKick
<1> HIDE DEF v
<1>9. ASSUME ~c.overtaken, NEW a \in c.todo PROVE Out(v, a)'
  <2>1. PICK i \in c.ids : rows[i].tg = a
    BY <1>1, <1>9, <1>c
  <2>2. i \in Touched(v) /\ a # NoAccount
    BY <1>1, <1>7, <1>c, MembersAssumption DEF Touched
  <2>3. rows'[i].tg = a /\ ~rows'[i].allowed
    BY <1>1, <1>4, <1>c, <2>1
  <2> QED BY <2>2, <2>3 DEF Out, Touched
<1>10. Ready(v)'
  BY <1>7, <1>9 DEF Ready, Stage, InHandKnown
<1>u. PICK u \in Task : u = NextKick(t) /\ Ready(u)'
  BY <1>7, <1>8, <1>10, IdleReady, Defaults
<1> QED BY <1>2, <1>5, <1>6, <1>u, WritesReady

\* Bans are lifted in no stage that relies on them.
LEMMA LiftWriteReady ==
  ASSUME IInv, OutcomeKnown, NEW p \in Handlers, LiftWrite(p)
  PROVE  OutcomeKnown'
<1>1. /\ rows' = [j \in Ids |-> IF j \in task[p].ids THEN [rows[j] EXCEPT !.banned = FALSE]
                                ELSE rows[j]]
      /\ Continue(p, Idle, task[p].ids)
  BY DEF LiftWrite
<1>2. \A j \in Ids : rows'[j].tg = rows[j].tg
  BY <1>1 DEF IInv, Typed, Row
<1>3. OneRow'
  BY <1>2 DEF OutcomeKnown, OneRow
<1>4. \A j \in Ids \ task[p].ids : rows'[j] = rows[j]
  BY <1>1
<1> QED BY <1>1, <1>3, <1>4, Defaults, IdleReady, WritesReady

LEMMA WorkReady ==
  ASSUME IInv, OutcomeKnown, NEW p \in Handlers, Work(p)
  PROVE  OutcomeKnown'
BY StartLookupReady, StartBindReady, StartCreateReady, StartFinishReady,
   ChangeRowReady, DeleteRowReady, GrantWriteReady, AddPlaceholderReady,
   BulkWriteReady, BulkCheckReady, LiftWriteReady, QuietWorkReady
   DEF Work

LEMMA StepReady == IInv /\ OutcomeKnown /\ [Next]_vars => OutcomeKnown'
<1> SUFFICES ASSUME IInv, OutcomeKnown, [Next]_vars PROVE OutcomeKnown'
  OBVIOUS
<1>1. ASSUME rows' = rows /\ task' = task PROVE OutcomeKnown'
  BY <1>1 DEF OutcomeKnown, OneRow, Ready, Stage, InHandKnown, Out, Touched
<1>2. CASE UNCHANGED vars
  BY <1>1, <1>2 DEF vars
<1>3. CASE \E a \in Accounts :
             Join(a) \/ \E n \in Names \cup {NoName} : Rename(a, n)
  BY <1>1, <1>3 DEF Join, Rename
<1> QED BY <1>2, <1>3, UpdateReady, WorkReady DEF Next

\* What a handler relies on when it tells or kicks, in every reachable state.
THEOREM Known == Spec => []OutcomeKnown
BY InitOutcome, StepReady, Invariant, PTL DEF Spec

LEMMA StepTells ==
  IInv /\ OutcomeKnown =>
    \A p \in Handlers :
      /\ SendDm(p) => HasAccess(task[p].acc) \/ task[p].overtaken
      /\ Kick(p) => ~HasAccess(task[p].acc) \/ task[p].overtaken
<1> SUFFICES ASSUME IInv, OutcomeKnown, NEW p \in Handlers, ~task[p].overtaken
             PROVE  /\ SendDm(p) => HasAccess(task[p].acc)
                    /\ Kick(p) => ~HasAccess(task[p].acc)
  OBVIOUS
<1> DEFINE t == task[p]
<1>1. InHandKnown(t) /\ OneRow
  BY DEF OutcomeKnown, Ready
<1>2. ASSUME SendDm(p) PROVE HasAccess(t.acc)
  <2>1. /\ t.id \in Ids /\ t.acc # NoAccount
        /\ rows[t.id].tg = t.acc /\ rows[t.id].allowed
    BY <1>1, <1>2 DEF SendDm, InHandKnown
  <2>2. rows[t.id] # NoRow
    BY <2>1 DEF NoRow
  <2> QED BY <2>1, <2>2 DEF HasAccess, RowsOf, Stored
<1>3. ASSUME Kick(p) PROVE ~HasAccess(t.acc)
  <2>1. Out(t, t.acc)
    BY <1>1, <1>3 DEF Kick, InHandKnown
  <2>2. PICK i \in Ids : rows[i].tg = t.acc /\ t.acc # NoAccount /\ ~rows[i].allowed
    BY <2>1 DEF Out, Touched
  <2>3. \A j \in RowsOf(t.acc) : j = i
    BY <1>1, <2>2 DEF OneRow, RowsOf, Stored
  <2> QED BY <2>2, <2>3 DEF HasAccess
<1> QED BY <1>2, <1>3

\* Members are told and kicked after the fact: whoever is told of access has
\* it, and whoever is kicked has none, unless another request has written the
\* row since (allow_or_add_user, grant_form_pass_access, revoke_user_access,
\* sync_allowed_members_from_usernames and the handlers that call them).
THEOREM ToldAndKickedAfter == Spec => OutcomeAfterCommit
<1>1. IInv /\ OutcomeKnown /\ [Next]_vars =>
        [\A p \in Handlers :
           /\ SendDm(p) => HasAccess(task[p].acc) \/ task[p].overtaken
           /\ Kick(p) => ~HasAccess(task[p].acc) \/ task[p].overtaken]_vars
  BY StepTells
<1> QED BY <1>1, Invariant, Known, PTL DEF Spec, OutcomeAfterCommit
=============================================================================
