------------------------------- MODULE Members -------------------------------
(***************************************************************************)
(* Who may use the room: the rows of the users table, how an account comes *)
(* by its row, and what admins do to the row of a username.                *)
(*                                                                         *)
(* An admin knows a member by username only. A row without an account is a *)
(* placeholder: it waits for the /start of whoever carries its username,   *)
(* and the same person may by then have a row of their own, under an older *)
(* username. Every handler reads first and writes later, by primary key,   *)
(* the columns it has changed.                                             *)
(***************************************************************************)
EXTENDS Integers, FiniteSets

CONSTANTS
  Accounts,     \* Telegram accounts
  Names,        \* usernames
  FullNames,    \* full names, of members and in commands
  Handlers,     \* updates that can be under way at once
  MaxRows,      \* bound: rows ever inserted
  MaxRequests,  \* bound: updates and renames ever made
  NoAccount, NoName   \* a placeholder; without a username or a full name

ASSUME MembersAssumption ==
  /\ MaxRows \in Nat /\ MaxRequests \in Nat
  /\ NoAccount \notin Accounts /\ NoName \notin Names \cup FullNames
  /\ Accounts \cap Names = {}

VARIABLES
  rows,      \* table users: id -> row
  nextId,    \* its sequence
  admins,    \* table admins
  uname,     \* Telegram: the username an account has
  chat,      \* Telegram: who is in the members chat
  invited,   \* Telegram: who holds a link to it
  task,      \* handler -> what it does, and what it has read
  requests,  \* updates and renames made
  granted,   \* history: the accounts, and the names still to come, that
             \* admins decided to let in
  had,       \* history: the usernames an account has had
  told       \* history: the full names an account has come with

vars == <<rows, nextId, admins, uname, chat, invited, task, requests,
          granted, had, told>>

Ids   == 1..MaxRows
NoRow == [tg |-> NoAccount, name |-> NoName, full |-> NoName,
          allowed |-> FALSE, banned |-> FALSE]

NewRow(a, n, f, allowed) ==
  [tg |-> a, name |-> n, full |-> f, allowed |-> allowed, banned |-> FALSE]

Stored     == {i \in Ids : rows[i] # NoRow}
Named(n)   == {i \in Stored : rows[i].name = n /\ n # NoName}
RowsOf(a)  == {i \in Stored : rows[i].tg = a}
IsBound(i) == rows[i].tg # NoAccount
Latest(S)  == {i \in S : \A j \in S : j <= i}
HasAccess(a) == \E i \in RowsOf(a) : rows[i].allowed

\* acc: the sender of a /start, the addressee of a message, who is kicked.
\* id and seen: the row in hand, as loaded. ids: other rows to delete or to
\* revoke. todo: accounts to kick. overtaken: another handler has since
\* written one of the rows in hand.
Idle == [op |-> "none", at |-> "idle", acc |-> NoAccount, name |-> NoName,
         full |-> NoName, id |-> 0, seen |-> NoRow, ids |-> {}, todo |-> {},
         overtaken |-> FALSE]

-----------------------------------------------------------------------------
(* Handlers *)

Begin(p, t) ==
  /\ task[p] = Idle /\ requests < MaxRequests
  /\ task' = [task EXCEPT ![p] = t]
  /\ requests' = requests + 1
  /\ UNCHANGED <<rows, nextId, admins, uname, chat, invited, granted, had,
                 told>>

\* p goes on as t, and has written the rows of ids.
Continue(p, t, ids) ==
  task' = [q \in Handlers |->
             IF q = p THEN t
             ELSE IF ids \cap ({task[q].id} \cup task[q].ids) # {}
             THEN [task[q] EXCEPT !.overtaken = TRUE]
             ELSE task[q]]

\* A flush writes the columns that differ from what was loaded.
Flush(row, seen, new) ==
  [c \in DOMAIN row |-> IF new[c] = seen[c] THEN row[c] ELSE new[c]]

\* What is committed: the row in hand, and the rows deleted with it. Updating
\* a row that is gone fails, deleting one does not.
Commit(p, new, gone, t) ==
  LET i == task[p].id IN
    /\ new # task[p].seen => i \in Stored
    /\ rows' = [j \in Ids |->
                  IF j \in gone THEN NoRow
                  ELSE IF j = i /\ i \in Stored
                  THEN Flush(rows[i], task[p].seen, new)
                  ELSE rows[j]]
    /\ Continue(p, t, {i} \cup gone)
    /\ UNCHANGED <<nextId, admins, uname, chat, invited, requests, had>>

Insert(p, row) ==
  /\ nextId <= MaxRows
  /\ rows' = [rows EXCEPT ![nextId] = row]
  /\ nextId' = nextId + 1
  /\ task' = [task EXCEPT ![p] = Idle]
  /\ UNCHANGED <<admins, uname, chat, invited, requests, had>>

\* An error, or a stop of the bot, at any point.
Fail(p) ==
  /\ task[p] # Idle
  /\ task' = [task EXCEPT ![p] = Idle]
  /\ UNCHANGED <<rows, nextId, admins, uname, chat, invited, requests,
                 granted, had, told>>

-----------------------------------------------------------------------------
(* /start *)

\* The update carries the full name of the sender.
Tells(p, f) == told' = [told EXCEPT ![task[p].acc] = @ \cup {f}]

\* The update carries the username of the moment.
Receive(p, a) ==
  Begin(p, [Idle EXCEPT !.op = "start", !.at = "lookup", !.acc = a,
                        !.name = uname[a]])

Go(p, t) ==
  /\ task' = [task EXCEPT ![p] = t]
  /\ UNCHANGED <<rows, nextId, admins, uname, chat, invited, requests,
                 granted, had, told>>

InHand(p, at, i) ==
  [task[p] EXCEPT !.at = at, !.id = i, !.seen = rows[i]]

\* Mutant of StartLookup: the latest row of the name is bound, whosever it is.
StartLookupAny(p) ==
  LET t == task[p]
      waiting == Named(t.name)
  IN
    /\ t.at = "lookup"
    /\ \/ \E i \in RowsOf(t.acc) : Go(p, InHand(p, "finish", i))
       \/ /\ RowsOf(t.acc) = {}
          /\ \E i \in Latest(waiting) : Go(p, InHand(p, "bind", i))
       \/ /\ RowsOf(t.acc) = {} /\ waiting = {}
          /\ Go(p, [t EXCEPT !.at = "create"])

\* resolve_start_user looks for the row of the account, then for the latest
\* placeholder of the username.
StartLookup(p) ==
  LET t == task[p]
      waiting == {i \in Named(t.name) : ~IsBound(i)}
  IN
    /\ t.at = "lookup"
    /\ \/ \E i \in RowsOf(t.acc) : Go(p, InHand(p, "finish", i))
       \/ /\ RowsOf(t.acc) = {}
          /\ \E i \in Latest(waiting) : Go(p, InHand(p, "bind", i))
       \/ /\ RowsOf(t.acc) = {} /\ waiting = {}
          /\ Go(p, [t EXCEPT !.at = "create"])

\* _bind_latest_username_placeholder, up to its commit and refresh. An account
\* has one row (unique tg_user_id).
StartBind(p) ==
  LET t   == task[p]
      new == [t.seen EXCEPT !.tg = t.acc]
  IN
    /\ t.at = "bind"
    /\ RowsOf(t.acc) = {}
    /\ Commit(p, new, {},
              [t EXCEPT !.at = "fill",
                        !.seen = Flush(rows[t.id], t.seen, new)])
    /\ UNCHANGED <<granted, told>>

\* create_or_update_user: a second /start may have made the row meanwhile.
StartCreate(p, f) ==
  LET t == task[p] IN
    /\ t.at = "create"
    /\ \/ /\ RowsOf(t.acc) = {}
          /\ Insert(p, NewRow(t.acc, t.name, f, FALSE))
       \/ \E i \in RowsOf(t.acc) :
            /\ rows' = [rows EXCEPT ![i].name = t.name, ![i].full = f]
            /\ Continue(p, Idle, {i})
            /\ UNCHANGED <<nextId, admins, uname, chat, invited, requests,
                           had>>
    /\ Tells(p, f)
    /\ UNCHANGED granted

Stale(n, i) == {j \in Named(n) \ {i} : ~IsBound(j)}

\* The end of resolve_start_user: an account that had a row already takes the
\* username, and the placeholders of that name are deleted; a missing full
\* name is filled in.
StartFinish(p, f) ==
  LET t   == task[p]
      new == [t.seen EXCEPT !.name = IF t.name = NoName THEN @ ELSE t.name,
                            !.full = IF @ = NoName THEN f ELSE @]
  IN
    /\ t.at \in {"finish", "fill"}
    /\ Commit(p, new, IF t.at = "finish" THEN Stale(t.name, t.id) ELSE {},
              Idle)
    /\ Tells(p, f)
    /\ UNCHANGED granted

-----------------------------------------------------------------------------
(* Commands about the one row of a username *)

\* _get_user_by_username: none is an answer, two are an error.
LoadRow(p, op, n, i) ==
  /\ Named(n) = {i}
  /\ Begin(p, [Idle EXCEPT !.op = op, !.at = "write", !.name = n, !.id = i,
                           !.seen = rows[i]])

AllowUser(p, n)  == \E i \in Named(n) : LoadRow(p, "allow", n, i)
UnbanUser(p, n)  == \E i \in Named(n) : LoadRow(p, "unban", n, i)
BanUser(p, n)    == \E i \in Named(n) : LoadRow(p, "ban", n, i)
DeleteUser(p, n) == \E i \in Named(n) : LoadRow(p, "delete", n, i)
Appoint(p, n) == \E i \in Named(n) : IsBound(i) /\ LoadRow(p, "appoint", n, i)
Revoke(p, n)  ==
  \E i \in Named(n) : rows[i].allowed /\ LoadRow(p, "revoke", n, i)

\* The panel kicks once more where access was revoked before.
RevokeAgain(p, n) ==
  \E i \in Named(n) :
    /\ Named(n) = {i} /\ IsBound(i) /\ ~rows[i].allowed
    /\ Begin(p, [Idle EXCEPT !.op = "revoke", !.at = "kick", !.name = n,
                             !.id = i, !.seen = rows[i], !.acc = rows[i].tg])

\* add_warning at the limit, and revert_latest_warning: they find the row by
\* its id.
LoadById(p, op, i) ==
  Begin(p, [Idle EXCEPT !.op = op, !.at = "write", !.id = i, !.seen = rows[i]])

AutoBan(p, i) == ~rows[i].banned /\ LoadById(p, "ban", i)
Revert(p, i)  == rows[i].banned /\ LoadById(p, "revert", i)

Changed(op, row) ==
  CASE op \in {"allow", "revert"} -> [row EXCEPT !.allowed = TRUE, !.banned = FALSE]
    [] op = "unban"  -> [row EXCEPT !.banned = FALSE]
    [] op = "ban"    -> [row EXCEPT !.allowed = FALSE, !.banned = TRUE]
    [] op = "revoke" -> [row EXCEPT !.allowed = FALSE]

\* What follows the commit, for an account known when the row was loaded.
After(p) ==
  LET t  == task[p]
      at == CASE t.op \in {"allow", "revert", "add", "form"} -> "dm"
              [] t.op = "revoke" -> "kick"
              [] OTHER -> "idle"
  IN
    IF t.seen.tg = NoAccount \/ at = "idle" THEN Idle
    ELSE [t EXCEPT !.at = at, !.acc = t.seen.tg]

\* Whom an admin means: whoever has had the username or, where nobody's row
\* has it, has come with the full name; after a warning, the member warned.
Holders(n) == {a \in Accounts : n \in had[a]}
Bearers(f) == {a \in Accounts : f \in told[a]}

Meant(t) ==
  CASE t.op = "allow"  -> Holders(t.name)
    [] t.op = "revert" -> {t.seen.tg} \ {NoAccount}
    [] t.op \in {"add", "form"} ->
         IF t.seen.name = t.name THEN Holders(t.name) ELSE Bearers(t.full)
    [] OTHER -> {}

Grants(S) == granted' = granted \cup S /\ UNCHANGED told

\* Mutant of ChangeRow: the commit is forgotten.
ChangeRowUncommitted(p) ==
  LET t == task[p] IN
    /\ t.at = "write" /\ t.op \in {"allow", "unban", "ban", "revoke", "revert"}
    /\ Commit(p, t.seen, {}, After(p))
    /\ Grants(Meant(t))

\* allow_user, unban_user, revoke_user_access, apply_progressive_ban,
\* revert_latest_warning.
ChangeRow(p) ==
  LET t == task[p] IN
    /\ t.at = "write" /\ t.op \in {"allow", "unban", "ban", "revoke", "revert"}
    /\ t.op = "ban" => t.id \in Stored
    /\ Commit(p, Changed(t.op, t.seen), {}, After(p))
    /\ Grants(Meant(t))

\* delete_user_by_username.
DeleteRow(p) ==
  LET t == task[p] IN
    /\ t.at = "write" /\ t.op = "delete"
    /\ Commit(p, t.seen, {t.id}, Idle)
    /\ UNCHANGED <<granted, told>>

\* add_admin_by_username: unique, and for good.
AddAdmin(p) ==
  LET t == task[p] IN
    /\ t.at = "write" /\ t.op = "appoint"
    /\ t.seen.tg \notin admins
    /\ admins' = admins \cup {t.seen.tg}
    /\ task' = [task EXCEPT ![p] = Idle]
    /\ UNCHANGED <<rows, nextId, uname, chat, invited, requests, granted,
                   had, told>>

-----------------------------------------------------------------------------
(* Granting access, and merging placeholders into the row of an account *)

\* Who has the username, or else, where placeholders wait for the name, the
\* one member of that full name.
Match(n, f) ==
  LET bound   == {i \in Named(n) : IsBound(i)}
      byFull  == {i \in Stored : IsBound(i) /\ rows[i].full = f}
  IN
    IF bound # {} THEN Latest(bound)
    ELSE IF Named(n) # {} /\ f # NoName /\ Cardinality(byFull) = 1 THEN byFull
    ELSE {}

\* A refusal writes nothing, not even the merge.
Accepts(op, row, f) ==
  /\ ~row.banned
  /\ ~row.allowed \/ (op = "add" /\ f \notin {NoName, row.full})

GrantOf(op, n, f, i) ==
  [Idle EXCEPT !.op = op, !.name = n, !.full = f, !.at = "grant", !.id = i,
               !.seen = rows[i], !.ids = {j \in Named(n) : ~IsBound(j)}]

\* allow_or_add_user reads; nobody found, it will add a placeholder.
AddUser(p, n, f) ==
  \/ \E i \in Match(n, f) :
       Accepts("add", rows[i], f) /\ Begin(p, GrantOf("add", n, f, i))
  \/ /\ Match(n, f) = {}
     /\ Begin(p, [Idle EXCEPT !.op = "add", !.name = n, !.full = f,
                              !.at = "insert"])

\* grant_form_pass_access reads.
FormPass(p, n, f) ==
  \E i \in Match(n, f) :
    Accepts("form", rows[i], f) /\ Begin(p, GrantOf("form", n, f, i))

\* They write: the row gets the name it was matched by, and the placeholders
\* go. Nobody is told who had access before.
GrantWrite(p) ==
  LET t   == task[p]
      new == [t.seen EXCEPT !.allowed = TRUE, !.name = t.name,
                            !.full = IF t.full = NoName THEN @ ELSE t.full]
  IN
    /\ t.at = "grant"
    /\ Commit(p, new, t.ids, IF t.seen.allowed THEN Idle ELSE After(p))
    /\ Grants(Meant(t))

\* allow_or_add_user adds a placeholder, also where one waits already.
AddPlaceholder(p) ==
  LET t == task[p] IN
    /\ t.at = "insert"
    /\ Insert(p, NewRow(NoAccount, t.name, t.full, TRUE))
    /\ Grants({t.name})

-----------------------------------------------------------------------------
(* Bulk sync with the sheet *)

\* sync_allowed_members_from_usernames reads the admins and the users.
BulkLoad(p, listed) ==
  LET out == {i \in Stored : /\ rows[i].name \notin listed \cup {NoName}
                             /\ rows[i].allowed
                             /\ rows[i].tg \notin admins}
  IN
    Begin(p, [Idle EXCEPT !.op = "bulk", !.at = "bulk", !.ids = out,
                          !.todo = {rows[i].tg : i \in out} \ {NoAccount}])

\* What follows for the next account to kick.
NextKick(t) == IF t.todo = {} THEN Idle ELSE [t EXCEPT !.at = "check"]

BulkWrite(p) ==
  LET t == task[p] IN
    /\ t.at = "bulk"
    /\ t.ids \subseteq Stored
    /\ rows' = [i \in Ids |-> IF i \in t.ids
                              THEN [rows[i] EXCEPT !.allowed = FALSE]
                              ELSE rows[i]]
    /\ Continue(p, NextKick(t), t.ids)
    /\ UNCHANGED <<nextId, admins, uname, chat, invited, requests, granted,
                   had, told>>

\* unban_expired_users: some of the bans have run out; access stays as it is.
LiftLoad(p) ==
  \E due \in SUBSET {i \in Stored : rows[i].banned} \ {{}} :
    Begin(p, [Idle EXCEPT !.op = "lift", !.at = "lift", !.ids = due])

LiftWrite(p) ==
  LET t == task[p] IN
    /\ t.at = "lift"
    /\ t.ids \subseteq Stored
    /\ rows' = [i \in Ids |-> IF i \in t.ids
                              THEN [rows[i] EXCEPT !.banned = FALSE]
                              ELSE rows[i]]
    /\ Continue(p, Idle, t.ids)
    /\ UNCHANGED <<nextId, admins, uname, chat, invited, requests, granted,
                   had, told>>

\* Admins are asked for again before each kick.
BulkCheck(p) ==
  LET t == task[p] IN
    /\ t.at = "check"
    /\ \E a \in t.todo :
         LET rest == [t EXCEPT !.todo = @ \ {a}] IN
           Go(p, IF a \in admins THEN NextKick(rest)
                 ELSE [rest EXCEPT !.at = "kick", !.acc = a])

-----------------------------------------------------------------------------
(* Telegram *)

\* kick_from_members_chat; in a bulk sync, the kick and the message.
Kick(p) ==
  LET t == task[p] IN
    /\ t.at = "kick"
    /\ chat' = chat \ {t.acc}
    /\ task' = [task EXCEPT ![p] = NextKick(t)]
    /\ UNCHANGED <<rows, nextId, admins, uname, invited, requests, granted,
                   had, told>>

\* send_access_granted_dm: with a link for whoever is not in the chat.
SendDm(p) ==
  LET t == task[p] IN
    /\ t.at = "dm"
    /\ invited' = IF t.acc \in chat THEN invited ELSE invited \cup {t.acc}
    /\ task' = [task EXCEPT ![p] = Idle]
    /\ UNCHANGED <<rows, nextId, admins, uname, chat, requests, granted, had,
                   told>>

\* Telegram refuses; the handler goes on.
NotifyFails(p) ==
  /\ task[p].at \in {"dm", "kick"}
  /\ Go(p, NextKick(task[p]))

\* A link lets one person in.
Join(a) ==
  /\ a \in invited
  /\ chat' = chat \cup {a} /\ invited' = invited \ {a}
  /\ UNCHANGED <<rows, nextId, admins, uname, task, requests, granted, had,
                 told>>

\* An account gives its username up, or takes one that nobody has. Bound: not
\* while a /start that carries it is under way.
Rename(a, n) ==
  /\ requests < MaxRequests
  /\ uname[a] # n
  /\ \A b \in Accounts : n # NoName => uname[b] # n
  /\ \A p \in Handlers :
       n # NoName /\ task[p].op = "start" => task[p].name # n
  /\ uname' = [uname EXCEPT ![a] = n]
  /\ had' = [had EXCEPT ![a] = @ \cup {n}]
  /\ requests' = requests + 1
  /\ UNCHANGED <<rows, nextId, admins, chat, invited, task, granted, told>>

-----------------------------------------------------------------------------
(* Specification *)

Init ==
  /\ rows = [i \in Ids |-> NoRow] /\ nextId = 1
  /\ admins = {}
  /\ uname \in {u \in [Accounts -> Names] :
                  \A a, b \in Accounts : u[a] = u[b] => a = b}
  /\ chat = {} /\ invited = {}
  /\ task = [p \in Handlers |-> Idle]
  /\ requests = 0
  /\ granted = {}
  /\ had = [a \in Accounts |-> {uname[a]}]
  /\ told = [a \in Accounts |-> {}]

Work(p) ==
  \/ StartLookup(p) \/ StartBind(p)
  \/ \E f \in FullNames : StartCreate(p, f) \/ StartFinish(p, f)
  \/ ChangeRow(p) \/ DeleteRow(p) \/ AddAdmin(p)
  \/ GrantWrite(p) \/ AddPlaceholder(p)
  \/ BulkWrite(p) \/ BulkCheck(p) \/ LiftWrite(p)
  \/ Kick(p) \/ SendDm(p) \/ NotifyFails(p)
  \/ Fail(p)

Update(p) ==
  \/ \E a \in Accounts : Receive(p, a)
  \/ \E n \in Names :
       \/ AllowUser(p, n) \/ UnbanUser(p, n) \/ BanUser(p, n)
       \/ DeleteUser(p, n) \/ Appoint(p, n) \/ Revoke(p, n) \/ RevokeAgain(p, n)
       \/ \E f \in FullNames \cup {NoName} : AddUser(p, n, f) \/ FormPass(p, n, f)
  \/ \E i \in Stored : AutoBan(p, i) \/ Revert(p, i)
  \/ \E listed \in SUBSET Names \ {{}} : BulkLoad(p, listed)
  \/ LiftLoad(p)

Next ==
  \/ \E p \in Handlers : Update(p) \/ Work(p)
  \/ \E a \in Accounts : Join(a) \/ \E n \in Names \cup {NoName} : Rename(a, n)

Spec == Init /\ [][Next]_vars

-----------------------------------------------------------------------------
(* Properties *)

(***************************************************************************)
(* Nobody comes by access that no admin meant them to have: an account     *)
(* whose row is allowed has had a username that was granted, has come with *)
(* the full name a grant was made out to, or was let in again after a ban. *)
(* Whoever takes over a username does not take over the access of the      *)
(* member who had it before, whatever rows are renamed, merged, deleted    *)
(* and written from stale reads meanwhile (resolve_start_user,             *)
(* allow_or_add_user, grant_form_pass_access, revert_latest_warning).      *)
(***************************************************************************)
AccessWasGranted ==
  \A a \in Accounts :
    HasAccess(a) => ({a} \cup had[a]) \cap granted # {}

(***************************************************************************)
(* Members are told and kicked after the fact: whoever is told of access   *)
(* has it, and whoever is kicked from the members chat has none, unless    *)
(* another request has written the row since this one read it.             *)
(***************************************************************************)
OutcomeAfterCommit ==
  [][\A p \in Handlers :
       /\ SendDm(p) => HasAccess(task[p].acc) \/ task[p].overtaken
       /\ Kick(p) => ~HasAccess(task[p].acc) \/ task[p].overtaken
    ]_vars
=============================================================================
