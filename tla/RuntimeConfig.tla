--------------------------- MODULE RuntimeConfig ---------------------------
(***************************************************************************)
(* The runtime settings: the table, the cache in front of it, and the      *)
(* dialog and commands in which an admin changes them.                     *)
(*                                                                         *)
(* Every typed text and every tapped preset has a number of its own, which *)
(* stands for the value it sets. A query and what follows it are two       *)
(* steps; the cache and the dialog are dictionaries in memory, and what a  *)
(* handler does to them between two awaits is one step.                    *)
(***************************************************************************)
EXTENDS Naturals, Sequences, FiniteSets

CONSTANTS
  Numeric, ChatIds,     \* keys of DEFAULTS that hold numbers, and ids of chats
  Days,                 \* weekdays, each with its key of working hours
  Readers, Writers,     \* handlers that read, and that write, settings
  Reads,                \* the sets of keys that readers ask for
  NoOne, NoKey,
  TTL,                  \* RUNTIME_CONFIG_CACHE_TTL
  Slow,                 \* the longest time from a query to the use of its answer
  MaxTime, MaxInputs, MaxFaults

GeoCenter == {"geo_center_lat", "geo_center_lon"}
DEFAULTS  == Numeric \cup ChatIds \cup GeoCenter \cup {"rules_text", "access_form_url"}
AllKeys   == DEFAULTS \cup Days

ASSUME ConfigAssumption ==
  /\ Days \cap DEFAULTS = {} /\ Numeric \cap ChatIds = {}
  /\ (Numeric \cup ChatIds) \cap (GeoCenter \cup {"rules_text", "access_form_url"}) = {}
  /\ Reads \subseteq SUBSET DEFAULTS
  /\ NoOne \notin Readers /\ NoKey \notin AllKeys
  /\ {TTL, Slow, MaxTime, MaxInputs, MaxFaults} \subseteq Nat

VARIABLES
  now,        \* the clock
  table,      \* table config: key to value, 0 where there is no row
  replaced,   \* when a value of a key was replaced by another, or Never
  cache,      \* _CACHE
  lock,       \* who holds _CACHE_LOCK
  r, w,       \* readers and writers
  dialog,     \* the admin's dialog: its state and its data
  inputs, faults,  \* so far
  raced       \* keys whose value was loaded by a reader as it was replaced, or
              \* whose writer died

vars == <<now, table, replaced, cache, lock, r, w, dialog, inputs, faults,
          raced>>

Values == 0..MaxInputs
Times  == 0..MaxTime
Never  == MaxTime + 1

NoEntry == [value |-> 0, expires |-> 0]
Entry   == [value : Values, expires : 0..(MaxTime + TTL)]
Reader  == [at : {"idle", "wait", "load", "store"}, keys : SUBSET DEFAULTS,
            rows : [DEFAULTS -> Values], since : Times]
Write   == [key : AllKeys, value : Values]
Writer  == [at : {"idle", "select", "commit", "invalidate"}, todo : Seq(Write),
            found : BOOLEAN, clears : BOOLEAN]
\* The data of the dialog: key, the weekday, the hours and the rules typed last.
Dialog  == [state : {"none", "custom", "rules", "geocenter", "hours"}, key : AllKeys \cup {NoKey},
            day : Days \cup {NoKey}, hours : Values, rules : Values]
Closed  == [state |-> "none", key |-> NoKey, day |-> NoKey, hours |-> 0, rules |-> 0]

NoRows     == [k \in DEFAULTS |-> 0]
IdleReader == [at |-> "idle", keys |-> {}, rows |-> NoRows, since |-> 0]
IdleWriter == [at |-> "idle", todo |-> <<>>, found |-> FALSE, clears |-> FALSE]

-----------------------------------------------------------------------------
(* Reading: get_many *)

\* _get_cached_value
Cached(k) == now < cache[k].expires

\* What is cached is answered at once.
GetMany(i, ks) ==
  /\ r[i].at = "idle"
  /\ LET missing == {k \in ks : ~Cached(k)}
     IN missing # {} /\ r' = [r EXCEPT ![i].at = "wait", ![i].keys = missing]
  /\ UNCHANGED <<now, table, replaced, cache, lock, w, dialog, inputs, faults, raced>>

\* With the lock, the cache is looked at again: another reader may have filled it.
EnterLock(i) ==
  /\ r[i].at = "wait" /\ lock = NoOne
  /\ LET query == {k \in r[i].keys : ~Cached(k)}
     IN IF query = {}
        THEN r' = [r EXCEPT ![i] = IdleReader] /\ UNCHANGED lock
        ELSE /\ r' = [r EXCEPT ![i].at = "load", ![i].keys = query]
             /\ lock' = i
  /\ UNCHANGED <<now, table, replaced, cache, w, dialog, inputs, faults, raced>>

\* get_config_values
Load(i) ==
  /\ r[i].at = "load"
  /\ r' = [r EXCEPT ![i].at = "store", ![i].since = now,
                    ![i].rows = [k \in DEFAULTS |-> IF k \in r[i].keys THEN table[k] ELSE 0]]
  /\ UNCHANGED <<now, table, replaced, cache, lock, w, dialog, inputs, faults, raced>>

\* The query fails, or no connection can be had: the lock is released.
LoadFails(i) ==
  /\ r[i].at \in {"load", "store"}
  /\ faults < MaxFaults
  /\ faults' = faults + 1
  /\ lock' = NoOne
  /\ r' = [r EXCEPT ![i] = IdleReader]
  /\ UNCHANGED <<now, table, replaced, cache, w, dialog, inputs, raced>>

\* Mutant of Store: an entry never expires.
StoreForever(i) ==
  /\ r[i].at = "store"
  /\ cache' = [k \in DEFAULTS |->
                 IF k \in r[i].keys
                 THEN [value |-> r[i].rows[k], expires |-> MaxTime + TTL] ELSE cache[k]]
  /\ lock' = NoOne
  /\ r' = [r EXCEPT ![i] = IdleReader]
  /\ UNCHANGED <<now, table, replaced, w, dialog, inputs, faults, raced>>

Store(i) ==
  /\ r[i].at = "store"
  /\ cache' = [k \in DEFAULTS |->
                 IF TTL > 0 /\ k \in r[i].keys
                 THEN [value |-> r[i].rows[k], expires |-> now + TTL] ELSE cache[k]]
  /\ lock' = NoOne
  /\ r' = [r EXCEPT ![i] = IdleReader]
  /\ UNCHANGED <<now, table, replaced, w, dialog, inputs, faults, raced>>

-----------------------------------------------------------------------------
(* Writing: set_config_value, once for each of a handler's settings *)

Head1(j) == Head(w[j].todo)

SelectRow(j) ==
  /\ w[j].at = "select"
  /\ w' = [w EXCEPT ![j].at = "commit", ![j].found = (table[Head1(j).key] # 0)]
  /\ UNCHANGED <<now, table, replaced, cache, lock, r, dialog, inputs, faults, raced>>

\* UPDATE, or INSERT of a row that was not there: if it is there by now, the
\* primary key refuses it and the handler fails.
CommitRow(j) ==
  /\ w[j].at = "commit"
  /\ LET k == Head1(j).key
         v == Head1(j).value
     IN IF w[j].found \/ table[k] = 0
        THEN /\ table' = [table EXCEPT ![k] = v]
             /\ replaced' = [replaced EXCEPT ![k][table[k]] = now]
             /\ w' = [w EXCEPT ![j].at = "invalidate"]
        ELSE /\ w' = [w EXCEPT ![j] = IdleWriter]
             /\ UNCHANGED <<table, replaced>>
  /\ UNCHANGED <<now, cache, lock, r, dialog, inputs, faults, raced>>

\* After the last setting, the dialog ends.
Proceed(j) ==
  LET rest == Tail(w[j].todo)
  IN IF rest # <<>>
     THEN /\ w' = [w EXCEPT ![j].at = "select", ![j].todo = rest]
          /\ UNCHANGED dialog
     ELSE /\ w' = [w EXCEPT ![j] = IdleWriter]
          /\ dialog' = IF w[j].clears THEN Closed ELSE dialog

\* Mutant of Invalidate: the cache is left alone.
InvalidateNothing(j) ==
  /\ w[j].at = "invalidate"
  /\ Proceed(j)
  /\ UNCHANGED <<now, table, replaced, cache, lock, r, inputs, faults, raced>>

\* invalidate_runtime_config_cache
Invalidate(j) ==
  /\ w[j].at = "invalidate"
  /\ LET k == Head1(j).key
     IN IF k \in DEFAULTS
        THEN /\ cache' = [cache EXCEPT ![k] = NoEntry]
             /\ raced' = IF \E i \in Readers : r[i].at = "store" /\ k \in r[i].keys
                         THEN raced \cup {k} ELSE raced
        ELSE UNCHANGED <<cache, raced>>
  /\ Proceed(j)
  /\ UNCHANGED <<now, table, replaced, lock, r, inputs, faults>>

\* A lost connection. The COMMIT may have been carried out all the same.
WriterFails(j) ==
  /\ w[j].at # "idle"
  /\ faults < MaxFaults
  /\ faults' = faults + 1
  /\ raced' = IF w[j].at = "invalidate" THEN raced \cup {Head1(j).key} ELSE raced
  /\ w' = [w EXCEPT ![j] = IdleWriter]
  /\ UNCHANGED <<now, table, replaced, cache, lock, r, dialog, inputs>>

\* What a handler writes once it has its value; ends says whether it clears the
\* state when it is done.
Begin(j, todo, ends) ==
  /\ w[j].at = "idle"
  /\ w' = [w EXCEPT ![j] = [at |-> "select", todo |-> todo, found |-> FALSE, clears |-> ends]]

\* Texts that do not parse are answered and change nothing.
NewInput == inputs < MaxInputs /\ inputs' = inputs + 1
ToKey(k) == <<[key |-> k, value |-> inputs + 1]>>

-----------------------------------------------------------------------------
(* The dialog: every prompt can be opened at any time *)

Rest == <<now, table, replaced, cache, lock, r, faults, raced>>

Prompt(d) ==
  /\ dialog' = d
  /\ UNCHANGED Rest /\ UNCHANGED <<w, inputs>>

\* admin_cfg_*_custom, admin_cfg_chat_* and admin_cfg_form_url
PromptValue(k)  == Prompt([dialog EXCEPT !.state = "custom", !.key = k])
PromptGeoCenter == Prompt([dialog EXCEPT !.state = "geocenter"])
PromptRules     == Prompt([dialog EXCEPT !.state = "rules"])

\* admin_cfg_hourscustom_*: hours that were typed before stay in the data.
PromptHours(d) == Prompt([dialog EXCEPT !.state = "hours", !.day = d])

\* A preset of a number, or a command: no dialog is needed.
SetNow(j, k) ==
  /\ NewInput
  /\ Begin(j, ToKey(k), FALSE)
  /\ UNCHANGED Rest /\ UNCHANGED dialog

SetNumber(j)       == \E k \in Numeric : SetNow(j, k)
SetChatId(j)       == \E k \in ChatIds : SetNow(j, k)
SetWorkingHours(j) == \E d \in Days : SetNow(j, d)
UpdateRules(j)     == SetNow(j, "rules_text")

\* admin_custom_value_input, with a text that fits the key.
TypeValue(j) ==
  /\ dialog.state = "custom"
  /\ NewInput
  /\ Begin(j, ToKey(dialog.key), TRUE)
  /\ UNCHANGED Rest /\ UNCHANGED dialog

\* Latitude and longitude: two rows, in two transactions.
LatLon == <<[key |-> "geo_center_lat", value |-> inputs + 1],
            [key |-> "geo_center_lon", value |-> inputs + 1]>>

TypeGeoCenter(j) ==
  /\ dialog.state = "geocenter"
  /\ NewInput
  /\ Begin(j, LatLon, TRUE)
  /\ UNCHANGED Rest /\ UNCHANGED dialog

SetGeoCenter(j) ==
  /\ NewInput
  /\ Begin(j, LatLon, FALSE)
  /\ UNCHANGED Rest /\ UNCHANGED dialog

\* The rules, and the hours, are shown before they are saved.
TypeRules ==
  /\ dialog.state = "rules"
  /\ NewInput
  /\ dialog' = [dialog EXCEPT !.rules = inputs + 1]
  /\ UNCHANGED Rest /\ UNCHANGED w

TypeHours ==
  /\ dialog.state = "hours"
  /\ NewInput
  /\ dialog' = [dialog EXCEPT !.hours = inputs + 1]
  /\ UNCHANGED Rest /\ UNCHANGED w

\* Without a preview in the data, the update has expired.
Expired == Prompt(Closed)

ConfirmRules(j) ==
  IF dialog.rules = 0 THEN Expired
  ELSE /\ Begin(j, <<[key |-> "rules_text", value |-> dialog.rules]>>, TRUE)
       /\ UNCHANGED Rest /\ UNCHANGED <<dialog, inputs>>

\* Mutant of ConfirmHours: no weekday has been picked.
ConfirmUnpicked(j) ==
  /\ Begin(j, <<[key |-> dialog.day, value |-> dialog.hours]>>, TRUE)
  /\ UNCHANGED Rest /\ UNCHANGED <<dialog, inputs>>

\* admin_cfg_hours_confirm_state: the weekday and the hours of the data, which
\* need not be those of the preview whose button was tapped.
ConfirmHours(j) ==
  IF dialog.day = NoKey \/ dialog.hours = 0 THEN Expired
  ELSE /\ Begin(j, <<[key |-> dialog.day, value |-> dialog.hours]>>, TRUE)
       /\ UNCHANGED Rest /\ UNCHANGED <<dialog, inputs>>

-----------------------------------------------------------------------------
\* The answer of a query is used within Slow.
Tick ==
  /\ now < MaxTime
  /\ \A i \in Readers : r[i].at = "store" => now < r[i].since + Slow
  /\ now' = now + 1
  /\ UNCHANGED <<table, replaced, cache, lock, r, w, dialog, inputs, faults, raced>>

\* The process dies with everything in its memory.
Crash ==
  /\ faults < MaxFaults
  /\ faults' = faults + 1
  /\ cache' = [k \in DEFAULTS |-> NoEntry]
  /\ lock' = NoOne
  /\ r' = [i \in Readers |-> IdleReader]
  /\ w' = [j \in Writers |-> IdleWriter]
  /\ dialog' = Closed
  /\ UNCHANGED <<now, table, replaced, inputs, raced>>

Init ==
  /\ now = 0
  /\ table = [k \in AllKeys |-> 0]
  /\ replaced = [k \in AllKeys |-> [v \in Values |-> Never]]
  /\ cache = [k \in DEFAULTS |-> NoEntry]
  /\ lock = NoOne
  /\ r = [i \in Readers |-> IdleReader]
  /\ w = [j \in Writers |-> IdleWriter]
  /\ dialog = Closed
  /\ inputs = 0
  /\ faults = 0
  /\ raced = {}

ReadOn(i)  == EnterLock(i) \/ Load(i) \/ Store(i) \/ LoadFails(i)
WriteOn(j) == SelectRow(j) \/ CommitRow(j) \/ Invalidate(j) \/ WriterFails(j)

Admin ==
  \/ \E k \in Numeric \cup ChatIds \cup {"access_form_url"} : PromptValue(k)
  \/ \E d \in Days : PromptHours(d)
  \/ PromptGeoCenter \/ PromptRules \/ TypeRules \/ TypeHours
  \/ \E j \in Writers :
       \/ SetNumber(j) \/ SetChatId(j) \/ UpdateRules(j) \/ SetWorkingHours(j)
       \/ TypeValue(j) \/ TypeGeoCenter(j) \/ SetGeoCenter(j)
       \/ ConfirmRules(j) \/ ConfirmHours(j)

Next ==
  \/ Tick \/ Crash \/ Admin
  \/ \E i \in Readers : ReadOn(i) \/ \E ks \in Reads : GetMany(i, ks)
  \/ \E j \in Writers : WriteOn(j)

Spec == Init /\ [][Next]_vars

-----------------------------------------------------------------------------
(* Properties *)

\* Every variable keeps its type.
TypeOK ==
  /\ now \in Times
  /\ table \in [AllKeys -> Values]
  /\ replaced \in [AllKeys -> [Values -> Times \cup {Never}]]
  /\ cache \in [DEFAULTS -> Entry]
  /\ lock \in Readers \cup {NoOne}
  /\ r \in [Readers -> Reader]
  /\ w \in [Writers -> Writer]
  /\ dialog \in Dialog
  /\ inputs \in Values
  /\ faults \in 0..MaxFaults
  /\ raced \subseteq AllKeys

\* A setting that has been replaced is served for TTL and the time of one query
\* at most, whatever updates, loads and failures overlap.
StaleBounded ==
  \A k \in DEFAULTS :
     cache[k].value # table[k] /\ Cached(k)
       => cache[k].expires <= replaced[k][cache[k].value] + TTL + Slow

\* Once an update is over, nobody is served the old setting, unless a reader
\* was between its query and the cache as the update invalidated it, or the
\* writer died between its COMMIT and the invalidation.
FreshAfterWrite ==
  \A k \in DEFAULTS \ raced :
     Cached(k) => \/ cache[k].value = table[k]
                  \/ \E j \in Writers : w[j].at = "invalidate" /\ Head1(j).key = k
=============================================================================
