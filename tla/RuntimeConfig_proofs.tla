------------------------ MODULE RuntimeConfig_proofs ------------------------
(***************************************************************************)
(* For any settings, readers, writers, inputs and failures, and for any    *)
(* TTL and any duration of a query: a setting that was replaced is served  *)
(* no longer than TTL and the time of one query, and an update that no     *)
(* reader races is seen at once.                                           *)
(***************************************************************************)
EXTENDS RuntimeConfig, Integers, SequenceTheorems, TLAPS

\* A writer under way has something to write.
WritersBusy == \A j \in Writers : w[j].at # "idle" => w[j].todo # <<>>

\* The dialog knows what it was opened for. Hours have a weekday.
DialogKnown ==
  /\ dialog.state = "custom" => dialog.key \in Numeric \cup ChatIds \cup {"access_form_url"}
  /\ dialog.state = "hours" \/ dialog.hours # 0 => dialog.day \in Days

ConfigTyped == TypeOK /\ WritersBusy /\ DialogKnown

\* The answer of a query is not older than Slow, and what it has of a setting
\* was replaced no sooner than it was queried.
AnswersRecent ==
  \A i \in Readers : r[i].at = "store" =>
    /\ r[i].since <= now /\ now <= r[i].since + Slow
    /\ \A k \in r[i].keys :
         r[i].rows[k] # table[k] => r[i].since <= replaced[k][r[i].rows[k]]

\* No entry outlives TTL from now.
EntriesExpire == \A k \in DEFAULTS : cache[k].expires <= now + TTL

\* The setting has been replaced, and the cache is about to be told.
Replacing(k) == \E j \in Writers : w[j].at = "invalidate" /\ Head1(j).key = k

\* What a query has found is what the table has, or it is being replaced.
AnswersFresh ==
  \A i \in Readers : r[i].at = "store" =>
    \A k \in r[i].keys \ raced : r[i].rows[k] = table[k] \/ Replacing(k)

ConfigInv ==
  /\ ConfigTyped /\ AnswersRecent /\ EntriesExpire /\ StaleBounded
  /\ AnswersFresh /\ FreshAfterWrite

-----------------------------------------------------------------------------
(* Types *)

\* What is at rest, empty or absent is of its type.
LEMMA Resting ==
  /\ NoEntry \in Entry /\ IdleReader \in Reader /\ IdleWriter \in Writer
  /\ Closed \in Dialog /\ 0 \in Values /\ 0 \in Times
<1>1. 0 \in Values /\ 0 \in Times /\ 0 \in 0..(MaxTime + TTL)
  BY ConfigAssumption DEF Values, Times
<1>2. NoEntry \in Entry /\ Closed \in Dialog
  BY <1>1 DEF NoEntry, Entry, Closed, Dialog
<1>3. NoRows \in [DEFAULTS -> Values]
  BY <1>1 DEF NoRows
<1>4. IdleReader \in Reader
  BY <1>1, <1>3 DEF IdleReader, Reader
<1>5. IdleWriter \in Writer
  BY EmptySeq DEF IdleWriter, Writer
<1> QED BY <1>1, <1>2, <1>4, <1>5

\* No row, nothing cached, nobody at work: the invariant holds.
LEMMA ConfigInit == Init => ConfigInv
<1> SUFFICES ASSUME Init PROVE ConfigInv
  OBVIOUS
<1>1. TypeOK
  <2>1. replaced \in [AllKeys -> [Values -> Times \cup {Never}]]
    BY DEF Init
  <2>2. table \in [AllKeys -> Values] /\ cache \in [DEFAULTS -> Entry]
    BY Resting DEF Init
  <2>3. inputs \in Values /\ now \in Times /\ faults \in 0..MaxFaults
    BY Resting, ConfigAssumption DEF Init
  <2> QED BY <2>1, <2>2, <2>3, Resting DEF Init, TypeOK
<1>2. WritersBusy /\ DialogKnown
  BY DEF Init, WritersBusy, DialogKnown, IdleWriter, Closed
<1>3. AnswersRecent /\ AnswersFresh
  BY DEF Init, AnswersRecent, AnswersFresh, IdleReader
<1>4. EntriesExpire /\ StaleBounded /\ FreshAfterWrite
  BY ConfigAssumption DEF Init, EntriesExpire, StaleBounded, FreshAfterWrite, Cached, NoEntry
<1> QED BY <1>1, <1>2, <1>3, <1>4 DEF ConfigInv, ConfigTyped

\* What a writer under way has to write.
LEMMA Todo ==
  ASSUME ConfigTyped, NEW j \in Writers, w[j].at # "idle"
  PROVE  /\ w[j] \in Writer /\ w[j].todo \in Seq(Write) /\ w[j].todo # <<>>
         /\ Head1(j) \in Write /\ Head1(j).key \in AllKeys /\ Head1(j).value \in Values
         /\ Tail(w[j].todo) \in Seq(Write)
<1>1. w[j] \in Writer /\ w[j].todo \in Seq(Write) /\ w[j].todo # <<>>
  BY DEF ConfigTyped, TypeOK, WritersBusy, Writer
<1>2. Head(w[j].todo) \in Write /\ Tail(w[j].todo) \in Seq(Write)
  BY <1>1, HeadTailProperties
<1> QED BY <1>1, <1>2 DEF Head1, Write

\* Steps of readers.
LEMMA ReadersTyped ==
  ASSUME ConfigTyped, NEW i \in Readers,
         ReadOn(i) \/ \E ks \in Reads : GetMany(i, ks)
  PROVE  ConfigTyped'
<1>0. /\ r \in [Readers -> Reader] /\ r[i] \in Reader /\ now \in Times
      /\ cache \in [DEFAULTS -> Entry] /\ table \in [AllKeys -> Values]
  BY DEF ConfigTyped, TypeOK
<1>1. ASSUME NEW ks \in Reads, GetMany(i, ks) PROVE ConfigTyped'
  <2>1. PICK m \in SUBSET DEFAULTS : r' = [r EXCEPT ![i].at = "wait", ![i].keys = m]
    BY <1>1, ConfigAssumption DEF GetMany
  <2>2. r' \in [Readers -> Reader]
    BY <1>0, <2>1 DEF Reader
  <2> QED BY <1>1, <2>2 DEF GetMany, ConfigTyped, TypeOK, WritersBusy, DialogKnown
<1>2. CASE EnterLock(i)
  <2>1. PICK q \in SUBSET DEFAULTS :
          IF q = {} THEN r' = [r EXCEPT ![i] = IdleReader] /\ lock' = lock
          ELSE r' = [r EXCEPT ![i].at = "load", ![i].keys = q] /\ lock' = i
    <3>1. {k \in r[i].keys : ~Cached(k)} \in SUBSET DEFAULTS
      BY <1>0 DEF Reader
    <3> QED BY <1>2, <3>1 DEF EnterLock
  <2>2. r' \in [Readers -> Reader] /\ lock' \in Readers \cup {NoOne}
    <3>1. lock \in Readers \cup {NoOne}
      BY DEF ConfigTyped, TypeOK
    <3>2. CASE q = {}
      BY <1>0, <2>1, <3>1, <3>2, Resting
    <3>3. CASE q # {}
      BY <1>0, <2>1, <3>3 DEF Reader
    <3> QED BY <3>2, <3>3
  <2>3. UNCHANGED <<now, table, replaced, cache, w, dialog, inputs, faults, raced>>
    BY <1>2 DEF EnterLock
  <2> QED BY <2>2, <2>3 DEF ConfigTyped, TypeOK, WritersBusy, DialogKnown
<1>3. CASE Load(i)
  <2>1. AllKeys = DEFAULTS \cup Days
    BY DEF AllKeys
  <2>2. PICK rows \in [DEFAULTS -> Values] :
          r' = [r EXCEPT ![i].at = "store", ![i].since = now, ![i].rows = rows]
    <3>1. [k \in DEFAULTS |-> IF k \in r[i].keys THEN table[k] ELSE 0] \in [DEFAULTS -> Values]
      BY <1>0, <2>1, Resting
    <3> QED BY <1>3, <3>1 DEF Load
  <2>3. r' \in [Readers -> Reader]
    BY <1>0, <2>2 DEF Reader
  <2> QED BY <1>3, <2>3 DEF Load, ConfigTyped, TypeOK, WritersBusy, DialogKnown
<1>4. CASE LoadFails(i)
  <2>1. r' \in [Readers -> Reader]
    BY <1>0, <1>4, Resting DEF LoadFails
  <2>2. faults' \in 0..MaxFaults
    BY <1>4, ConfigAssumption DEF LoadFails, ConfigTyped, TypeOK
  <2> QED BY <1>4, <2>1, <2>2 DEF LoadFails, ConfigTyped, TypeOK, WritersBusy, DialogKnown
<1>5. CASE Store(i)
  <2>1. r' \in [Readers -> Reader]
    BY <1>0, <1>5, Resting DEF Store
  <2>2. ASSUME NEW k \in DEFAULTS
        PROVE  [value |-> r[i].rows[k], expires |-> now + TTL] \in Entry
    <3>1. now + TTL \in 0..(MaxTime + TTL)
      BY <1>0, ConfigAssumption DEF Times
    <3>2. r[i].rows[k] \in Values
      BY <1>0 DEF Reader
    <3> QED BY <3>1, <3>2 DEF Entry
  <2>3. cache' \in [DEFAULTS -> Entry]
    BY <1>0, <1>5, <2>2 DEF Store
  <2> QED BY <1>5, <2>1, <2>3 DEF Store, ConfigTyped, TypeOK, WritersBusy, DialogKnown
<1> QED BY <1>1, <1>2, <1>3, <1>4, <1>5 DEF ReadOn

\* A writer goes on, or ends.
LEMMA ProceedTyped ==
  ASSUME ConfigTyped, NEW j \in Writers, w[j].at # "idle", Proceed(j)
  PROVE  w' \in [Writers -> Writer] /\ WritersBusy' /\ dialog' \in {dialog, Closed}
<1>1. Tail(w[j].todo) \in Seq(Write) /\ w[j] \in Writer
  BY Todo
<1>2. w \in [Writers -> Writer]
  BY DEF ConfigTyped, TypeOK
<1>3. CASE /\ Tail(w[j].todo) # <<>>
           /\ w' = [w EXCEPT ![j].at = "select", ![j].todo = Tail(w[j].todo)]
           /\ dialog' = dialog
  <2>1. w' \in [Writers -> Writer]
    BY <1>1, <1>2, <1>3 DEF Writer
  <2>2. WritersBusy'
    BY <1>1, <1>2, <1>3 DEF WritersBusy, ConfigTyped, Writer
  <2> QED BY <1>3, <2>1, <2>2
<1>4. CASE w' = [w EXCEPT ![j] = IdleWriter] /\ dialog' \in {dialog, Closed}
  BY <1>2, <1>4, Resting DEF WritersBusy, ConfigTyped, IdleWriter
<1> QED BY <1>3, <1>4 DEF Proceed

\* A dialog that ends has no data.
LEMMA ClosedKnown ==
  ASSUME ConfigTyped, dialog' \in {dialog, Closed}
  PROVE  dialog' \in Dialog /\ DialogKnown'
BY Resting DEF ConfigTyped, TypeOK, DialogKnown, Closed

\* Steps of writers.
LEMMA WritersTyped ==
  ASSUME ConfigTyped, NEW j \in Writers, WriteOn(j)
  PROVE  ConfigTyped'
<1>0. w[j].at # "idle"
  BY DEF WriteOn, SelectRow, CommitRow, Invalidate, WriterFails
<1>1. /\ w[j] \in Writer /\ w[j].todo # <<>> /\ w \in [Writers -> Writer]
      /\ Head1(j).key \in AllKeys /\ Head1(j).value \in Values
  BY <1>0, Todo DEF ConfigTyped, TypeOK
<1>2. CASE SelectRow(j)
  <2>1. PICK b \in BOOLEAN : w' = [w EXCEPT ![j].at = "commit", ![j].found = b]
    BY <1>2 DEF SelectRow
  <2>2. w' \in [Writers -> Writer] /\ WritersBusy'
    BY <1>1, <2>1 DEF Writer, WritersBusy, ConfigTyped
  <2> QED BY <1>2, <2>2 DEF SelectRow, ConfigTyped, TypeOK, DialogKnown
<1>3. CASE CommitRow(j)
  <2>1. PICK k, v : k = Head1(j).key /\ v = Head1(j).value
    OBVIOUS
  <2>2. CASE /\ table' = [table EXCEPT ![k] = v]
             /\ replaced' = [replaced EXCEPT ![k][table[k]] = now]
             /\ w' = [w EXCEPT ![j].at = "invalidate"]
    <3>1. table' \in [AllKeys -> Values]
      BY <1>1, <2>1, <2>2 DEF ConfigTyped, TypeOK
    <3>2. replaced' \in [AllKeys -> [Values -> Times \cup {Never}]]
      <4>1. replaced[k] \in [Values -> Times \cup {Never}] /\ now \in Times
        BY <1>1, <2>1 DEF ConfigTyped, TypeOK
      <4> QED BY <1>1, <2>1, <2>2, <4>1 DEF ConfigTyped, TypeOK
    <3>3. w' \in [Writers -> Writer] /\ WritersBusy'
      BY <1>1, <2>2 DEF Writer, WritersBusy, ConfigTyped
    <3> QED BY <1>3, <3>1, <3>2, <3>3 DEF CommitRow, ConfigTyped, TypeOK, DialogKnown
  <2>3. CASE w' = [w EXCEPT ![j] = IdleWriter] /\ UNCHANGED <<table, replaced>>
    <3>1. w' \in [Writers -> Writer] /\ WritersBusy'
      BY <1>1, <2>3, Resting DEF WritersBusy, ConfigTyped, IdleWriter
    <3> QED BY <1>3, <2>3, <3>1 DEF CommitRow, ConfigTyped, TypeOK, DialogKnown
  <2> QED BY <1>3, <2>1, <2>2, <2>3 DEF CommitRow
<1>4. CASE Invalidate(j)
  <2>1. w' \in [Writers -> Writer] /\ WritersBusy' /\ dialog' \in Dialog /\ DialogKnown'
    BY <1>0, <1>4, ProceedTyped, ClosedKnown DEF Invalidate
  <2>2. cache' \in [DEFAULTS -> Entry] /\ raced' \subseteq AllKeys
    <3>1. PICK k \in AllKeys : k = Head1(j).key
      BY <1>1
    <3>2. /\ cache' = cache \/ cache' = [cache EXCEPT ![k] = NoEntry]
          /\ raced' \in {raced, raced \cup {k}}
      BY <1>4, <3>1 DEF Invalidate
    <3> QED BY <3>2, Resting DEF ConfigTyped, TypeOK
  <2> QED BY <1>4, <2>1, <2>2 DEF Invalidate, ConfigTyped, TypeOK
<1>5. CASE WriterFails(j)
  <2>1. w' \in [Writers -> Writer] /\ WritersBusy'
    BY <1>1, <1>5, Resting DEF WriterFails, WritersBusy, ConfigTyped, IdleWriter
  <2>2. raced' \subseteq AllKeys /\ faults' \in 0..MaxFaults
    BY <1>1, <1>5, ConfigAssumption DEF WriterFails, ConfigTyped, TypeOK
  <2> QED BY <1>5, <2>1, <2>2 DEF WriterFails, ConfigTyped, TypeOK, DialogKnown
<1> QED BY <1>2, <1>3, <1>4, <1>5 DEF WriteOn

\* A handler begins to write.
LEMMA BeginTyped ==
  ASSUME ConfigTyped, NEW j \in Writers, NEW todo \in Seq(Write), todo # <<>>,
         NEW ends \in BOOLEAN, Begin(j, todo, ends)
  PROVE  w' \in [Writers -> Writer] /\ WritersBusy'
<1> DEFINE new == [at |-> "select", todo |-> todo, found |-> FALSE, clears |-> ends]
<1>1. new \in Writer /\ new.todo # <<>>
  BY DEF Writer
<1>2. w' = [w EXCEPT ![j] = new]
  BY DEF Begin
<1> HIDE DEF new
<1> QED BY <1>1, <1>2 DEF WritersBusy, ConfigTyped, TypeOK

\* A number of its own for what was typed.
LEMMA Typing ==
  ASSUME ConfigTyped, NewInput
  PROVE  inputs + 1 \in Values /\ inputs' \in Values /\ inputs + 1 # 0
BY ConfigAssumption DEF ConfigTyped, TypeOK, NewInput, Values

\* The lists of what a handler writes.
LEMMA OneWrite ==
  ASSUME NEW k \in AllKeys, NEW v \in Values
  PROVE  LET s == <<[key |-> k, value |-> v]>>
         IN  s \in Seq(Write) /\ s # <<>>
BY DEF Write

\* Latitude and longitude.
LEMMA TwoWrites ==
  ASSUME ConfigTyped, NewInput
  PROVE  LatLon \in Seq(Write) /\ LatLon # <<>>
<1>1. /\ [key |-> "geo_center_lat", value |-> inputs + 1] \in Write
      /\ [key |-> "geo_center_lon", value |-> inputs + 1] \in Write
  BY Typing DEF Write, AllKeys, DEFAULTS, GeoCenter
<1> QED BY <1>1 DEF LatLon

\* A handler that writes and leaves the dialog alone.
SetsOnly(j) ==
  \/ SetNumber(j) \/ SetChatId(j) \/ UpdateRules(j) \/ SetWorkingHours(j)
  \/ TypeValue(j) \/ TypeGeoCenter(j) \/ SetGeoCenter(j)

\* What it writes was typed.
LEMMA SetsBegin ==
  ASSUME ConfigTyped, NEW j \in Writers, SetsOnly(j)
  PROVE  /\ NewInput /\ UNCHANGED Rest /\ UNCHANGED dialog
         /\ \E todo \in Seq(Write), ends \in BOOLEAN :
              /\ todo # <<>> /\ Begin(j, todo, ends)
<1>1. ASSUME NEW k \in AllKeys, NEW ends \in BOOLEAN, NewInput, Begin(j, ToKey(k), ends)
      PROVE  \E todo \in Seq(Write), e \in BOOLEAN :
               /\ todo # <<>> /\ Begin(j, todo, e)
  <2>1. PICK todo : todo = ToKey(k)
    OBVIOUS
  <2>2. todo \in Seq(Write) /\ todo # <<>>
    BY <1>1, <2>1, Typing, OneWrite DEF ToKey
  <2> QED BY <1>1, <2>1, <2>2
<1>2. ASSUME NEW ends \in BOOLEAN, NewInput, Begin(j, LatLon, ends)
      PROVE  \E todo \in Seq(Write), e \in BOOLEAN :
               /\ todo # <<>> /\ Begin(j, todo, e)
  <2>1. PICK todo : todo = LatLon
    OBVIOUS
  <2>2. todo \in Seq(Write) /\ todo # <<>>
    BY <1>2, <2>1, TwoWrites
  <2> QED BY <1>2, <2>1, <2>2
<1>3. CASE SetNumber(j) \/ SetChatId(j) \/ UpdateRules(j) \/ SetWorkingHours(j)
  <2>1. PICK k \in AllKeys : SetNow(j, k)
    BY <1>3 DEF SetNumber, SetChatId, UpdateRules, SetWorkingHours, AllKeys, DEFAULTS
  <2> QED BY <1>1, <2>1 DEF SetNow
<1>4. CASE TypeValue(j)
  <2>1. dialog.key \in AllKeys
    BY <1>4 DEF TypeValue, ConfigTyped, DialogKnown, AllKeys, DEFAULTS
  <2> QED BY <1>1, <1>4, <2>1 DEF TypeValue
<1>5. CASE TypeGeoCenter(j) \/ SetGeoCenter(j)
  BY <1>2, <1>5 DEF TypeGeoCenter, SetGeoCenter
<1> QED BY <1>3, <1>4, <1>5 DEF SetsOnly

\* A confirmation writes the one preview that the dialog has the data of, or
\* has expired.
LEMMA ConfirmsBegin ==
  ASSUME ConfigTyped, NEW j \in Writers, ConfirmRules(j) \/ ConfirmHours(j)
  PROVE  \/ Prompt(Closed)
         \/ /\ UNCHANGED Rest /\ UNCHANGED <<dialog, inputs>>
            /\ \E k \in AllKeys, v \in Values :
                 Begin(j, <<[key |-> k, value |-> v]>>, TRUE)
<1>0. dialog \in Dialog /\ (dialog.hours # 0 => dialog.day \in Days)
  BY DEF ConfigTyped, TypeOK, DialogKnown
<1>1. CASE ConfirmRules(j)
  BY <1>0, <1>1 DEF ConfirmRules, Expired, Dialog, AllKeys, DEFAULTS
<1>2. CASE ConfirmHours(j)
  BY <1>0, <1>2 DEF ConfirmHours, Expired, Dialog, AllKeys
<1> QED BY <1>1, <1>2

\* What the dialog and the commands of an admin leave alone.
LEMMA RestUnchanged ==
  ASSUME UNCHANGED Rest
  PROVE  UNCHANGED <<now, table, replaced, cache, lock, r, faults, raced>>
BY DEF Rest

\* Steps of the admin: a value that is typed goes to a key that exists.
LEMMA AdminTyped ==
  ASSUME ConfigTyped, Admin
  PROVE  ConfigTyped'
<1>0. dialog \in Dialog /\ inputs \in Values
  BY DEF ConfigTyped, TypeOK
<1>1. ASSUME NEW d \in Dialog, d.state = "custom" =>
                 d.key \in Numeric \cup ChatIds \cup {"access_form_url"},
             d.state = "hours" \/ d.hours # 0 => d.day \in Days,
             dialog' = d, UNCHANGED Rest, UNCHANGED <<w, inputs>>
      PROVE  ConfigTyped'
  BY <1>1, RestUnchanged DEF ConfigTyped, TypeOK, WritersBusy, DialogKnown
<1>2. ASSUME NEW k \in Numeric \cup ChatIds \cup {"access_form_url"}, PromptValue(k)
      PROVE  ConfigTyped'
  <2>1. PICK d : d = [dialog EXCEPT !.state = "custom", !.key = k]
    OBVIOUS
  <2>2. /\ d \in Dialog /\ d.key = k /\ d.state = "custom"
        /\ d.hours = dialog.hours /\ d.day = dialog.day
    BY <1>0, <2>1 DEF Dialog, AllKeys, DEFAULTS
  <2> QED BY <1>1, <1>2, <2>1, <2>2 DEF PromptValue, Prompt, ConfigTyped, TypeOK, DialogKnown
<1>3. CASE PromptGeoCenter \/ PromptRules
  <2>0. PICK st \in {"geocenter", "rules"} : Prompt([dialog EXCEPT !.state = st])
    BY <1>3 DEF PromptGeoCenter, PromptRules
  <2>1. PICK d : d = [dialog EXCEPT !.state = st] /\ Prompt(d)
    BY <2>0
  <2>2. d \in Dialog /\ d.state = st /\ d.hours = dialog.hours /\ d.day = dialog.day
    BY <1>0, <2>1 DEF Dialog
  <2> QED BY <1>1, <2>1, <2>2 DEF Prompt, ConfigTyped, TypeOK, DialogKnown
<1>4. ASSUME NEW wd \in Days, PromptHours(wd)
      PROVE  ConfigTyped'
  <2>1. PICK d : d = [dialog EXCEPT !.state = "hours", !.day = wd]
    OBVIOUS
  <2>2. d \in Dialog /\ d.state = "hours" /\ d.day = wd
    BY <1>0, <2>1 DEF Dialog, AllKeys
  <2> QED BY <1>1, <1>4, <2>1, <2>2 DEF PromptHours, Prompt
<1>5. CASE TypeRules
  <2>1. inputs + 1 \in Values /\ inputs' \in Values
    BY <1>5, Typing DEF TypeRules
  <2>2. dialog' \in Dialog /\ DialogKnown'
    <3>1. PICK d : d = [dialog EXCEPT !.rules = inputs + 1]
      OBVIOUS
    <3>2. /\ d \in Dialog /\ d.state = dialog.state /\ d.key = dialog.key
          /\ d.day = dialog.day /\ d.hours = dialog.hours
      BY <1>0, <2>1, <3>1 DEF Dialog
    <3>3. dialog' = d
      BY <1>5, <3>1 DEF TypeRules
    <3> QED BY <3>2, <3>3 DEF ConfigTyped, DialogKnown
  <2> QED BY <1>5, <2>1, <2>2, RestUnchanged DEF TypeRules, ConfigTyped, TypeOK, WritersBusy
<1>6. CASE TypeHours
  <2>1. inputs + 1 \in Values /\ inputs' \in Values /\ dialog.day \in Days
    BY <1>6, Typing DEF TypeHours, ConfigTyped, DialogKnown
  <2>2. dialog' \in Dialog /\ DialogKnown'
    <3>1. PICK d : d = [dialog EXCEPT !.hours = inputs + 1]
      OBVIOUS
    <3>2. /\ d \in Dialog /\ d.state = dialog.state /\ d.key = dialog.key
          /\ d.day = dialog.day
      BY <1>0, <2>1, <3>1 DEF Dialog
    <3>3. dialog' = d
      BY <1>6, <3>1 DEF TypeHours
    <3> QED BY <2>1, <3>2, <3>3 DEF ConfigTyped, DialogKnown
  <2> QED BY <1>6, <2>1, <2>2, RestUnchanged DEF TypeHours, ConfigTyped, TypeOK, WritersBusy
<1>7. ASSUME NEW j \in Writers, SetsOnly(j)
      PROVE  ConfigTyped'
  <2>1. /\ NewInput /\ UNCHANGED Rest /\ UNCHANGED dialog
        /\ w' \in [Writers -> Writer] /\ WritersBusy'
    BY <1>7, SetsBegin, BeginTyped
  <2> QED BY <2>1, Typing, RestUnchanged DEF ConfigTyped, TypeOK, DialogKnown
<1>8. ASSUME NEW j \in Writers, ConfirmRules(j) \/ ConfirmHours(j)
      PROVE  ConfigTyped'
  <2>1. CASE Prompt(Closed)
    BY <1>1, <2>1, Resting DEF Prompt, Closed, ConfigTyped, TypeOK
  <2>2. CASE /\ UNCHANGED Rest /\ UNCHANGED <<dialog, inputs>>
             /\ \E k \in AllKeys, v \in Values :
                  Begin(j, <<[key |-> k, value |-> v]>>, TRUE)
    <3>1. PICK k \in AllKeys, v \in Values : Begin(j, <<[key |-> k, value |-> v]>>, TRUE)
      BY <2>2
    <3>3. PICK todo \in Seq(Write) : todo = <<[key |-> k, value |-> v]>> /\ todo # <<>>
      BY OneWrite
    <3>4. w' \in [Writers -> Writer] /\ WritersBusy'
      BY <3>1, <3>3, BeginTyped
    <3> QED BY <2>2, <3>4, RestUnchanged DEF ConfigTyped, TypeOK, DialogKnown
  <2> QED BY <1>8, <2>1, <2>2, ConfirmsBegin
<1> QED BY <1>2, <1>3, <1>4, <1>5, <1>6, <1>7, <1>8 DEF Admin, SetsOnly

\* Every step keeps the types, and writers that have something to write.
LEMMA StepTyped ==
  ASSUME ConfigTyped, [Next]_vars
  PROVE  ConfigTyped'
<1>1. CASE UNCHANGED vars
  BY <1>1 DEF vars, ConfigTyped, TypeOK, WritersBusy, DialogKnown
<1>2. CASE Tick
  <2>1. now' \in Times
    BY <1>2, ConfigAssumption DEF Tick, ConfigTyped, TypeOK, Times
  <2> QED BY <1>2, <2>1 DEF Tick, ConfigTyped, TypeOK, WritersBusy, DialogKnown
<1>3. CASE Crash
  <2>1. /\ faults' \in 0..MaxFaults /\ cache' \in [DEFAULTS -> Entry]
        /\ r' \in [Readers -> Reader] /\ w' \in [Writers -> Writer] /\ dialog' \in Dialog
    BY <1>3, Resting, ConfigAssumption DEF Crash, ConfigTyped, TypeOK
  <2>2. WritersBusy' /\ DialogKnown'
    BY <1>3 DEF Crash, WritersBusy, DialogKnown, IdleWriter, Closed
  <2> QED BY <1>3, <2>1, <2>2 DEF Crash, ConfigTyped, TypeOK
<1> QED BY <1>1, <1>2, <1>3, ReadersTyped, WritersTyped, AdminTyped DEF Next

-----------------------------------------------------------------------------
(* How old a setting can be *)

Recent == AnswersRecent /\ EntriesExpire /\ StaleBounded

\* Neither the table nor the cache changes, and nobody has a new answer.
LEMMA RecentKept ==
  ASSUME Recent, UNCHANGED <<now, table, replaced, cache>>,
         \A i \in Readers : r'[i].at = "store" => r'[i] = r[i]
  PROVE  Recent'
BY DEF Recent, AnswersRecent, EntriesExpire, StaleBounded, Cached

\* The answer has what the table has, now.
LEMMA LoadRecent ==
  ASSUME ConfigTyped, Recent, NEW i \in Readers, Load(i)
  PROVE  Recent'
<1>1. r \in [Readers -> Reader] /\ r[i] \in Reader /\ now \in Times
  BY DEF ConfigTyped, TypeOK
<1>2. /\ \A l \in Readers \ {i} : r'[l] = r[l]
      /\ r'[i].since = now /\ r'[i].keys = r[i].keys
      /\ r'[i].rows = [k \in DEFAULTS |-> IF k \in r[i].keys THEN table[k] ELSE 0]
      /\ UNCHANGED <<now, table, replaced, cache>>
  BY <1>1 DEF Load, Reader
<1>3. \A k \in r'[i].keys : r'[i].rows[k] = table'[k]
  BY <1>1, <1>2 DEF Reader
<1>4. now <= now + Slow
  BY <1>1, ConfigAssumption DEF Times
<1>5. AnswersRecent'
  BY <1>1, <1>2, <1>3, <1>4 DEF Recent, AnswersRecent, Times
<1> QED BY <1>2, <1>5 DEF Recent, EntriesExpire, StaleBounded, Cached

\* An answer is stored within Slow of its query, for TTL.
LEMMA StoreRecent ==
  ASSUME ConfigTyped, Recent, NEW i \in Readers, Store(i)
  PROVE  Recent'
<1>1. /\ r \in [Readers -> Reader] /\ r[i] \in Reader /\ now \in Times
      /\ cache \in [DEFAULTS -> Entry] /\ table \in [AllKeys -> Values]
      /\ replaced \in [AllKeys -> [Values -> Times \cup {Never}]]
  BY DEF ConfigTyped, TypeOK
<1>2. /\ UNCHANGED <<now, table, replaced>> /\ r[i].at = "store"
      /\ r' = [r EXCEPT ![i] = IdleReader]
      /\ \A k \in DEFAULTS :
           cache'[k] = IF TTL > 0 /\ k \in r[i].keys
                       THEN [value |-> r[i].rows[k], expires |-> now + TTL] ELSE cache[k]
  BY DEF Store
<1>3. AnswersRecent'
  BY <1>1, <1>2 DEF Recent, AnswersRecent, IdleReader
<1>4. /\ r[i].since <= now /\ now <= r[i].since + Slow
      /\ \A k \in r[i].keys :
           r[i].rows[k] # table[k] => r[i].since <= replaced[k][r[i].rows[k]]
  BY <1>2 DEF Recent, AnswersRecent
<1>5. EntriesExpire'
  <2> SUFFICES ASSUME NEW k \in DEFAULTS PROVE cache'[k].expires <= now' + TTL
    BY DEF EntriesExpire
  <2>1. CASE cache'[k] = cache[k]
    BY <1>2, <2>1 DEF Recent, EntriesExpire
  <2>2. CASE cache'[k] = [value |-> r[i].rows[k], expires |-> now + TTL]
    <3>1. cache'[k].expires = now + TTL /\ now + TTL \in Nat
      BY <1>1, <2>2, ConfigAssumption DEF Times
    <3> QED BY <1>2, <3>1
  <2> QED BY <1>2, <2>1, <2>2
<1>6. StaleBounded'
  <2> SUFFICES ASSUME NEW k \in DEFAULTS, cache'[k].value # table'[k], now' < cache'[k].expires
               PROVE  cache'[k].expires <= replaced'[k][cache'[k].value] + TTL + Slow
    BY DEF StaleBounded, Cached
  <2>1. CASE cache'[k] = cache[k]
    BY <1>2, <2>1 DEF Recent, StaleBounded, Cached
  <2>2. CASE /\ k \in r[i].keys
             /\ cache'[k] = [value |-> r[i].rows[k], expires |-> now + TTL]
    <3>1. r[i].since <= replaced[k][r[i].rows[k]]
      BY <1>2, <1>4, <2>2
    <3>2. replaced[k][r[i].rows[k]] \in Nat
      BY <1>1, ConfigAssumption DEF Reader, AllKeys, Times, Never
    <3>3. r[i].since \in Nat /\ now \in Nat
      BY <1>1 DEF Reader, Times
    <3>4. cache'[k].expires = now + TTL /\ cache'[k].value = r[i].rows[k]
      BY <2>2
    <3> QED BY <1>2, <1>4, <3>1, <3>2, <3>3, <3>4, ConfigAssumption
  <2> QED BY <1>2, <2>1, <2>2
<1> QED BY <1>3, <1>5, <1>6 DEF Recent

\* What is replaced now was queried, and stored, no later than now.
LEMMA CommitRecent ==
  ASSUME ConfigTyped, Recent, NEW j \in Writers, CommitRow(j)
  PROVE  Recent'
<1>1. /\ r \in [Readers -> Reader] /\ now \in Times
      /\ cache \in [DEFAULTS -> Entry] /\ table \in [AllKeys -> Values]
      /\ replaced \in [AllKeys -> [Values -> Times \cup {Never}]]
      /\ Head1(j).key \in AllKeys
  BY Todo DEF CommitRow, ConfigTyped, TypeOK
<1>2. CASE UNCHANGED <<table, replaced>>
  BY <1>2, RecentKept DEF CommitRow
<1>3. ASSUME NEW k \in AllKeys, NEW v, table' = [table EXCEPT ![k] = v],
             replaced' = [replaced EXCEPT ![k][table[k]] = now]
      PROVE  Recent'
  <2>0. UNCHANGED <<now, cache, r>>
    BY DEF CommitRow
  <2>1. \A l \in AllKeys, u \in Values :
          u # table'[l] => \/ replaced'[l][u] = now
                           \/ u # table[l] /\ replaced'[l][u] = replaced[l][u]
    BY <1>1, <1>3
  <2>2. AnswersRecent'
    <3> SUFFICES ASSUME NEW i \in Readers, r[i].at = "store",
                        NEW l \in r[i].keys, r[i].rows[l] # table'[l]
                 PROVE  r[i].since <= replaced'[l][r[i].rows[l]]
      BY <2>0 DEF Recent, AnswersRecent
    <3>1. l \in AllKeys /\ r[i].rows[l] \in Values
      BY <1>1 DEF Reader, AllKeys
    <3> QED BY <2>1, <3>1 DEF Recent, AnswersRecent
  <2>3. StaleBounded'
    <3> SUFFICES ASSUME NEW l \in DEFAULTS, cache[l].value # table'[l], now < cache[l].expires
                 PROVE  cache[l].expires <= replaced'[l][cache[l].value] + TTL + Slow
      BY <2>0 DEF StaleBounded, Cached
    <3>1. l \in AllKeys /\ cache[l].value \in Values /\ cache[l].expires \in Nat /\ now \in Nat
      BY <1>1, ConfigAssumption DEF Entry, AllKeys, Times
    <3>2. CASE replaced'[l][cache[l].value] = now
      BY <3>1, <3>2, ConfigAssumption DEF Recent, EntriesExpire
    <3>3. CASE /\ cache[l].value # table[l]
               /\ replaced'[l][cache[l].value] = replaced[l][cache[l].value]
      BY <3>1, <3>3 DEF Recent, StaleBounded, Cached
    <3> QED BY <2>1, <3>1, <3>2, <3>3
  <2> QED BY <2>0, <2>2, <2>3 DEF Recent, EntriesExpire
<1> QED BY <1>1, <1>2, <1>3 DEF CommitRow

\* An entry of a setting goes.
LEMMA ClearsRecent ==
  ASSUME ConfigTyped, Recent, UNCHANGED <<now, table, replaced>>,
         \A k \in DEFAULTS : cache'[k] \in {cache[k], NoEntry},
         \A i \in Readers : r'[i].at = "store" => r'[i] = r[i]
  PROVE  Recent'
<1>1. now \in Nat
  BY DEF ConfigTyped, TypeOK, Times
<1>2. AnswersRecent'
  BY DEF Recent, AnswersRecent
<1>3. EntriesExpire' /\ StaleBounded'
  BY <1>1, ConfigAssumption DEF Recent, EntriesExpire, StaleBounded, Cached, NoEntry
<1> QED BY <1>2, <1>3 DEF Recent

\* Time passes no further than an answer may wait for the cache.
LEMMA TickRecent ==
  ASSUME ConfigTyped, Recent, Tick
  PROVE  Recent'
<1>1. /\ now \in Nat /\ now' = now + 1 /\ UNCHANGED <<table, replaced, cache, r>>
      /\ cache \in [DEFAULTS -> Entry] /\ r \in [Readers -> Reader]
      /\ \A i \in Readers : r[i].at = "store" => now < r[i].since + Slow
  BY DEF Tick, ConfigTyped, TypeOK, Times
<1>2. AnswersRecent'
  <2>1. \A i \in Readers : r[i].since \in Nat
    BY <1>1 DEF Reader, Times
  <2> QED BY <1>1, <2>1, ConfigAssumption DEF Recent, AnswersRecent
<1>3. EntriesExpire' /\ StaleBounded'
  <2>1. \A k \in DEFAULTS : cache[k].expires \in Nat
    BY <1>1 DEF Entry
  <2> QED BY <1>1, <2>1, ConfigAssumption DEF Recent, EntriesExpire, StaleBounded, Cached
<1> QED BY <1>2, <1>3 DEF Recent

\* An admin's steps are about the dialog, and begin what a writer then does.
LEMMA AdminLeaves ==
  ASSUME ConfigTyped, Admin
  PROVE  UNCHANGED Rest
<1>1. ASSUME NEW j \in Writers, ConfirmRules(j) \/ ConfirmHours(j)
      PROVE  UNCHANGED Rest
  BY <1>1, ConfirmsBegin DEF Prompt
<1>2. ASSUME NEW j \in Writers, SetsOnly(j)
      PROVE  UNCHANGED Rest
  BY <1>2, SetsBegin
<1> QED BY <1>1, <1>2 DEF Admin, SetsOnly, PromptValue, PromptHours, PromptGeoCenter,
           PromptRules, Prompt, TypeRules, TypeHours

\* Every step keeps answers recent and entries short-lived.
LEMMA StepRecent ==
  ASSUME ConfigTyped, Recent, [Next]_vars
  PROVE  Recent'
<1>0. r \in [Readers -> Reader] /\ cache \in [DEFAULTS -> Entry]
  BY DEF ConfigTyped, TypeOK
<1>1. CASE UNCHANGED vars
  BY <1>1, RecentKept DEF vars
<1>2. CASE Crash
  BY <1>2, ClearsRecent DEF Crash, IdleReader
<1>3. CASE Admin
  BY <1>3, AdminLeaves, RestUnchanged, RecentKept
<1>4. ASSUME NEW i \in Readers,
             LoadFails(i) \/ EnterLock(i) \/ \E ks \in Reads : GetMany(i, ks)
      PROVE  Recent'
  <2>1. \A l \in Readers : r'[l].at = "store" => r'[l] = r[l]
    BY <1>0, <1>4 DEF LoadFails, EnterLock, GetMany, IdleReader, Reader
  <2> QED BY <1>4, <2>1, RecentKept DEF LoadFails, EnterLock, GetMany
<1>5. ASSUME NEW j \in Writers, SelectRow(j) \/ WriterFails(j)
      PROVE  Recent'
  BY <1>5, RecentKept DEF SelectRow, WriterFails
<1>6. ASSUME NEW j \in Writers, Invalidate(j)
      PROVE  Recent'
  <2>1. PICK k : k = Head1(j).key
    OBVIOUS
  <2>2. cache' = cache \/ cache' = [cache EXCEPT ![k] = NoEntry]
    BY <1>6, <2>1 DEF Invalidate
  <2>3. UNCHANGED <<now, table, replaced, r>>
    BY <1>6 DEF Invalidate
  <2> QED BY <1>0, <2>2, <2>3, ClearsRecent
<1> QED BY <1>1, <1>2, <1>3, <1>4, <1>5, <1>6, TickRecent, LoadRecent, StoreRecent, CommitRecent
        DEF Next, ReadOn, WriteOn

-----------------------------------------------------------------------------
(* What is served after an update *)

Freshly == AnswersFresh /\ FreshAfterWrite

\* Nothing that is being replaced is forgotten, and what is found and cached
\* stays as it was.
LEMMA FreshKept ==
  ASSUME Freshly, UNCHANGED table, now' >= now, now \in Nat, now' \in Nat,
         ConfigTyped,
         \A k \in DEFAULTS : cache'[k] \in {cache[k], NoEntry},
         raced \subseteq raced',
         \A i \in Readers : r'[i].at = "store" => r'[i] = r[i],
         \A k \in AllKeys \ raced' : Replacing(k) => Replacing(k)'
  PROVE  Freshly'
<1>1. cache \in [DEFAULTS -> Entry] /\ r \in [Readers -> Reader] /\ DEFAULTS \subseteq AllKeys
  BY DEF ConfigTyped, TypeOK, AllKeys
<1>2. AnswersFresh'
  <2> SUFFICES ASSUME NEW i \in Readers, r'[i].at = "store", NEW k \in r'[i].keys \ raced'
               PROVE  r'[i].rows[k] = table[k] \/ Replacing(k)'
    BY DEF AnswersFresh
  <2>1. r'[i] = r[i] /\ k \in r[i].keys \ raced /\ k \in AllKeys
    BY <1>1 DEF Reader
  <2> QED BY <2>1 DEF Freshly, AnswersFresh
<1>3. FreshAfterWrite'
  <2> SUFFICES ASSUME NEW k \in DEFAULTS \ raced', now' < cache'[k].expires,
                      cache'[k].value # table[k]
               PROVE  Replacing(k)'
    BY DEF FreshAfterWrite, Cached, Replacing
  <2>1. cache'[k] = cache[k] /\ k \in AllKeys /\ k \notin raced
    BY <1>1 DEF NoEntry
  <2>2. now < cache[k].expires
    BY <1>1, <2>1 DEF Entry
  <2> QED BY <2>1, <2>2 DEF Freshly, FreshAfterWrite, Cached, Replacing
<1> QED BY <1>2, <1>3 DEF Freshly

\* What other writers are about to tell the cache.
LEMMA OtherWriters ==
  ASSUME ConfigTyped, NEW j \in Writers, \A l \in Writers \ {j} : w'[l] = w[l],
         NEW k, Replacing(k), w[j].at = "invalidate" => Head1(j).key # k
  PROVE  Replacing(k)'
BY DEF Replacing, Head1

\* A query finds what the table has.
LEMMA LoadFresh ==
  ASSUME ConfigTyped, Freshly, NEW i \in Readers, Load(i)
  PROVE  Freshly'
<1>1. r \in [Readers -> Reader] /\ r[i] \in Reader
  BY DEF ConfigTyped, TypeOK
<1>2. /\ \A l \in Readers \ {i} : r'[l] = r[l]
      /\ r'[i].keys = r[i].keys
      /\ r'[i].rows = [k \in DEFAULTS |-> IF k \in r[i].keys THEN table[k] ELSE 0]
      /\ UNCHANGED <<now, table, cache, w, raced>>
  BY <1>1 DEF Load, Reader
<1>3. \A k \in r'[i].keys : r'[i].rows[k] = table'[k]
  BY <1>1, <1>2 DEF Reader
<1>4. \A k : Replacing(k)' <=> Replacing(k)
  BY <1>2 DEF Replacing, Head1
<1>5. AnswersFresh'
  BY <1>2, <1>3, <1>4 DEF Freshly, AnswersFresh
<1>6. FreshAfterWrite'
  BY <1>2, <1>4 DEF Freshly, FreshAfterWrite, Replacing, Cached
<1> QED BY <1>5, <1>6 DEF Freshly

\* The cache gets what the query found, which no update has raced.
LEMMA StoreFresh ==
  ASSUME ConfigTyped, Freshly, NEW i \in Readers, Store(i)
  PROVE  Freshly'
<1>1. /\ UNCHANGED <<now, table, w, raced>> /\ r[i].at = "store"
      /\ r' = [r EXCEPT ![i] = IdleReader]
      /\ \A k \in DEFAULTS :
           cache'[k] = IF TTL > 0 /\ k \in r[i].keys
                       THEN [value |-> r[i].rows[k], expires |-> now + TTL] ELSE cache[k]
      /\ r \in [Readers -> Reader]
  BY DEF Store, ConfigTyped, TypeOK
<1>2. \A k : Replacing(k)' <=> Replacing(k)
  BY <1>1 DEF Replacing, Head1
<1>3. AnswersFresh'
  BY <1>1, <1>2 DEF Freshly, AnswersFresh, IdleReader
<1>4. FreshAfterWrite'
  <2> SUFFICES ASSUME NEW k \in DEFAULTS \ raced, now < cache'[k].expires
               PROVE  cache'[k].value = table[k] \/ Replacing(k)
    BY <1>1, <1>2 DEF FreshAfterWrite, Replacing, Cached
  <2>1. CASE cache'[k] = cache[k]
    BY <2>1 DEF Freshly, FreshAfterWrite, Replacing, Cached
  <2>2. CASE /\ k \in r[i].keys
             /\ cache'[k] = [value |-> r[i].rows[k], expires |-> now + TTL]
    BY <1>1, <2>2 DEF Freshly, AnswersFresh
  <2> QED BY <1>1, <2>1, <2>2
<1> QED BY <1>3, <1>4 DEF Freshly

\* Whoever replaces a setting is about to tell the cache.
LEMMA CommitFresh ==
  ASSUME ConfigTyped, Freshly, NEW j \in Writers, CommitRow(j)
  PROVE  Freshly'
<1>0. /\ UNCHANGED <<now, cache, r, raced>> /\ w \in [Writers -> Writer]
      /\ table \in [AllKeys -> Values] /\ w[j].at = "commit" /\ w[j] \in Writer
      /\ r \in [Readers -> Reader] /\ now \in Nat
  BY DEF CommitRow, ConfigTyped, TypeOK, Times
<1>1. PICK k, v : k = Head1(j).key /\ v = Head1(j).value
  OBVIOUS
<1>2. /\ \A l \in Writers \ {j} : w'[l] = w[l]
      /\ \A l \in AllKeys : table'[l] # table[l] => l = k /\ Replacing(k)'
  <2>1. CASE /\ table' = [table EXCEPT ![k] = v]
             /\ w' = [w EXCEPT ![j].at = "invalidate"]
    <3>1. w'[j].at = "invalidate" /\ w'[j].todo = w[j].todo
      BY <1>0, <2>1 DEF Writer
    <3>2. Replacing(k)'
      BY <1>1, <3>1 DEF Replacing, Head1
    <3> QED BY <1>0, <2>1, <3>2
  <2>2. CASE w' = [w EXCEPT ![j] = IdleWriter] /\ table' = table
    BY <1>0, <2>2
  <2> QED BY <1>1, <2>1, <2>2 DEF CommitRow
<1>3. \A l : Replacing(l) => Replacing(l)'
  BY <1>0, <1>2, OtherWriters
<1>4. AnswersFresh'
  <2>1. \A i \in Readers : r[i].keys \subseteq AllKeys
    BY <1>0 DEF Reader, AllKeys
  <2> QED BY <1>0, <1>2, <1>3, <2>1 DEF Freshly, AnswersFresh
<1>5. FreshAfterWrite'
  <2> SUFFICES ASSUME NEW l \in DEFAULTS \ raced, now < cache[l].expires
               PROVE  cache[l].value = table'[l] \/ Replacing(l)'
    BY <1>0 DEF FreshAfterWrite, Replacing, Cached
  <2>1. cache[l].value = table[l] \/ Replacing(l)
    BY DEF Freshly, FreshAfterWrite, Replacing, Cached
  <2>2. l \in AllKeys
    BY DEF AllKeys
  <2> QED BY <1>2, <1>3, <2>1, <2>2
<1> QED BY <1>4, <1>5 DEF Freshly

\* The cache is told: whoever queried before is remembered as raced.
LEMMA InvalidateFresh ==
  ASSUME ConfigTyped, Freshly, NEW j \in Writers, Invalidate(j)
  PROVE  Freshly'
<1>0. /\ UNCHANGED <<now, table, r>> /\ w[j].at = "invalidate" /\ Proceed(j)
      /\ r \in [Readers -> Reader] /\ cache \in [DEFAULTS -> Entry] /\ now \in Nat
      /\ w \in [Writers -> Writer]
  BY DEF Invalidate, ConfigTyped, TypeOK, Times
<1>1. PICK k : k = Head1(j).key
  OBVIOUS
<1>2. \A l \in Writers \ {j} : w'[l] = w[l]
  BY <1>0 DEF Proceed
<1>3. \A l : l # k /\ Replacing(l) => Replacing(l)'
  BY <1>1, <1>2, OtherWriters
<1>4. IF k \in DEFAULTS
      THEN /\ cache' = [cache EXCEPT ![k] = NoEntry]
           /\ raced' = IF \E i \in Readers : r[i].at = "store" /\ k \in r[i].keys
                       THEN raced \cup {k} ELSE raced
      ELSE UNCHANGED <<cache, raced>>
  BY <1>1 DEF Invalidate
<1>5. AnswersFresh'
  <2> SUFFICES ASSUME NEW i \in Readers, r[i].at = "store", NEW l \in r[i].keys \ raced'
               PROVE  r[i].rows[l] = table[l] \/ Replacing(l)'
    BY <1>0 DEF AnswersFresh
  <2>1. l \in DEFAULTS
    BY <1>0 DEF Reader
  <2>2. l # k /\ l \notin raced
    BY <1>4, <2>1
  <2> QED BY <1>3, <2>2 DEF Freshly, AnswersFresh
<1>6. FreshAfterWrite'
  <2> SUFFICES ASSUME NEW l \in DEFAULTS \ raced', now < cache'[l].expires
               PROVE  cache'[l].value = table[l] \/ Replacing(l)'
    BY <1>0 DEF FreshAfterWrite, Replacing, Cached
  <2>1. l # k
    BY <1>0, <1>4 DEF NoEntry
  <2>2. cache'[l] = cache[l] /\ l \notin raced
    BY <1>0, <1>4, <2>1
  <2> QED BY <1>3, <2>1, <2>2 DEF Freshly, FreshAfterWrite, Replacing, Cached
<1> QED BY <1>5, <1>6 DEF Freshly

\* A writer that dies before it told the cache is remembered as raced.
LEMMA WriterFailsFresh ==
  ASSUME ConfigTyped, Freshly, NEW j \in Writers, WriterFails(j)
  PROVE  Freshly'
<1>1. /\ UNCHANGED <<now, table, cache, r>> /\ now \in Nat
      /\ w' = [w EXCEPT ![j] = IdleWriter] /\ w \in [Writers -> Writer]
      /\ raced' = IF w[j].at = "invalidate" THEN raced \cup {Head1(j).key} ELSE raced
  BY DEF WriterFails, ConfigTyped, TypeOK, Times
<1>2. \A l \in Writers \ {j} : w'[l] = w[l]
  BY <1>1
<1>3. \A k \in AllKeys \ raced' : Replacing(k) => Replacing(k)'
  BY <1>1, <1>2, OtherWriters
<1> QED BY <1>1, <1>3, FreshKept

\* A handler begins, or looks for its row.
LEMMA BusyFresh ==
  ASSUME ConfigTyped, Freshly, UNCHANGED <<now, table, cache, r, raced>>,
         NEW j \in Writers, w[j].at # "invalidate", \A l \in Writers \ {j} : w'[l] = w[l]
  PROVE  Freshly'
<1>1. now \in Nat
  BY DEF ConfigTyped, TypeOK, Times
<1>2. \A k : Replacing(k) => Replacing(k)'
  BY OtherWriters
<1> QED BY <1>1, <1>2, FreshKept

\* An admin's steps have writers begin, and change no setting themselves.
LEMMA AdminFresh ==
  ASSUME ConfigTyped, Freshly, Admin
  PROVE  Freshly'
<1>0. w \in [Writers -> Writer] /\ now \in Nat
  BY DEF ConfigTyped, TypeOK, Times
<1>1. UNCHANGED <<now, table, cache, r, raced>>
  BY AdminLeaves, RestUnchanged
<1>2. CASE w' = w
  <2>1. \A k : Replacing(k) => Replacing(k)'
    BY <1>2 DEF Replacing, Head1
  <2> QED BY <1>0, <1>1, <2>1, FreshKept
<1>3. ASSUME NEW j \in Writers, NEW todo, NEW ends, Begin(j, todo, ends)
      PROVE  Freshly'
  BY <1>0, <1>1, <1>3, BusyFresh DEF Begin
<1>4. ASSUME NEW j \in Writers, ConfirmRules(j) \/ ConfirmHours(j)
      PROVE  Freshly'
  BY <1>2, <1>3, <1>4, ConfirmsBegin DEF Prompt
<1>5. ASSUME NEW j \in Writers, SetsOnly(j)
      PROVE  Freshly'
  BY <1>3, <1>5, SetsBegin
<1> QED BY <1>2, <1>4, <1>5 DEF Admin, SetsOnly, PromptValue, PromptHours, PromptGeoCenter,
           PromptRules, Prompt, TypeRules, TypeHours

\* Every step keeps the cache true to the table, but for keys that were raced.
LEMMA StepFresh ==
  ASSUME ConfigTyped, Freshly, [Next]_vars
  PROVE  Freshly'
<1>0. /\ r \in [Readers -> Reader] /\ cache \in [DEFAULTS -> Entry]
      /\ w \in [Writers -> Writer] /\ now \in Nat
  BY DEF ConfigTyped, TypeOK, Times
<1>a. ASSUME w' = w PROVE \A k : Replacing(k) => Replacing(k)'
  BY <1>a DEF Replacing, Head1
<1>1. CASE UNCHANGED vars
  BY <1>0, <1>1, <1>a, FreshKept DEF vars
<1>2. CASE Crash
  BY <1>2 DEF Crash, Freshly, AnswersFresh, FreshAfterWrite, Cached, IdleReader, NoEntry,
              ConfigTyped, TypeOK, Times
<1>3. CASE Tick
  <2>1. now' = now + 1 /\ UNCHANGED <<table, cache, r, w, raced>>
    BY <1>3 DEF Tick
  <2> QED BY <1>0, <1>a, <2>1, FreshKept
<1>4. ASSUME NEW i \in Readers,
             LoadFails(i) \/ EnterLock(i) \/ \E ks \in Reads : GetMany(i, ks)
      PROVE  Freshly'
  <2>1. \A l \in Readers : r'[l].at = "store" => r'[l] = r[l]
    BY <1>0, <1>4 DEF LoadFails, EnterLock, GetMany, IdleReader, Reader
  <2>2. UNCHANGED <<now, table, cache, w, raced>>
    BY <1>4 DEF LoadFails, EnterLock, GetMany
  <2> QED BY <1>0, <1>a, <2>1, <2>2, FreshKept
<1>5. ASSUME NEW j \in Writers, SelectRow(j)
      PROVE  Freshly'
  BY <1>0, <1>5, BusyFresh DEF SelectRow
<1> QED BY <1>1, <1>2, <1>3, <1>4, <1>5, LoadFresh, StoreFresh, CommitFresh,
           InvalidateFresh, WriterFailsFresh, AdminFresh
        DEF Next, ReadOn, WriteOn

-----------------------------------------------------------------------------
(* Theorems *)

\* The parts of the invariant keep each other.
LEMMA ConfigStep == ConfigInv /\ [Next]_vars => ConfigInv'
<1> SUFFICES ASSUME ConfigInv, [Next]_vars PROVE ConfigInv'
  OBVIOUS
<1>1. ConfigTyped /\ Recent /\ Freshly
  BY DEF ConfigInv, Recent, Freshly
<1>2. ConfigTyped' /\ Recent' /\ Freshly'
  BY <1>1, StepTyped, StepRecent, StepFresh
<1> QED BY <1>2 DEF ConfigInv, Recent, Freshly

(***************************************************************************)
(* The inductive invariant holds in every reachable state: no overlap of   *)
(* get_many, set_config_value, the dialog and crashes leaves it.           *)
(***************************************************************************)
THEOREM ConfigInvariant == Spec => []ConfigInv
BY ConfigInit, ConfigStep, PTL DEF Spec

(***************************************************************************)
(* Every variable keeps its type; in particular, no handler writes a       *)
(* setting under a key that does not exist, or has nothing left to write.  *)
(***************************************************************************)
THEOREM SettingsTyped == Spec => []TypeOK
<1>1. ConfigInv => TypeOK
  BY DEF ConfigInv, ConfigTyped
<1> QED BY ConfigInvariant, <1>1, PTL

(***************************************************************************)
(* Whatever loads, updates, invalidations, failures and crashes overlap, a *)
(* setting that was replaced (set_config_value) is served by get_many for  *)
(* RUNTIME_CONFIG_CACHE_TTL and the time of one query at most.             *)
(***************************************************************************)
THEOREM StaleNotLong == Spec => []StaleBounded
<1>1. ConfigInv => StaleBounded
  BY DEF ConfigInv
<1> QED BY ConfigInvariant, <1>1, PTL

(***************************************************************************)
(* Once set_config_value has invalidated the cache, get_many serves the    *)
(* new setting, unless a reader had queried the old one and not stored it  *)
(* yet, or the writer died between its COMMIT and the invalidation.        *)
(***************************************************************************)
THEOREM FreshUnlessRaced == Spec => []FreshAfterWrite
<1>1. ConfigInv => FreshAfterWrite
  BY DEF ConfigInv
<1> QED BY ConfigInvariant, <1>1, PTL
=============================================================================
