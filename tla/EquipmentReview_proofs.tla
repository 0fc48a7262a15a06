----------------------- MODULE EquipmentReview_proofs -----------------------
(***************************************************************************)
(* For any number of admins, handlers, edits, faults and lists of ranges:  *)
(* as long as no two handlers of a request overlap, its verdict, its       *)
(* ranges, its messages and the records of them agree.                     *)
(***************************************************************************)
EXTENDS EquipmentReview, FiniteSetTheorems, TLAPS

\* Where a handler is once it has committed; Tail is the rest of a decision.
Tail      == {"dm", "dmrecord", "post", "postrecord"}
Unshown   == Tail \cup {"refresh", "editreview"}
Committed == Unshown \cup {"editpost"}
Editing   == {"editreview", "editpost"}

\* Where a handler has the request in hand.
Reading == Stages \ {"menu", "ask"}

\* The columns that handlers write, all but the one the submission writes.
Columns == DOMAIN row \ {"reviewed"}

Anyone(stages) == \E i \in Handlers : h[i].at \in stages

\* A handler carries out a verdict from its decision on.
Deciding == \A i \in Handlers : h[i].at \in {"decide"} \cup Tail => h[i].verdict \in Verdicts

\* A loaded object is the row, but for the id of a message recorded since.
SeenIsRow ==
  \A i \in Handlers : h[i].at \in Reading =>
    /\ \A c \in Columns : h[i].req[c] = row[c]
    /\ h[i].req.reviewed => row.reviewed

OneWriter ==
  \A i, j \in Handlers : h[i].at \in Committed /\ h[j].at \in Committed => i = j

\* What a handler knows of the messages and ranges at its stage.
Knows(i) ==
  /\ h[i].at \in Tail => h[i].verdict = row.status
  /\ h[i].at = "dm" => told = {}
  /\ h[i].at = "dmrecord" /\ h[i].sent => told # {}
  /\ h[i].at \in Tail \ {"postrecord"} => posts = {} /\ ~row.postSent
  /\ h[i].at \in {"post", "postrecord"} => row.status = "approved"
  /\ h[i].at = "postrecord" /\ h[i].sent =>
       posts = {[id |-> h[i].post, text |-> row.text, ranges |-> ranges]}
  /\ h[i].at = "replace" => h[i].doomed = ranges
  /\ h[i].at \in Reading \ Editing => h[i].list = ranges
  /\ h[i].at \in Editing => h[i].list \in {ranges, before}

Verdict ==
  /\ told \subseteq {row.status}
  /\ row.status = "submitted" => ~row.postSent
  /\ posts # {} => row.status = "approved" /\ \E p \in posts : posts = {p}

\* The review message shows the request, or what an admin left there.
Mirrored ==
  \/ review \in {Menu, Question}
  \/ \E rs \in {ranges, before} :
       review = [status |-> row.status, text |-> row.text, ranges |-> rs]

Posted(x, rs) == posts = {[id |-> row.post, text |-> x, ranges |-> rs]}

\* What is shown and recorded, but for what the one handler is still to do.
Shown ==
  /\ submit # "announce" /\ ~Anyone(Unshown) => Mirrored
  /\ ~Anyone({"dm", "dmrecord"}) => row.dmSent = (told # {})
  /\ \A i \in Handlers : h[i].at \in {"dmrecord", "postrecord"} => h[i].sent
  /\ ~Anyone(Tail) =>
       /\ row.postSent = (row.status = "approved")
       /\ row.status = "approved" =>
            \E x \in Versions, rs \in SUBSET Ranges :
              /\ Posted(x, rs)
              /\ ~Anyone(Editing) => x = row.text /\ rs \in {ranges, before}

Apart ==
  /\ SeenIsRow /\ OneWriter
  /\ \A i \in Handlers : Knows(i)
  /\ Verdict
  /\ ranges = row.needed
  /\ ~missed => Shown

IInv == TypeOK /\ IsFiniteSet(posts) /\ Deciding /\ (~raced => Apart)

-----------------------------------------------------------------------------
(* Rows and handlers *)

\* A row has its columns, each of its type, and the columns are these.
LEMMA RowColumns ==
  ASSUME NEW r \in Row
  PROVE  /\ DOMAIN r = {"status", "admin", "text", "needed", "reviewed", "dmSent", "dmError",
                        "postSent", "postError", "post"}
         /\ r.status \in Statuses /\ r.admin \in Admins \cup {NoAdmin}
         /\ r.text \in Versions /\ r.needed \in RangeSets
         /\ r.reviewed \in BOOLEAN /\ r.dmSent \in BOOLEAN /\ r.dmError \in BOOLEAN
         /\ r.postSent \in BOOLEAN /\ r.postError \in BOOLEAN /\ r.post \in Nat
BY DEF Row

\* A flush makes a row of rows, and takes each column from one of them.
LEMMA Merged ==
  ASSUME row \in Row, NEW l \in Row, NEW n \in Row
  PROVE  /\ Merge(l, n) \in Row
         /\ \A c \in DOMAIN row : Merge(l, n)[c] = IF n[c] # l[c] THEN n[c] ELSE row[c]
         /\ DOMAIN Merge(l, n) = DOMAIN row
<1> DEFINE m == Merge(l, n)
<1>1. /\ DOMAIN m = DOMAIN row
      /\ \A c \in DOMAIN row : m[c] = IF n[c] # l[c] THEN n[c] ELSE row[c]
      /\ m = [c \in DOMAIN row |-> m[c]]
  BY DEF Merge
<1> HIDE DEF m
<1>2. DOMAIN row = {"status", "admin", "text", "needed", "reviewed", "dmSent", "dmError",
                    "postSent", "postError", "post"}
  BY RowColumns
<1>3. /\ m.status \in Statuses /\ m.admin \in Admins \cup {NoAdmin}
      /\ m.text \in Versions /\ m.needed \in RangeSets
      /\ m.reviewed \in BOOLEAN /\ m.dmSent \in BOOLEAN /\ m.dmError \in BOOLEAN
      /\ m.postSent \in BOOLEAN /\ m.postError \in BOOLEAN /\ m.post \in Nat
  BY <1>1, <1>2, RowColumns
<1>4. m \in Row
  BY <1>1, <1>2, <1>3 DEF Row
<1> QED BY <1>1, <1>4 DEF m

\* One handler moves on.
LEMMA Moved ==
  ASSUME TypeOK, NEW i \in Handlers, NEW r \in Handler, h' = [h EXCEPT ![i] = r]
  PROVE  /\ h' \in [Handlers -> Handler]
         /\ h'[i] = r
         /\ \A j \in Handlers : j # i => h'[j] = h[j]
BY DEF TypeOK

\* A handler that is not under way, as a record of its type.
LEMMA IdleHandler == /\ NewRow \in Row
                     /\ Idle \in Handler /\ Idle.at = "idle"
                     /\ Requested \subseteq Ranges
<1>1. 0 \in Versions
  BY ReviewAssumption DEF Versions
<1>2. NewRow \in Row
  BY <1>1, ReviewAssumption DEF NewRow, Row, Statuses
<1> QED BY <1>2, ReviewAssumption DEF Idle, Handler, Statuses, Stages, Ranges

\* A fault within the bound.
LEMMA FaultCounted ==
  ASSUME TypeOK, faults < MaxFaults, faults' = faults + 1
  PROVE  faults' \in 0..MaxFaults
BY ReviewAssumption DEF TypeOK

-----------------------------------------------------------------------------
(* Steps that commit *)

\* After its COMMIT a handler has the row; if nothing has overlapped, the row
\* is what it meant to write, and nobody else is under way.
LEMMA CommitStep ==
  ASSUME TypeOK, NEW i \in Handlers, NEW n \in Row, NEW at \in Stages, NEW l \in SUBSET Ranges,
         Commit(i, n, at, l), h[i].at \in Reading
  PROVE  /\ row' \in Row
         /\ h' \in [Handlers -> Handler]
         /\ h'[i].req = row' /\ h'[i].at = at /\ h'[i].verdict = h[i].verdict
         /\ h'[i].sent = h[i].sent /\ h'[i].post = h[i].post /\ h'[i].list = l
         /\ \A j \in Handlers : j # i => h'[j] = h[j]
         /\ raced' \in BOOLEAN
         /\ ~raced' => /\ ~raced
                       /\ \A j \in Handlers : j # i => h'[j] = h[j] /\ h[j].at = "idle"
         /\ ~raced' /\ SeenIsRow =>
              /\ \A c \in Columns : h[i].req[c] = row[c] /\ row'[c] = n[c]
              /\ n.reviewed = h[i].req.reviewed => row'.reviewed = row.reviewed
<1>1. row \in Row /\ h[i] \in Handler /\ h[i].req \in Row
  BY DEF TypeOK, Handler
<1>2. /\ row' = Merge(h[i].req, n)
      /\ h' = [h EXCEPT ![i].req = row', ![i].at = at, ![i].list = l]
      /\ raced' = (raced \/ Others(i))
  BY DEF Commit
<1>3. PICK m \in Row : m = Merge(h[i].req, n)
  BY <1>1, Merged
<1>4. /\ row' = m
      /\ \A c \in DOMAIN row : m[c] = IF n[c] # h[i].req[c] THEN n[c] ELSE row[c]
  BY <1>1, <1>2, <1>3, Merged
<1>5. PICK r : r = [h[i] EXCEPT !.req = m, !.at = at, !.list = l]
  OBVIOUS
<1>6. r \in Handler
  BY <1>1, <1>5 DEF Handler
<1>7. h' = [h EXCEPT ![i] = r]
  BY <1>2, <1>4, <1>5 DEF TypeOK
<1>8. h' \in [Handlers -> Handler] /\ h'[i] = r /\ \A j \in Handlers : j # i => h'[j] = h[j]
  BY <1>6, <1>7, Moved
<1>9. raced' \in BOOLEAN /\ (~raced' => ~raced /\ \A j \in Handlers : j # i => h[j].at = "idle")
  BY <1>2 DEF TypeOK, Others, Busy
<1>10. ASSUME ~raced', SeenIsRow
       PROVE  /\ \A c \in Columns : h[i].req[c] = row[c] /\ row'[c] = n[c]
              /\ n.reviewed = h[i].req.reviewed => row'.reviewed = row.reviewed
  <2>1. \A c \in Columns : h[i].req[c] = row[c]
    BY <1>10 DEF SeenIsRow
  <2>2. "reviewed" \in DOMAIN row
    BY <1>1, RowColumns
  <2> QED BY <1>4, <2>1, <2>2 DEF Columns
<1>11. /\ h'[i].req = m /\ h'[i].at = at /\ h'[i].verdict = h[i].verdict
       /\ h'[i].sent = h[i].sent /\ h'[i].post = h[i].post /\ h'[i].list = l
  BY <1>1, <1>5, <1>8 DEF Handler
<1> QED BY <1>4, <1>8, <1>9, <1>10, <1>11

\* What holds of the handlers after a COMMIT with which nothing overlapped.
LEMMA CommitAlone ==
  ASSUME IInv, NEW i \in Handlers, NEW n \in Row, NEW at \in Committed, NEW l \in SUBSET Ranges,
         Commit(i, n, at, l), h[i].at \in Reading,
         ~raced'
  PROVE  /\ ~raced /\ Apart
         /\ SeenIsRow' /\ OneWriter'
         /\ \A j \in Handlers : j # i => Knows(j)'
         /\ \A S \in SUBSET Stages : Anyone(S)' <=> at \in S
         /\ \A j \in Handlers : j # i => h'[j].at = "idle" /\ h[j].at = "idle"
         /\ \A c \in Columns : h[i].req[c] = row[c] /\ row'[c] = n[c]
         /\ n.reviewed = h[i].req.reviewed => row'.reviewed = row.reviewed
<1>1. at \in Stages /\ TypeOK
  BY DEF Committed, Unshown, Tail, Stages, IInv
<1>2. /\ h'[i].req = row' /\ h'[i].at = at
      /\ \A j \in Handlers : j # i => h'[j] = h[j] /\ h[j].at = "idle"
      /\ ~raced
  BY <1>1, CommitStep
<1>3. Apart
  BY <1>2 DEF IInv
<1>4. SeenIsRow'
  BY <1>2 DEF SeenIsRow, Reading, Stages
<1>5. OneWriter' /\ \A j \in Handlers : j # i => Knows(j)'
  BY <1>2 DEF OneWriter, Knows, Committed, Unshown, Tail, Editing, Reading, Stages
<1>6. \A S \in SUBSET Stages : Anyone(S)' <=> at \in S
  BY <1>2 DEF Anyone, Stages
<1>7. /\ \A c \in Columns : h[i].req[c] = row[c] /\ row'[c] = n[c]
      /\ n.reviewed = h[i].req.reviewed => row'.reviewed = row.reviewed
  BY <1>1, <1>3, CommitStep DEF Apart
<1> QED BY <1>2, <1>3, <1>4, <1>5, <1>6, <1>7

\* A COMMIT keeps the types, and the verdict of a decision.
LEMMA CommitTyped ==
  ASSUME IInv, NEW i \in Handlers, NEW n \in Row, NEW at \in Committed, NEW l \in SUBSET Ranges,
         Commit(i, n, at, l), h[i].at \in Reading,
         at \in Tail => h[i].verdict \in Verdicts,
         ranges' \subseteq Ranges, before' \subseteq Ranges,
         UNCHANGED <<submit, dialog, review, posts, told, edits, faults, missed>>
  PROVE  TypeOK' /\ IsFiniteSet(posts)' /\ Deciding'
<1>1. at \in Stages /\ TypeOK
  BY DEF Committed, Unshown, Tail, Stages, IInv
<1>2. /\ row' \in Row /\ h' \in [Handlers -> Handler] /\ raced' \in BOOLEAN
      /\ h'[i].at = at /\ h'[i].verdict = h[i].verdict
      /\ \A j \in Handlers : j # i => h'[j] = h[j]
  BY <1>1, CommitStep
<1>3. TypeOK' /\ IsFiniteSet(posts)'
  BY <1>2 DEF IInv, TypeOK
<1>4. at # "decide"
  BY DEF Committed, Unshown, Tail
<1>5. Deciding'
  BY <1>2, <1>4 DEF IInv, Deciding
<1> QED BY <1>3, <1>5

\* Decide: nothing has been sent yet.
LEMMA DecideKeeps ==
  ASSUME IInv, NEW i \in Handlers, Decide(i)
  PROVE  IInv'
<1>1. /\ h[i].at = "decide" /\ Busy(i) /\ h[i] \in Handler /\ h[i].req \in Row
      /\ h[i].req.status \in Statuses \ Verdicts /\ h[i].verdict \in Verdicts
      /\ TypeOK /\ "dm" \in Stages \cap Committed
      /\ h[i].at \in Reading /\ ranges \in SUBSET Ranges /\ before \in SUBSET Ranges
  BY RowColumns DEF Decide, EnsureDecidable, IInv, TypeOK, Handler, Busy, Deciding, Stages,
     Committed, Unshown, Tail, Reading
<1>2. PICK n \in Row : n = [h[i].req EXCEPT !.status = h[i].verdict, !.admin = h[i].admin]
  BY <1>1 DEF Row, Handler, Statuses
<1>3. /\ n.status = h[i].verdict
      /\ \A c \in Columns \ {"status", "admin"} : n[c] = h[i].req[c]
      /\ n.reviewed = h[i].req.reviewed
  BY <1>1, <1>2, RowColumns DEF Columns, TypeOK
<1>4. /\ Commit(i, n, "dm", ranges)
      /\ UNCHANGED <<ranges, before, submit, dialog, review, posts, told, edits, faults, missed>>
  BY <1>2 DEF Decide
<1>5. h'[i].at = "dm" /\ h'[i].verdict = h[i].verdict /\ h'[i].list = ranges
  BY <1>1, <1>4, CommitStep
<1>6. TypeOK' /\ IsFiniteSet(posts)' /\ Deciding'
  BY <1>1, <1>4, CommitTyped DEF TypeOK
<1>7. ASSUME ~raced' PROVE Apart'
  <2>1. /\ ~raced /\ Apart
        /\ SeenIsRow' /\ OneWriter'
        /\ \A j \in Handlers : j # i => Knows(j)'
        /\ \A S \in SUBSET Stages : Anyone(S)' <=> "dm" \in S
        /\ \A j \in Handlers : j # i => h'[j].at = "idle"
        /\ \A c \in Columns : h[i].req[c] = row[c] /\ row'[c] = n[c]
    BY <1>1, <1>4, <1>7, CommitAlone
  <2>3. {"status", "postSent", "needed"} \subseteq Columns
    BY RowColumns DEF Columns, IInv, TypeOK
  <2>4. /\ row.status = "submitted" /\ row'.status = h[i].verdict
        /\ row'.postSent = row.postSent /\ row'.needed = row.needed
    BY <1>1, <1>3, <2>1, <2>3 DEF Statuses
  <2>5. posts = {} /\ told = {} /\ ~row.postSent
    BY <2>1, <2>4 DEF Apart, Verdict, IInv, TypeOK, Verdicts
  <2>6. Knows(i)' /\ Verdict' /\ ranges' = row'.needed
    BY <1>4, <1>1, <1>5, <2>1, <2>4, <2>5 DEF Knows, Verdict, Apart, Tail, Verdicts, Editing
  <2>7. Shown'
    <3>1. Anyone(Unshown)' /\ Anyone({"dm", "dmrecord"})' /\ Anyone(Tail)'
      BY <2>1 DEF Unshown, Tail, Stages
    <3>2. \A j \in Handlers : h'[j].at \notin {"dmrecord", "postrecord"}
      BY <1>5, <2>1
    <3> QED BY <3>1, <3>2 DEF Shown
  <2> QED BY <2>1, <2>6, <2>7 DEF Apart
<1> QED BY <1>6, <1>7 DEF IInv

\* RecordDm: the row learns whether the requester was told.
LEMMA RecordDmKeeps ==
  ASSUME IInv, NEW i \in Handlers, RecordDm(i)
  PROVE  IInv'
<1>1. /\ h[i].at = "dmrecord" /\ Busy(i) /\ h[i] \in Handler /\ h[i].req \in Row
      /\ h[i].verdict \in Verdicts /\ h[i].sent \in BOOLEAN /\ TypeOK
      /\ {"post", "refresh"} \subseteq Stages \cap Committed
      /\ h[i].at \in Reading \ Editing /\ h[i].list \in SUBSET Ranges
      /\ ranges \in SUBSET Ranges /\ before \in SUBSET Ranges
  BY DEF RecordDm, IInv, TypeOK, Handler, Busy, Deciding, Stages, Committed, Unshown, Tail,
     Reading, Editing
<1>2. PICK n \in Row : n = [h[i].req EXCEPT !.dmSent = h[i].sent, !.dmError = ~h[i].sent]
  BY <1>1 DEF Row
<1>3. /\ n.dmSent = h[i].sent
      /\ \A c \in Columns \ {"dmSent", "dmError"} : n[c] = h[i].req[c]
      /\ n.reviewed = h[i].req.reviewed
  BY <1>1, <1>2, RowColumns DEF Columns, TypeOK
<1>4. PICK at \in {"post", "refresh"} : at = IF h[i].verdict = "approved" THEN "post" ELSE "refresh"
  BY <1>1
<1>5. /\ Commit(i, n, at, h[i].list)
      /\ UNCHANGED <<ranges, before, submit, dialog, review, posts, told, edits, faults, missed>>
  BY <1>2, <1>4 DEF RecordDm
<1>6. h'[i].at = at /\ h'[i].verdict = h[i].verdict /\ h'[i].list = h[i].list
  BY <1>1, <1>5, CommitStep
<1>7. TypeOK' /\ IsFiniteSet(posts)' /\ Deciding'
  BY <1>1, <1>5, CommitTyped DEF TypeOK
<1>8. ASSUME ~raced' PROVE Apart'
  <2>1. /\ ~raced /\ Apart
        /\ SeenIsRow' /\ OneWriter'
        /\ \A j \in Handlers : j # i => Knows(j)'
        /\ \A S \in SUBSET Stages : Anyone(S)' <=> at \in S
        /\ \A j \in Handlers : j # i => h'[j].at = "idle"
        /\ \A c \in Columns : h[i].req[c] = row[c] /\ row'[c] = n[c]
    BY <1>1, <1>5, <1>8, CommitAlone
  <2>2. {"status", "dmSent", "postSent", "needed"} \subseteq Columns
    BY <1>1, RowColumns DEF Columns, TypeOK
  <2>3. /\ row'.status = row.status /\ row'.dmSent = h[i].sent
        /\ row'.postSent = row.postSent /\ row'.needed = row.needed
    BY <1>3, <2>1, <2>2
  <2>4. /\ h[i].verdict = row.status /\ posts = {} /\ ~row.postSent
        /\ (h[i].sent => told # {}) /\ h[i].list = ranges
    BY <1>1, <2>1 DEF Apart, Knows, Tail
  <2>5. Knows(i)' /\ Verdict' /\ ranges' = row'.needed
    BY <1>4, <1>5, <1>6, <2>1, <2>3, <2>4 DEF Knows, Verdict, Apart, Tail, Verdicts, Editing
  <2>6. ASSUME ~missed PROVE Shown'
    <3>1. Anyone(Unshown)' /\ ~Anyone({"dm", "dmrecord"})' /\ h[i].sent
      BY <1>1, <2>1, <2>6 DEF Unshown, Tail, Stages, Apart, Shown
    <3>2. \A j \in Handlers : h'[j].at \notin {"dmrecord", "postrecord"}
      BY <1>6, <2>1
    <3>3. Anyone(Tail)' \/ row.status # "approved"
      BY <1>4, <2>1, <2>4 DEF Tail, Stages
    <3>4. Anyone(Tail)' \/ row'.postSent = (row'.status = "approved")
      <4>1. row.postSent = FALSE
        BY <1>1, <2>4, RowColumns DEF TypeOK
      <4> QED BY <2>3, <3>3, <4>1
    <3> QED BY <1>5, <2>3, <2>4, <3>1, <3>2, <3>3, <3>4 DEF Shown
  <2> QED BY <1>5, <2>1, <2>5, <2>6 DEF Apart
<1> QED BY <1>7, <1>8 DEF IInv

\* RecordPost: the row learns which post is its own.
LEMMA RecordPostKeeps ==
  ASSUME IInv, NEW i \in Handlers, RecordPost(i)
  PROVE  IInv'
<1>1. /\ h[i].at = "postrecord" /\ Busy(i) /\ h[i] \in Handler /\ h[i].req \in Row
      /\ h[i].sent \in BOOLEAN /\ h[i].post \in Nat /\ TypeOK
      /\ "refresh" \in (Stages \cap Committed) \ Tail
      /\ h[i].at \in Reading \ Editing /\ h[i].list \in SUBSET Ranges
      /\ ranges \in SUBSET Ranges /\ before \in SUBSET Ranges
  BY DEF RecordPost, IInv, TypeOK, Handler, Busy, Stages, Committed, Unshown, Tail,
     Reading, Editing
<1> DEFINE m == [h[i].req EXCEPT !.postSent = h[i].sent, !.postError = ~h[i].sent]
<1>2. PICK n \in Row : n = IF h[i].sent THEN [m EXCEPT !.post = h[i].post] ELSE m
  BY <1>1 DEF Row
<1>3. /\ n.postSent = h[i].sent
      /\ h[i].sent => n.post = h[i].post
      /\ \A c \in Columns \ {"postSent", "postError", "post"} : n[c] = h[i].req[c]
      /\ n.reviewed = h[i].req.reviewed
  BY <1>1, <1>2, RowColumns DEF Columns, TypeOK
<1>4. /\ Commit(i, n, "refresh", h[i].list)
      /\ UNCHANGED <<ranges, before, submit, dialog, review, posts, told, edits, faults, missed>>
  BY <1>2 DEF RecordPost
<1>5. h'[i].at = "refresh" /\ h'[i].list = h[i].list
  BY <1>1, <1>4, CommitStep
<1>6. TypeOK' /\ IsFiniteSet(posts)' /\ Deciding'
  BY <1>1, <1>4, CommitTyped DEF TypeOK
<1>7. ASSUME ~raced' PROVE Apart'
  <2>1. /\ ~raced /\ Apart
        /\ SeenIsRow' /\ OneWriter'
        /\ \A j \in Handlers : j # i => Knows(j)'
        /\ \A S \in SUBSET Stages : Anyone(S)' <=> "refresh" \in S
        /\ \A j \in Handlers : j # i => h'[j].at = "idle" /\ h[j].at = "idle"
        /\ \A c \in Columns : h[i].req[c] = row[c] /\ row'[c] = n[c]
    BY <1>1, <1>4, <1>7, CommitAlone
  <2>2. {"status", "text", "dmSent", "postSent", "needed", "post"} \subseteq Columns
    BY <1>1, RowColumns DEF Columns, TypeOK
  <2>3. /\ row'.status = row.status /\ row'.dmSent = row.dmSent /\ row'.text = row.text
        /\ row'.postSent = h[i].sent /\ row'.needed = row.needed
        /\ h[i].sent => row'.post = h[i].post
    BY <1>3, <2>1, <2>2
  <2>4. /\ row.status = "approved"
        /\ h[i].sent => posts = {[id |-> h[i].post, text |-> row.text, ranges |-> ranges]}
        /\ h[i].list = ranges
    BY <1>1, <2>1 DEF Apart, Knows
  <2>5. Knows(i)' /\ Verdict' /\ ranges' = row'.needed
    BY <1>4, <1>5, <2>1, <2>3, <2>4 DEF Knows, Verdict, Apart, Tail, Editing
  <2>6. ASSUME ~missed PROVE Shown'
    <3>1. /\ Anyone(Unshown)' /\ ~Anyone({"dm", "dmrecord"})' /\ ~Anyone(Tail)'
          /\ ~Anyone(Editing)' /\ ~Anyone({"dm", "dmrecord"})
      BY <1>1, <2>1 DEF Unshown, Tail, Stages, Anyone, Editing
    <3>2. \A j \in Handlers : h'[j].at \notin {"dmrecord", "postrecord"}
      BY <1>5, <2>1
    <3>3. h[i].sent /\ row.dmSent = (told # {}) /\ row'.text \in Versions
      BY <1>1, <2>1, <2>3, <2>6, <3>1, RowColumns DEF Apart, Shown, TypeOK
    <3> QED BY <1>1, <1>4, <2>3, <2>4, <3>1, <3>2, <3>3 DEF Shown, Posted
  <2> QED BY <1>4, <2>1, <2>5, <2>6 DEF Apart
<1> QED BY <1>6, <1>7 DEF IInv

\* A COMMIT of an edit leaves the columns of the verdict and of the post alone.
LEMMA EditKeeps ==
  ASSUME IInv, NEW i \in Handlers, NEW n \in Row, NEW l \in SUBSET Ranges,
         h[i].at \in {"field", "replace"}, Commit(i, n, "editreview", l),
         UNCHANGED <<submit, dialog, review, posts, told, edits, faults, missed>>,
         \A c \in Columns \ {"text", "needed"} : n[c] = h[i].req[c],
         n.reviewed = h[i].req.reviewed,
         ranges' \subseteq Ranges, before' \subseteq Ranges,
         Apart => l \in {ranges', before'},
         Apart /\ n.needed = row'.needed => ranges' = row'.needed
  PROVE  IInv'
<1>1. /\ Busy(i) /\ h[i] \in Handler /\ TypeOK
      /\ "editreview" \in (Stages \cap Committed) \ Tail /\ h[i].at \in Reading
  BY DEF Reading, IInv, TypeOK, Busy, Stages, Committed, Unshown, Tail
<1>2. h'[i].at = "editreview" /\ h'[i].list = l
  BY <1>1, CommitStep
<1>3. TypeOK' /\ IsFiniteSet(posts)' /\ Deciding'
  BY <1>1, CommitTyped
<1>4. ASSUME ~raced' PROVE Apart'
  <2>1. /\ ~raced /\ Apart
        /\ SeenIsRow' /\ OneWriter'
        /\ \A j \in Handlers : j # i => Knows(j)'
        /\ \A S \in SUBSET Stages : Anyone(S)' <=> "editreview" \in S
        /\ \A j \in Handlers : j # i => h'[j].at = "idle" /\ h[j].at = "idle"
        /\ \A c \in Columns : h[i].req[c] = row[c] /\ row'[c] = n[c]
    BY <1>1, <1>4, CommitAlone
  <2>2. {"status", "dmSent", "postSent", "needed", "post"} \subseteq Columns
    BY <1>1, RowColumns DEF Columns, TypeOK
  <2>3. /\ row'.status = row.status /\ row'.dmSent = row.dmSent
        /\ row'.postSent = row.postSent /\ row'.post = row.post
        /\ ranges' = row'.needed
    BY <2>1, <2>2
  <2>4. Knows(i)' /\ Verdict'
    BY <1>2, <2>1, <2>3 DEF Knows, Verdict, Apart, Tail, Editing
  <2>5. ASSUME ~missed PROVE Shown'
    <3>1. /\ Anyone(Unshown)' /\ Anyone(Editing)'
          /\ ~Anyone({"dm", "dmrecord"}) /\ ~Anyone(Tail)
      BY <2>1 DEF Unshown, Tail, Stages, Anyone, Editing
    <3>2. \A j \in Handlers : h'[j].at \notin {"dmrecord", "postrecord"}
      BY <1>2, <2>1
    <3> QED BY <2>1, <2>3, <2>5, <3>1, <3>2 DEF Shown, Posted, Apart
  <2> QED BY <2>1, <2>3, <2>4, <2>5 DEF Apart
<1> QED BY <1>3, <1>4 DEF IInv

\* The two kinds of edit.
LEMMA WriteKeeps ==
  ASSUME IInv, NEW i \in Handlers, WriteField(i) \/ ReplaceRanges(i)
  PROVE  IInv'
<1>1. /\ h[i] \in Handler /\ h[i].req \in Row /\ h[i].new \in RangeSets /\ TypeOK
      /\ edits \in Versions
      /\ ranges \in SUBSET Ranges /\ before \in SUBSET Ranges /\ h[i].list \in SUBSET Ranges
  BY DEF IInv, TypeOK, Handler
<1>2. CASE WriteField(i)
  <2>1. PICK n \in Row : n = [h[i].req EXCEPT !.text = edits]
    BY <1>1 DEF Row
  <2>2. /\ \A c \in Columns \ {"text"} : n[c] = h[i].req[c]
        /\ n.reviewed = h[i].req.reviewed
    BY <1>1, <2>1, RowColumns DEF Columns, TypeOK
  <2>3. /\ h[i].at = "field" /\ Commit(i, n, "editreview", ranges)
        /\ UNCHANGED <<ranges, before, submit, dialog, review, posts, told, edits, faults, missed>>
    BY <1>2, <2>1 DEF WriteField
  <2>4. Apart /\ n.needed = row'.needed => ranges' = row'.needed
    <3> SUFFICES ASSUME Apart, n.needed = row'.needed PROVE ranges' = row'.needed
      OBVIOUS
    <3>1. h[i].at \in Reading /\ "needed" \in Columns
      BY <1>1, <2>3, RowColumns DEF Reading, Stages, Columns, TypeOK
    <3>2. n.needed = h[i].req.needed /\ h[i].req.needed = row.needed
      BY <2>2, <3>1 DEF Apart, SeenIsRow
    <3>3. ranges = row.needed
      BY DEF Apart
    <3> QED BY <2>3, <3>2, <3>3
  <2>5. Apart => ranges \in {ranges', before'}
    BY <2>3
  <2>6. ranges' \subseteq Ranges /\ before' \subseteq Ranges
    BY <1>1, <2>3
  <2>7. \A c \in Columns \ {"text", "needed"} : n[c] = h[i].req[c]
    BY <2>2
  <2> QED BY <1>1, <2>2, <2>3, <2>4, <2>5, <2>6, <2>7, EditKeeps
<1>3. CASE ReplaceRanges(i)
  <2>1. PICK n \in Row : n = [h[i].req EXCEPT !.needed = h[i].new]
    BY <1>1 DEF Row
  <2>2. /\ \A c \in Columns \ {"needed"} : n[c] = h[i].req[c]
        /\ n.reviewed = h[i].req.reviewed /\ n.needed = h[i].new
    BY <1>1, <2>1, RowColumns DEF Columns, TypeOK
  <2>3. /\ h[i].at = "replace" /\ Commit(i, n, "editreview", h[i].list)
        /\ before' = ranges
        /\ UNCHANGED <<submit, dialog, review, posts, told, edits, faults, missed>>
        /\ ranges' = (ranges \ h[i].doomed) \cup h[i].new
    BY <1>3, <2>1 DEF ReplaceRanges
  <2>4. ranges' \subseteq Ranges
    BY <1>1, <2>3 DEF TypeOK, Ranges
  <2>5. Apart /\ n.needed = row'.needed => ranges' = row'.needed
    <3> SUFFICES ASSUME Apart, n.needed = row'.needed PROVE ranges' = row'.needed
      OBVIOUS
    <3>1. h[i].doomed = ranges
      BY <2>3 DEF Apart, Knows
    <3> QED BY <2>2, <2>3, <3>1
  <2>6. Apart => h[i].list = ranges
    BY <2>3 DEF Apart, Knows, Reading, Editing, Stages
  <2> QED BY <1>1, <2>2, <2>3, <2>4, <2>5, <2>6, EditKeeps
<1> QED BY <1>2, <1>3

-----------------------------------------------------------------------------
(* Steps that leave the row alone *)

\* One handler moves on, with the row as it is.
LEMMA HandlerStep ==
  ASSUME IInv, NEW i \in Handlers, NEW r \in Handler, h' = [h EXCEPT ![i] = r],
         UNCHANGED <<row, ranges, before, submit, raced>>,
         dialog' \subseteq Admins,
         review' \in Message \cup {NoMessage, Menu, Question},
         posts' \subseteq Post, IsFiniteSet(posts)',
         told' \subseteq Verdicts,
         edits' \in Versions, faults' \in 0..MaxFaults, missed' \in BOOLEAN,
         r.at \in {"decide"} \cup Tail => r.verdict \in Verdicts,
         r.at \in Reading => r.req = row \/ (h[i].at \in Reading /\ r.req = h[i].req),
         r.at \in Committed => h[i].at \in Committed,
         (told' = told /\ posts' = posts) \/ h[i].at \in Committed
  PROVE  /\ TypeOK' /\ IsFiniteSet(posts)' /\ Deciding'
         /\ h'[i] = r /\ \A j \in Handlers : j # i => h'[j] = h[j]
         /\ ~raced' => /\ Apart
                       /\ SeenIsRow' /\ OneWriter'
                       /\ \A j \in Handlers : j # i => Knows(j)'
                       /\ h[i].at \in Committed =>
                            \A j \in Handlers : j # i => h[j].at \notin Committed
<1>1. /\ h' \in [Handlers -> Handler] /\ h'[i] = r
      /\ \A j \in Handlers : j # i => h'[j] = h[j]
  BY Moved DEF IInv
<1>2. TypeOK' /\ IsFiniteSet(posts)'
  BY <1>1 DEF IInv, TypeOK
<1>3. Deciding'
  BY <1>1 DEF IInv, Deciding
<1>4. ASSUME ~raced'
      PROVE  /\ Apart
             /\ SeenIsRow' /\ OneWriter'
             /\ \A j \in Handlers : j # i => Knows(j)'
             /\ h[i].at \in Committed => \A j \in Handlers : j # i => h[j].at \notin Committed
  <2>1. Apart
    BY <1>4 DEF IInv
  <2>2. SeenIsRow'
    <3>1. Columns' = Columns
      BY DEF Columns
    <3> SUFFICES ASSUME NEW j \in Handlers, h'[j].at \in Reading
                 PROVE  /\ \A c \in Columns : h'[j].req[c] = row[c]
                        /\ h'[j].req.reviewed => row.reviewed
      BY <3>1 DEF SeenIsRow
    <3>2. CASE j # i
      BY <1>1, <2>1, <3>2 DEF Apart, SeenIsRow
    <3>3. CASE j = i
      BY <1>1, <2>1, <3>3 DEF Apart, SeenIsRow
    <3> QED BY <3>2, <3>3
  <2>3. OneWriter'
    BY <1>1, <2>1 DEF Apart, OneWriter
  <2>4. h[i].at \in Committed => \A j \in Handlers : j # i => h[j].at \notin Committed
    BY <2>1 DEF Apart, OneWriter
  <2>5. \A j \in Handlers : j # i => Knows(j)'
    <3> SUFFICES ASSUME NEW j \in Handlers, j # i PROVE Knows(j)'
      OBVIOUS
    <3>1. h'[j] = h[j] /\ Knows(j)
      BY <1>1, <2>1 DEF Apart
    <3>2. CASE told' = told /\ posts' = posts
      BY <3>1, <3>2 DEF Knows
    <3>3. CASE h[i].at \in Committed
      <4>1. h[j].at \notin Committed
        BY <2>4, <3>3
      <4> QED BY <3>1, <4>1 DEF Knows, Committed, Unshown, Tail, Editing
    <3> QED BY <3>2, <3>3
  <2> QED BY <2>1, <2>2, <2>3, <2>4, <2>5
<1> QED BY <1>1, <1>2, <1>3, <1>4

\* SendDm and DmFails: the requester had heard nothing.
LEMMA DmKeeps ==
  ASSUME IInv, NEW i \in Handlers, SendDm(i) \/ DmFails(i)
  PROVE  IInv'
<1>1. /\ h[i].at = "dm" /\ Busy(i) /\ h[i] \in Handler /\ TypeOK /\ h[i].verdict \in Verdicts
      /\ "dm" \in Committed /\ "dmrecord" \in Tail /\ h[i].at \in Reading \ Editing
  BY DEF Reading, Editing, Stages, SendDm, DmFails, IInv, TypeOK, Busy, Deciding, Committed, Unshown, Tail
<1>2. PICK b \in BOOLEAN : IF b THEN SendDm(i) ELSE DmFails(i)
  <2>1. CASE SendDm(i)
    <3> WITNESS TRUE \in BOOLEAN
    <3> QED BY <2>1
  <2>2. CASE DmFails(i)
    <3> WITNESS FALSE \in BOOLEAN
    <3> QED BY <2>2
  <2> QED BY <2>1, <2>2
<1>3. PICK r : r = [h[i] EXCEPT !.at = "dmrecord", !.sent = b]
  OBVIOUS
<1>4. /\ r \in Handler /\ r.at = "dmrecord" /\ r.sent = b /\ r.req = h[i].req
      /\ r.verdict = h[i].verdict /\ r.list = h[i].list
  BY <1>1, <1>3 DEF Handler, Stages
<1>5. /\ h' = [h EXCEPT ![i] = r]
      /\ UNCHANGED <<row, ranges, before, submit, dialog, review, posts, edits, raced>>
      /\ told' \in {told, told \cup {h[i].verdict}}
      /\ b => told' = told \cup {h[i].verdict}
  <2>1. CASE b
    BY <1>1, <1>2, <1>3, <2>1 DEF SendDm, TypeOK
  <2>2. CASE ~b
    BY <1>1, <1>2, <1>3, <2>2 DEF DmFails, TypeOK
  <2> QED BY <2>1, <2>2
<1>6. /\ faults' \in 0..MaxFaults /\ missed' \in BOOLEAN
      /\ ~missed' => b /\ ~missed
  <2>1. CASE b
    BY <1>1, <1>2, <2>1 DEF SendDm, TypeOK
  <2>2. CASE ~b
    BY <1>1, <1>2, <2>2, FaultCounted DEF DmFails
  <2> QED BY <2>1, <2>2
<1>7. IsFiniteSet(posts)'
  BY <1>5 DEF IInv
<1>8. /\ TypeOK' /\ IsFiniteSet(posts)' /\ Deciding'
      /\ h'[i] = r /\ \A j \in Handlers : j # i => h'[j] = h[j]
      /\ ~raced' => /\ Apart
                    /\ SeenIsRow' /\ OneWriter'
                    /\ \A j \in Handlers : j # i => Knows(j)'
                    /\ h[i].at \in Committed =>
                         \A j \in Handlers : j # i => h[j].at \notin Committed
  BY <1>1, <1>4, <1>5, <1>6, <1>7, HandlerStep DEF TypeOK
<1>9. ASSUME ~raced' PROVE Apart'
  <2>1. /\ told = {} /\ posts = {} /\ ~row.postSent /\ h[i].verdict = row.status
        /\ row.status \in Verdicts /\ ranges = row.needed /\ h[i].list = ranges
    BY <1>1, <1>8, <1>9 DEF Apart, Knows, Tail
  <2>2. Knows(i)' /\ Verdict' /\ ranges' = row'.needed
    BY <1>4, <1>5, <1>8, <2>1 DEF Knows, Verdict, Tail, Verdicts, Editing
  <2>3. ASSUME ~missed' PROVE Shown'
    <3>1. Anyone(Unshown)' /\ Anyone({"dm", "dmrecord"})' /\ Anyone(Tail)'
      BY <1>4, <1>8 DEF Anyone, Unshown, Tail
    <3>2. \A j \in Handlers : h'[j].at \in {"dmrecord", "postrecord"} => h'[j].sent
      BY <1>1, <1>4, <1>6, <1>8, <1>9, <2>3 DEF Committed, Unshown, Tail
    <3> QED BY <3>1, <3>2 DEF Shown
  <2> QED BY <1>8, <1>9, <2>2, <2>3 DEF Apart
<1> QED BY <1>8, <1>9 DEF IInv

\* SendPost and PostFails: there was no post.
LEMMA PostKeeps ==
  ASSUME IInv, NEW i \in Handlers, SendPost(i) \/ PostFails(i)
  PROVE  IInv'
<1>1. /\ h[i].at = "post" /\ Busy(i) /\ h[i] \in Handler /\ h[i].req \in Row /\ TypeOK
      /\ h[i].verdict \in Verdicts /\ "post" \in Committed /\ "postrecord" \in Tail
      /\ h[i].at \in Reading \ Editing /\ h[i].list \in SUBSET Ranges
  BY DEF Reading, Editing, Stages, SendPost, PostFails, IInv, TypeOK, Handler, Busy, Deciding, Committed, Unshown, Tail
<1>2. PICK b \in BOOLEAN : IF b THEN SendPost(i) ELSE PostFails(i)
  <2>1. CASE SendPost(i)
    <3> WITNESS TRUE \in BOOLEAN
    <3> QED BY <2>1
  <2>2. CASE PostFails(i)
    <3> WITNESS FALSE \in BOOLEAN
    <3> QED BY <2>2
  <2> QED BY <2>1, <2>2
<1>3. PICK id : id = Cardinality(posts) + 1
  OBVIOUS
<1>4. id \in Nat \ {0}
  <2>1. Cardinality(posts) \in Nat
    BY FS_CardinalityType DEF IInv
  <2> QED BY <1>3, <2>1
<1>5. PICK p : p = [id |-> id, text |-> h[i].req.text, ranges |-> h[i].list]
  OBVIOUS
<1>6. p \in Post
  BY <1>1, <1>4, <1>5, RowColumns DEF Post
<1>7. PICK r : r = IF b THEN [h[i] EXCEPT !.at = "postrecord", !.sent = TRUE, !.post = id]
                   ELSE [h[i] EXCEPT !.at = "postrecord", !.sent = FALSE]
  OBVIOUS
<1>8. /\ r \in Handler /\ r.at = "postrecord" /\ r.sent = b /\ r.req = h[i].req
      /\ r.verdict = h[i].verdict /\ r.list = h[i].list /\ (b => r.post = id)
  <2>1. CASE b
    BY <1>1, <1>4, <1>7, <2>1 DEF Handler, Stages
  <2>2. CASE ~b
    BY <1>1, <1>7, <2>2 DEF Handler, Stages
  <2> QED BY <2>1, <2>2
<1>9. /\ h' = [h EXCEPT ![i] = r]
      /\ UNCHANGED <<row, ranges, before, submit, dialog, review, told, edits, raced>>
      /\ posts' \in {posts, posts \cup {p}}
      /\ b => posts' = posts \cup {p}
  <2>1. CASE b
    BY <1>1, <1>2, <1>3, <1>5, <1>7, <2>1 DEF SendPost, TypeOK
  <2>2. CASE ~b
    BY <1>1, <1>2, <1>3, <1>5, <1>7, <2>2 DEF PostFails, TypeOK
  <2> QED BY <2>1, <2>2
<1>10. /\ faults' \in 0..MaxFaults /\ missed' \in BOOLEAN
       /\ ~missed' => b /\ ~missed
  <2>1. CASE b
    BY <1>1, <1>2, <2>1 DEF SendPost, TypeOK
  <2>2. CASE ~b
    BY <1>1, <1>2, <2>2, FaultCounted DEF PostFails
  <2> QED BY <2>1, <2>2
<1>11. IsFiniteSet(posts)' /\ posts' \subseteq Post
  <2>1. IsFiniteSet(posts \cup {p})
    BY FS_AddElement DEF IInv
  <2> QED BY <1>1, <1>6, <1>9, <2>1 DEF IInv, TypeOK
<1>12. /\ TypeOK' /\ IsFiniteSet(posts)' /\ Deciding'
       /\ h'[i] = r /\ \A j \in Handlers : j # i => h'[j] = h[j]
       /\ ~raced' => /\ Apart
                     /\ SeenIsRow' /\ OneWriter'
                     /\ \A j \in Handlers : j # i => Knows(j)'
                     /\ h[i].at \in Committed =>
                          \A j \in Handlers : j # i => h[j].at \notin Committed
  BY <1>1, <1>8, <1>9, <1>10, <1>11, HandlerStep DEF TypeOK
<1>13. ASSUME ~raced' PROVE Apart'
  <2>1. /\ posts = {} /\ ~row.postSent /\ h[i].verdict = row.status /\ Verdict
        /\ row.status = "approved" /\ ranges = row.needed /\ h[i].req.text = row.text
        /\ h[i].list = ranges
    <3>1. "text" \in Columns
      BY <1>1, RowColumns DEF Columns, TypeOK
    <3> QED BY <1>1, <1>12, <1>13, <3>1 DEF Apart, Knows, Tail, SeenIsRow
  <2>2. /\ posts' \in {{}, {[id |-> id, text |-> row.text, ranges |-> ranges]}}
        /\ b => posts' = {[id |-> id, text |-> row.text, ranges |-> ranges]}
    BY <1>5, <1>9, <2>1
  <2>3. Verdict' /\ ranges' = row'.needed
    BY <1>9, <2>1, <2>2 DEF Verdict
  <2>4. Knows(i)'
    BY <1>8, <1>9, <1>12, <2>1, <2>2 DEF Knows, Tail, Editing
  <2>5. ASSUME ~missed' PROVE Shown'
    <3>1. Anyone(Unshown)' /\ Anyone(Tail)'
      BY <1>8, <1>12 DEF Anyone, Unshown, Tail
    <3>2. \A j \in Handlers : h'[j].at \in {"dmrecord", "postrecord"} => h'[j].sent
      BY <1>1, <1>8, <1>10, <1>12, <1>13, <2>5 DEF Committed, Unshown, Tail
    <3>3. row.dmSent = (told # {})
      <4>1. ~Anyone({"dm", "dmrecord"})
        BY <1>1, <1>12, <1>13 DEF Anyone, Committed, Unshown, Tail
      <4> QED BY <1>10, <1>12, <1>13, <2>5, <4>1 DEF Apart, Shown
    <3> QED BY <1>9, <3>1, <3>2, <3>3 DEF Shown
  <2> QED BY <1>12, <1>13, <2>3, <2>4, <2>5 DEF Apart
<1> QED BY <1>12, <1>13 DEF IInv

\* A handler outside every stage at which something is still to be done, or
\* sent, leaves what is known of messages and records to the others.
LEMMA QuietStep ==
  ASSUME IInv, NEW i \in Handlers, NEW r \in Handler, h' = [h EXCEPT ![i] = r],
         UNCHANGED <<row, ranges, before, submit, review, posts, told, raced>>,
         dialog' \subseteq Admins,
         edits' \in Versions, faults' \in 0..MaxFaults, missed' \in BOOLEAN,
         r.at \in {"decide"} => r.verdict \in Verdicts,
         r.at \in Reading =>
           \/ r.req = row /\ r.list = ranges
           \/ h[i].at \in Reading \ Committed /\ r.req = h[i].req /\ r.list = h[i].list,
         r.at \notin Committed,
         r.at = "replace" => r.doomed = ranges,
         missed' \/ (h[i].at \notin Committed /\ missed' = missed)
  PROVE  IInv'
<1>1. posts' = posts /\ told' = told /\ r.at \notin Tail /\ IsFiniteSet(posts)'
  BY DEF IInv, Committed, Unshown
<1>2. /\ TypeOK' /\ IsFiniteSet(posts)' /\ Deciding'
      /\ h'[i] = r /\ \A j \in Handlers : j # i => h'[j] = h[j]
      /\ ~raced' => /\ Apart
                    /\ SeenIsRow' /\ OneWriter'
                    /\ \A j \in Handlers : j # i => Knows(j)'
  <2>1. TypeOK
    BY DEF IInv
  <2> QED BY <1>1, <2>1, HandlerStep DEF TypeOK
<1>3. ASSUME ~raced' PROVE Apart'
  <2>1. Knows(i)' /\ Verdict' /\ ranges' = row'.needed
    BY <1>1, <1>2, <1>3 DEF Apart, Knows, Verdict, Committed, Unshown, Tail, Editing
  <2>2. ASSUME ~missed' PROVE Shown'
    <3>1. \A S \in SUBSET Committed : Anyone(S)' <=> Anyone(S)
      BY <1>2, <2>2 DEF Anyone
    <3>2. /\ Anyone(Unshown)' <=> Anyone(Unshown)
          /\ Anyone(Tail)' <=> Anyone(Tail)
          /\ Anyone({"dm", "dmrecord"})' <=> Anyone({"dm", "dmrecord"})
          /\ Anyone(Editing)' <=> Anyone(Editing)
      BY <3>1 DEF Committed, Unshown, Tail, Editing
    <3>3. \A j \in Handlers : h'[j].at \in {"dmrecord", "postrecord"} => h'[j] = h[j]
      BY <1>2 DEF Committed, Unshown, Tail
    <3>4. Shown
      BY <1>2, <1>3, <2>2 DEF Apart
    <3> QED BY <3>2, <3>3, <3>4 DEF Shown, Mirrored, Posted
  <2> QED BY <1>2, <1>3, <2>1, <2>2 DEF Apart
<1> QED BY <1>2, <1>3 DEF IInv

\* A tap on Accept or Decline.
LEMMA LoadKeeps ==
  ASSUME IInv, NEW i \in Handlers, NEW a \in Admins, Accept(i, a) \/ Decline(i, a)
  PROVE  IInv'
<1>1. PICK v \in Verdicts : Load(i, a, v)
  BY DEF Accept, Decline, Verdicts
<1>2. PICK r : r = [Loaded(i, "decide", a) EXCEPT !.verdict = v]
  OBVIOUS
<1>3. h[i] \in Handler /\ row \in Row /\ ranges \in SUBSET Ranges /\ TypeOK
  BY DEF IInv, TypeOK
<1>4. r \in Handler /\ r.at = "decide" /\ r.verdict = v /\ r.req = row /\ r.list = ranges
  BY <1>2, <1>3 DEF Loaded, Handler, Stages, Statuses
<1>5. /\ h' = [h EXCEPT ![i] = r] /\ h[i].at \notin Committed
      /\ UNCHANGED <<row, ranges, before, submit, dialog, review, posts, told, edits, faults, raced, missed>>
  BY <1>1, <1>2 DEF Load, Busy, Committed, Unshown, Tail
<1>6. "decide" \notin Committed
  BY DEF Committed, Unshown, Tail
<1> QED BY <1>3, <1>4, <1>5, <1>6, QuietStep DEF TypeOK

\* An admin's value arrives.
LEMMA LoadEditKeeps ==
  ASSUME IInv, NEW i \in Handlers, NEW a \in Admins, LoadEdit(i, a)
  PROVE  IInv'
<1>1. h[i] \in Handler /\ row \in Row /\ ranges \in SUBSET Ranges /\ TypeOK
  BY DEF IInv, TypeOK
<1>2. /\ h[i].at \notin Committed
      /\ UNCHANGED <<row, ranges, before, submit, dialog, review, posts, told, faults, raced, missed>>
  BY DEF LoadEdit, Busy, Committed, Unshown, Tail
<1>3. edits' \in Versions
  <2>1. edits < MaxEdits /\ edits' = edits + 1
    BY DEF LoadEdit
  <2> QED BY <1>1, <2>1, ReviewAssumption DEF TypeOK, Versions
<1>4. \E r \in Handler : /\ h' = [h EXCEPT ![i] = r]
                         /\ r.at \in {"field", "delete"} /\ r.req = row /\ r.list = ranges
  <2>1. CASE h' = [h EXCEPT ![i] = Loaded(i, "field", a)]
    <3>1. PICK r : r = Loaded(i, "field", a)
      OBVIOUS
    <3>2. r \in Handler /\ r.at = "field" /\ r.req = row /\ r.list = ranges
      BY <1>1, <3>1 DEF Loaded, Handler, Stages
    <3> QED BY <2>1, <3>1, <3>2
  <2>2. ASSUME NEW rs \in RangeSets, h' = [h EXCEPT ![i] = [Loaded(i, "delete", a) EXCEPT !.new = rs]]
        PROVE  \E r \in Handler : /\ h' = [h EXCEPT ![i] = r]
                                  /\ r.at \in {"field", "delete"} /\ r.req = row /\ r.list = ranges
    <3>1. PICK r : r = [Loaded(i, "delete", a) EXCEPT !.new = rs]
      OBVIOUS
    <3>2. r \in Handler /\ r.at = "delete" /\ r.req = row /\ r.list = ranges
      BY <1>1, <3>1 DEF Loaded, Handler, Stages
    <3> QED BY <2>2, <3>1, <3>2
  <2> QED BY <2>1, <2>2 DEF LoadEdit
<1>5. PICK r \in Handler : /\ h' = [h EXCEPT ![i] = r]
                           /\ r.at \in {"field", "delete"} /\ r.req = row /\ r.list = ranges
  BY <1>4
<1>6. r.at \notin Committed /\ r.at # "replace" /\ r.at # "decide"
  BY <1>5 DEF Committed, Unshown, Tail
<1> QED BY <1>1, <1>2, <1>3, <1>5, <1>6, QuietStep DEF TypeOK

\* DeleteRanges: what the DELETE has found are the ranges there are.
LEMMA DeleteKeeps ==
  ASSUME IInv, NEW i \in Handlers, DeleteRanges(i)
  PROVE  IInv'
<1>1. /\ h[i] \in Handler /\ h[i].at = "delete" /\ Busy(i) /\ TypeOK
      /\ "delete" \notin Committed /\ "replace" \notin Committed
      /\ h[i].at \in Reading
  BY DEF Reading, Stages, DeleteRanges, IInv, TypeOK, Busy, Committed, Unshown, Tail
<1>2. PICK r : r = [h[i] EXCEPT !.at = "replace", !.doomed = ranges]
  OBVIOUS
<1>3. r \in Handler /\ r.at = "replace" /\ r.doomed = ranges /\ r.req = h[i].req
      /\ r.list = h[i].list
  BY <1>1, <1>2 DEF Handler, Stages, TypeOK
<1>4. /\ h' = [h EXCEPT ![i] = r]
      /\ UNCHANGED <<row, ranges, before, submit, dialog, review, posts, told, edits, faults, raced, missed>>
  BY <1>1, <1>2 DEF DeleteRanges, TypeOK
<1> QED BY <1>1, <1>3, <1>4, QuietStep DEF TypeOK

\* A handler that fails has missed something.
LEMMA HandlerFailsKeeps ==
  ASSUME IInv, NEW i \in Handlers, HandlerFails(i) \/ EditRefused(i)
  PROVE  IInv'
<1>1. /\ TypeOK /\ missed' = TRUE
      /\ UNCHANGED <<row, ranges, before, submit, dialog, review, posts, told, edits, raced>>
      /\ h' = [h EXCEPT ![i] = Idle]
  BY DEF IInv, HandlerFails, EditRefused
<1>2. PICK r : r = Idle
  OBVIOUS
<1>3. r \in Handler /\ r.at = "idle"
  BY <1>1, <1>2, IdleHandler
<1>4. faults' \in 0..MaxFaults
  BY <1>1, FaultCounted DEF HandlerFails, EditRefused, TypeOK
<1>5. "idle" \notin Committed \cup Reading
  BY DEF Committed, Unshown, Tail, Reading, Stages
<1> QED BY <1>1, <1>2, <1>3, <1>4, <1>5, QuietStep DEF TypeOK

\* A tap that looks at the request, or no further than at its status.
LEMMA TapKeeps ==
  ASSUME IInv, NEW i \in Handlers,
         OpenMenu(i) \/ \E a \in Admins : Refresh(i, a) \/ PickField(i, a)
  PROVE  IInv'
<1>1. /\ h[i] \in Handler /\ row \in Row /\ ranges \in SUBSET Ranges /\ TypeOK
      /\ {"show", "menu", "ask"} \cap (Committed \cup {"decide", "replace"}) = {}
      /\ {"menu", "ask"} \cap Reading = {}
  BY DEF IInv, TypeOK, Committed, Unshown, Tail, Reading
<1>2. PICK r : /\ Tap(i, r)
               /\ \/ \E a \in Admins : r = Loaded(i, "show", a)
                  \/ r = [Idle EXCEPT !.at = "menu"]
                  \/ r = [Idle EXCEPT !.at = "ask"]
  BY DEF Refresh, OpenMenu, PickField
<1>3. dialog' \subseteq Admins
  BY <1>1 DEF Refresh, OpenMenu, PickField, TypeOK
<1>4. /\ r \in Handler /\ r.at \in {"show", "menu", "ask"}
      /\ r.at \in Reading => r.req = row /\ r.list = ranges
  <2>1. ASSUME NEW a \in Admins, r = Loaded(i, "show", a)
        PROVE  r \in Handler /\ r.at = "show" /\ r.req = row /\ r.list = ranges
    BY <1>1, <2>1 DEF Loaded, Handler, Stages
  <2>2. CASE r = [Idle EXCEPT !.at = "menu"]
    BY <1>1, <2>2, IdleHandler DEF Handler, Stages
  <2>3. CASE r = [Idle EXCEPT !.at = "ask"]
    BY <1>1, <2>3, IdleHandler DEF Handler, Stages
  <2> QED BY <1>2, <2>1, <2>2, <2>3
<1>5. /\ h' = [h EXCEPT ![i] = r] /\ h[i].at \notin Committed
      /\ UNCHANGED <<row, ranges, before, submit, review, posts, told, edits, faults, raced, missed>>
  BY <1>2 DEF Tap, Busy, Committed, Unshown, Tail
<1> QED BY <1>1, <1>3, <1>4, <1>5, QuietStep DEF TypeOK

\* Show: the message shows the row as it still is, or the menu or the question.
LEMMA ShowKeeps ==
  ASSUME IInv, NEW i \in Handlers, Show(i)
  PROVE  IInv'
<1>1. /\ h[i].at \in {"show", "menu", "ask"} /\ h[i] \in Handler /\ h[i].req \in Row /\ TypeOK
      /\ h[i].list \in SUBSET Ranges
      /\ h[i].at \notin Committed /\ h[i].at \notin Editing
      /\ h[i].at = "show" => h[i].at \in Reading
  BY DEF Show, IInv, TypeOK, Handler, Committed, Unshown, Tail, Editing, Reading, Stages
<1>2. PICK r : r = Idle
  OBVIOUS
<1>3. r \in Handler /\ r.at = "idle" /\ r.at \notin Reading \cup Committed
  BY <1>2, IdleHandler DEF Reading, Stages, Committed, Unshown, Tail
<1>4. PICK m : m = [status |-> h[i].req.status, text |-> h[i].req.text, ranges |-> h[i].list]
  OBVIOUS
<1>5. /\ h' = [h EXCEPT ![i] = r]
      /\ review' \in {Menu, Question} \/ (h[i].at = "show" /\ review' = m)
      /\ UNCHANGED <<row, ranges, before, submit, dialog, posts, told, edits, faults, raced, missed>>
  BY <1>2, <1>4 DEF Show, Rendered
<1>6. m \in Message
  BY <1>1, <1>4, RowColumns DEF Message
<1>7. review' \in Message \cup {NoMessage, Menu, Question} /\ IsFiniteSet(posts)'
  BY <1>5, <1>6 DEF IInv
<1>8. /\ TypeOK' /\ IsFiniteSet(posts)' /\ Deciding'
      /\ h'[i] = r /\ \A j \in Handlers : j # i => h'[j] = h[j]
      /\ ~raced' => /\ Apart
                    /\ SeenIsRow' /\ OneWriter'
                    /\ \A j \in Handlers : j # i => Knows(j)'
  BY <1>1, <1>3, <1>5, <1>7, HandlerStep DEF TypeOK, Tail
<1>9. ASSUME ~raced' PROVE Apart'
  <2>1. Mirrored'
    <3>1. CASE review' \in {Menu, Question}
      BY <3>1 DEF Mirrored, Menu, Question, NoMessage
    <3>2. CASE h[i].at = "show" /\ review' = m
      <4>1. "text" \in Columns /\ "status" \in Columns
        BY RowColumns DEF Columns, IInv, TypeOK
      <4>2. h[i].req.text = row.text /\ h[i].req.status = row.status /\ h[i].list = ranges
        BY <1>1, <1>8, <1>9, <3>2, <4>1 DEF Apart, SeenIsRow, Knows
      <4> QED BY <1>4, <1>5, <3>2, <4>2 DEF Mirrored
    <3> QED BY <1>5, <3>1, <3>2
  <2>2. Knows(i)' /\ Verdict' /\ ranges' = row'.needed
    BY <1>3, <1>5, <1>8, <1>9 DEF Apart, Knows, Verdict, Tail, Editing
  <2>3. ASSUME ~missed' PROVE Shown'
    <3>1. \A S \in SUBSET Committed : Anyone(S)' <=> Anyone(S)
      BY <1>1, <1>3, <1>8 DEF Anyone
    <3>2. /\ Anyone(Tail)' <=> Anyone(Tail)
          /\ Anyone({"dm", "dmrecord"})' <=> Anyone({"dm", "dmrecord"})
          /\ Anyone(Editing)' <=> Anyone(Editing)
      BY <3>1 DEF Committed, Unshown, Tail, Editing
    <3>3. \A j \in Handlers : h'[j].at \in {"dmrecord", "postrecord"} => h'[j] = h[j]
      BY <1>3, <1>8
    <3>4. Shown
      BY <1>5, <1>8, <1>9, <2>3 DEF Apart
    <3> QED BY <1>5, <2>1, <3>2, <3>3, <3>4 DEF Shown, Posted
  <2> QED BY <1>8, <1>9, <2>1, <2>2, <2>3 DEF Apart
<1> QED BY <1>8, <1>9 DEF IInv

\* RefreshReview: the message shows the row again.
LEMMA RefreshKeeps ==
  ASSUME IInv, NEW i \in Handlers, RefreshReview(i)
  PROVE  IInv'
<1>1. /\ h[i].at = "refresh" /\ Busy(i) /\ h[i] \in Handler /\ h[i].req \in Row /\ TypeOK
      /\ "refresh" \in Committed /\ "refresh" \notin Tail
      /\ h[i].at \in Reading \ Editing /\ h[i].list \in SUBSET Ranges
  BY DEF Reading, Editing, Stages, RefreshReview, IInv, TypeOK, Handler, Busy, Committed, Unshown, Tail
<1>2. PICK r : r = Idle
  OBVIOUS
<1>3. r \in Handler /\ r.at = "idle" /\ r.at \notin Reading
  BY <1>2, IdleHandler DEF Reading, Stages
<1>4. /\ h' = [h EXCEPT ![i] = r]
      /\ review' = [status |-> h[i].req.status, text |-> h[i].req.text, ranges |-> h[i].list]
      /\ UNCHANGED <<row, ranges, before, submit, dialog, posts, told, edits, faults, raced, missed>>
  BY <1>2 DEF RefreshReview, Rendered
<1>5. review' \in Message \cup {NoMessage, Menu, Question} /\ IsFiniteSet(posts)'
  BY <1>1, <1>4, RowColumns DEF Message, IInv
<1>6. /\ TypeOK' /\ IsFiniteSet(posts)' /\ Deciding'
      /\ h'[i] = r /\ \A j \in Handlers : j # i => h'[j] = h[j]
      /\ ~raced' => /\ Apart
                    /\ SeenIsRow' /\ OneWriter'
                    /\ \A j \in Handlers : j # i => Knows(j)'
                    /\ h[i].at \in Committed =>
                         \A j \in Handlers : j # i => h[j].at \notin Committed
  BY <1>1, <1>3, <1>4, <1>5, HandlerStep DEF TypeOK, Tail
<1>7. ASSUME ~raced' PROVE Apart'
  <2>1. /\ h[i].req.text = row.text /\ h[i].req.status = row.status /\ h[i].list = ranges
    <3>1. "text" \in Columns /\ "status" \in Columns
      BY <1>1, RowColumns DEF Columns, TypeOK
    <3> QED BY <1>1, <1>6, <1>7, <3>1 DEF Apart, SeenIsRow, Knows
  <2>2. Knows(i)' /\ Verdict' /\ ranges' = row'.needed
    BY <1>3, <1>4, <1>6, <1>7 DEF Apart, Knows, Verdict, Tail, Reading, Editing
  <2>3. ASSUME ~missed' PROVE Shown'
    <3>1. /\ ~Anyone(Tail) /\ ~Anyone({"dm", "dmrecord"}) /\ ~Anyone(Editing)
      BY <1>1, <1>6, <1>7 DEF Anyone, Committed, Unshown, Tail, Editing
    <3>2. ~Anyone(Tail)' /\ ~Anyone({"dm", "dmrecord"})' /\ ~Anyone(Editing)'
      BY <1>3, <1>6, <3>1 DEF Anyone, Tail, Editing
    <3>3. \A j \in Handlers : h'[j].at \notin {"dmrecord", "postrecord"}
      BY <3>2 DEF Anyone, Tail
    <3>4. Shown
      BY <1>4, <1>6, <1>7, <2>3 DEF Apart
    <3>5. Mirrored'
      BY <1>4, <2>1 DEF Mirrored
    <3> QED BY <1>4, <3>1, <3>2, <3>3, <3>4, <3>5 DEF Shown, Posted
  <2> QED BY <1>6, <1>7, <2>2, <2>3 DEF Apart
<1> QED BY <1>6, <1>7 DEF IInv

\* EditReview: the message shows the row, if its id is known.
LEMMA EditReviewKeeps ==
  ASSUME IInv, NEW i \in Handlers, EditReview(i)
  PROVE  IInv'
<1>1. /\ h[i].at = "editreview" /\ Busy(i) /\ h[i] \in Handler /\ h[i].req \in Row /\ TypeOK
      /\ "editreview" \in Committed /\ "editpost" \in Committed
      /\ "editreview" \notin Tail /\ "editpost" \notin Unshown
      /\ h[i].at \in Reading \cap Editing /\ "editpost" \in Editing /\ h[i].list \in SUBSET Ranges
  BY DEF Reading, Editing, Stages, EditReview, IInv, TypeOK, Handler, Busy, Committed, Unshown, Tail
<1>2. PICK r : r = [h[i] EXCEPT !.at = "editpost"]
  OBVIOUS
<1>3. r \in Handler /\ r.at = "editpost" /\ r.req = h[i].req /\ r.list = h[i].list
  BY <1>1, <1>2 DEF Handler, Stages
<1>4. /\ h' = [h EXCEPT ![i] = r]
      /\ UNCHANGED <<row, ranges, before, submit, dialog, posts, told, edits, faults, raced>>
      /\ missed' = (missed \/ ~h[i].req.reviewed)
      /\ review' = IF h[i].req.reviewed
                   THEN [status |-> h[i].req.status, text |-> h[i].req.text,
                         ranges |-> h[i].list]
                   ELSE review
  BY <1>1, <1>2 DEF EditReview, TypeOK, Rendered
<1>5. review' \in Message \cup {NoMessage, Menu, Question} /\ IsFiniteSet(posts)' /\ missed' \in BOOLEAN
  BY <1>1, <1>4, RowColumns DEF Message, IInv, TypeOK
<1>6. /\ TypeOK' /\ IsFiniteSet(posts)' /\ Deciding'
      /\ h'[i] = r /\ \A j \in Handlers : j # i => h'[j] = h[j]
      /\ ~raced' => /\ Apart
                    /\ SeenIsRow' /\ OneWriter'
                    /\ \A j \in Handlers : j # i => Knows(j)'
                    /\ h[i].at \in Committed =>
                         \A j \in Handlers : j # i => h[j].at \notin Committed
  BY <1>1, <1>3, <1>4, <1>5, HandlerStep DEF TypeOK, Tail
<1>7. ASSUME ~raced' PROVE Apart'
  <2>1. /\ h[i].req.text = row.text /\ h[i].req.status = row.status
        /\ h[i].list \in {ranges, before}
    <3>1. "text" \in Columns /\ "status" \in Columns
      BY <1>1, RowColumns DEF Columns, TypeOK
    <3> QED BY <1>1, <1>6, <1>7, <3>1 DEF Apart, SeenIsRow, Knows
  <2>2. Knows(i)' /\ Verdict' /\ ranges' = row'.needed
    <3>1. h'[i].at = "editpost" /\ h'[i].list = h[i].list
      BY <1>3, <1>6
    <3>2. Knows(i)'
      BY <1>4, <2>1, <3>1 DEF Knows, Tail, Editing
    <3> QED BY <1>4, <1>6, <1>7, <3>2 DEF Apart, Verdict
  <2>3. ASSUME ~missed' PROVE Shown'
    <3>1. h[i].req.reviewed /\ ~missed
      BY <1>4, <2>3
    <3>2. /\ ~Anyone(Tail) /\ ~Anyone({"dm", "dmrecord"})
          /\ ~Anyone(Tail)' /\ ~Anyone({"dm", "dmrecord"})' /\ Anyone(Editing)'
      BY <1>1, <1>3, <1>6, <1>7 DEF Anyone, Committed, Unshown, Tail, Editing
    <3>3. \A j \in Handlers : h'[j].at \notin {"dmrecord", "postrecord"}
      BY <3>2 DEF Anyone, Tail
    <3>4. Shown
      BY <1>6, <1>7, <3>1 DEF Apart
    <3>5. Mirrored'
      BY <1>4, <2>1, <3>1 DEF Mirrored
    <3> QED BY <1>4, <3>1, <3>2, <3>3, <3>4, <3>5 DEF Shown, Posted
  <2> QED BY <1>6, <1>7, <2>2, <2>3 DEF Apart
<1> QED BY <1>6, <1>7 DEF IInv

\* The post that an edit has gone over.
Edited(req, list, p) ==
  IF p.id = req.post THEN [p EXCEPT !.text = req.text, !.ranges = list] ELSE p

\* Posts keep their type when one of them is edited, and they are no more.
LEMMA PostsEdited ==
  ASSUME NEW req \in Row, NEW list \in SUBSET Ranges, NEW S, S \subseteq Post, IsFiniteSet(S)
  PROVE  LET T == {Edited(req, list, p) : p \in S}
         IN  IsFiniteSet(T) /\ T \subseteq Post
<1> DEFINE T == {Edited(req, list, p) : p \in S}
           f == [p \in S |-> Edited(req, list, p)]
<1>1. \A p \in S : Edited(req, list, p) \in Post
  BY RowColumns DEF Edited, Post
<1>2. f \in Surjection(S, T)
  BY DEF Surjection
<1>3. IsFiniteSet(T)
  BY <1>2, FS_Surjection
<1> QED BY <1>1, <1>3

\* EditPost: the post of an approved request shows its text again.
LEMMA EditPostKeeps ==
  ASSUME IInv, NEW i \in Handlers, EditPost(i)
  PROVE  IInv'
<1>1. /\ h[i].at = "editpost" /\ Busy(i) /\ h[i] \in Handler /\ h[i].req \in Row /\ TypeOK
      /\ "editpost" \in Committed \ Unshown /\ "editpost" \notin Tail
      /\ h[i].at \in Reading \cap Editing /\ h[i].list \in SUBSET Ranges
      /\ IsFiniteSet(posts) /\ posts \subseteq Post
  BY DEF EditPost, IInv, TypeOK, Handler, Busy, Committed, Unshown, Tail, Reading, Editing,
     Stages
<1>2. PICK r : r = Idle
  OBVIOUS
<1>3. r \in Handler /\ r.at = "idle" /\ r.at \notin Reading
  BY <1>2, IdleHandler DEF Reading, Stages
<1>4. PICK req \in Row, list \in SUBSET Ranges : req = h[i].req /\ list = h[i].list
  BY <1>1
<1>5. /\ h' = [h EXCEPT ![i] = r]
      /\ dialog' = dialog \ {h[i].admin}
      /\ UNCHANGED <<row, ranges, before, submit, review, told, edits, faults, raced, missed>>
      /\ posts' = IF req.status = "approved" THEN {Edited(req, list, p) : p \in posts} ELSE posts
  BY <1>2, <1>4 DEF EditPost, Edited
<1>6. IsFiniteSet(posts)' /\ posts' \subseteq Post
  BY <1>1, <1>5, PostsEdited
<1>7. /\ TypeOK' /\ IsFiniteSet(posts)' /\ Deciding'
      /\ h'[i] = r /\ \A j \in Handlers : j # i => h'[j] = h[j]
      /\ ~raced' => /\ Apart
                    /\ SeenIsRow' /\ OneWriter'
                    /\ \A j \in Handlers : j # i => Knows(j)'
                    /\ h[i].at \in Committed =>
                         \A j \in Handlers : j # i => h[j].at \notin Committed
  BY <1>1, <1>3, <1>5, <1>6, HandlerStep DEF TypeOK, Tail
<1>8. ASSUME ~raced' PROVE Apart'
  <2>1. req.text = row.text /\ req.status = row.status /\ req.post = row.post
        /\ list \in {ranges, before}
    <3>1. "text" \in Columns /\ "status" \in Columns /\ "post" \in Columns
      BY <1>1, RowColumns DEF Columns, TypeOK
    <3> QED BY <1>1, <1>4, <1>7, <1>8, <3>1 DEF Apart, SeenIsRow, Knows
  <2>2. Verdict'
    <3>1. Verdict
      BY <1>7, <1>8 DEF Apart
    <3>2. CASE posts = {}
      BY <1>5, <3>1, <3>2 DEF Verdict
    <3>3. CASE posts # {}
      <4>1. PICK p : posts = {p} /\ row.status = "approved"
        BY <3>1, <3>3 DEF Verdict
      <4>2. posts' = {Edited(req, list, p)}
        BY <1>5, <2>1, <4>1
      <4> QED BY <1>5, <3>1, <4>1, <4>2 DEF Verdict
    <3> QED BY <3>2, <3>3
  <2>3. Knows(i)' /\ ranges' = row'.needed
    BY <1>3, <1>5, <1>7, <1>8 DEF Apart, Knows, Tail, Reading, Editing
  <2>4. ASSUME ~missed' PROVE Shown'
    <3>1. /\ ~Anyone(Unshown) /\ ~Anyone(Tail) /\ ~Anyone({"dm", "dmrecord"})
          /\ ~Anyone(Unshown)' /\ ~Anyone(Tail)' /\ ~Anyone({"dm", "dmrecord"})'
          /\ ~Anyone(Editing)'
      BY <1>1, <1>3, <1>7, <1>8 DEF Anyone, Committed, Unshown, Tail, Editing
    <3>2. \A j \in Handlers : h'[j].at \notin {"dmrecord", "postrecord"}
      BY <3>1 DEF Anyone, Tail
    <3>3. Shown
      BY <1>5, <1>7, <1>8, <2>4 DEF Apart
    <3>4. row.status # "approved" => posts' = posts
      BY <1>5, <2>1
    <3>5. row.status = "approved" => Posted(row.text, list)'
      <4> SUFFICES ASSUME row.status = "approved"
                   PROVE  posts' = {[id |-> row.post, text |-> row.text, ranges |-> list]}
        BY <1>5 DEF Posted
      <4>1. PICK x \in Versions, rs \in SUBSET Ranges :
              posts = {[id |-> row.post, text |-> x, ranges |-> rs]}
        BY <3>1, <3>3 DEF Shown, Posted
      <4>2. Edited(req, list, [id |-> row.post, text |-> x, ranges |-> rs])
              = [id |-> row.post, text |-> row.text, ranges |-> list]
        BY <2>1 DEF Edited
      <4> QED BY <1>5, <2>1, <4>1, <4>2
    <3>6. (told' # {}) = (told # {}) /\ row.text \in Versions
      BY <1>1, <1>5, RowColumns DEF TypeOK
    <3>7. row.postSent = (row.status = "approved") /\ row.dmSent = (told # {})
      BY <3>1, <3>3 DEF Shown
    <3>8. submit # "announce" => Mirrored
      BY <3>1, <3>3 DEF Shown
    <3>9. Mirrored' <=> Mirrored
      BY <1>5 DEF Mirrored
    <3> QED BY <1>5, <2>1, <3>1, <3>2, <3>5, <3>6, <3>7, <3>8, <3>9 DEF Shown
  <2> QED BY <1>7, <1>8, <2>2, <2>3, <2>4 DEF Apart
<1> QED BY <1>7, <1>8 DEF IInv

-----------------------------------------------------------------------------
(* The submission, the dialogs, and the end of the process *)

\* The submission touches the review message and the record of its id.
LEMMA SubmitKeeps ==
  ASSUME IInv, Submit
  PROVE  IInv'
<1>1. row \in Row /\ TypeOK
  BY DEF IInv, TypeOK
<1>2. CASE Announce
  <2>1. /\ review' = [status |-> row.status, text |-> row.text, ranges |-> ranges]
        /\ submit' = "record"
        /\ UNCHANGED <<row, ranges, before, h, dialog, posts, told, edits, faults, raced, missed>>
    BY <1>2 DEF Announce
  <2>2. review' \in Message
    BY <1>1, <2>1, RowColumns DEF Message, IInv, TypeOK
  <2>3. TypeOK' /\ IsFiniteSet(posts)' /\ Deciding'
    BY <2>1, <2>2 DEF IInv, TypeOK, Deciding
  <2>4. Apart => Apart'
    BY <2>1 DEF Apart, SeenIsRow, Columns, Busy, OneWriter, Knows, Verdict, Shown, Anyone, Mirrored,
       Posted
  <2> QED BY <2>1, <2>3, <2>4 DEF IInv
<1>3. CASE AnnounceFails
  <2>1. /\ submit' = "done" /\ missed' = TRUE
        /\ UNCHANGED <<row, ranges, before, h, dialog, posts, told, edits, raced>>
        /\ \/ review' = review
           \/ review' = [status |-> row.status, text |-> row.text, ranges |-> ranges]
    BY <1>3 DEF AnnounceFails
  <2>2. faults' \in 0..MaxFaults
    BY <1>1, <1>3, FaultCounted DEF AnnounceFails
  <2>3. review' \in Message \cup {NoMessage, Menu, Question}
    BY <1>1, <2>1, RowColumns DEF Message, IInv, TypeOK
  <2>4. TypeOK' /\ IsFiniteSet(posts)' /\ Deciding'
    BY <2>1, <2>2, <2>3 DEF IInv, TypeOK, Deciding
  <2>5. Apart => Apart'
    BY <2>1 DEF Apart, SeenIsRow, Columns, Busy, OneWriter, Knows, Verdict
  <2> QED BY <2>1, <2>4, <2>5 DEF IInv
<1>4. CASE RecordReview
  <2>1. /\ row' = [row EXCEPT !.reviewed = TRUE]
        /\ submit = "record" /\ submit' = "done"
        /\ UNCHANGED <<ranges, before, h, dialog, review, posts, told, edits, faults, raced, missed>>
    BY <1>4 DEF RecordReview
  <2>2. /\ row' \in Row /\ row'.reviewed /\ Columns' = Columns
        /\ \A c \in Columns : row'[c] = row[c]
    BY <1>1, <2>1 DEF Row, Columns
  <2>3. {"status", "text", "needed", "dmSent", "postSent", "post"} \subseteq Columns
    BY <1>1, RowColumns DEF Columns
  <2>4. /\ row'.status = row.status /\ row'.text = row.text /\ row'.needed = row.needed
        /\ row'.dmSent = row.dmSent /\ row'.postSent = row.postSent /\ row'.post = row.post
    BY <2>2, <2>3
  <2>5. TypeOK' /\ IsFiniteSet(posts)' /\ Deciding'
    BY <2>1, <2>2 DEF IInv, TypeOK, Deciding
  <2>6. ASSUME Apart PROVE Apart'
    <3>1. SeenIsRow' /\ OneWriter' /\ Verdict' /\ ranges' = row'.needed
      BY <2>1, <2>2, <2>4, <2>6 DEF Apart, SeenIsRow, Busy, OneWriter, Verdict
    <3>2. \A j \in Handlers : Knows(j)'
      BY <2>1, <2>4, <2>6 DEF Apart, Knows
    <3>3. ~missed' => Shown'
      <4>1. Mirrored' <=> Mirrored
        BY <2>1, <2>4 DEF Mirrored
      <4>2. \A x, rs : Posted(x, rs)' <=> Posted(x, rs)
        BY <2>1, <2>4 DEF Posted
      <4>3. \A S \in SUBSET Stages : Anyone(S)' <=> Anyone(S)
        BY <2>1 DEF Anyone
      <4> HIDE DEF Mirrored, Posted
      <4> QED BY <2>1, <2>4, <2>6, <4>1, <4>2, <4>3 DEF Apart, Shown, Unshown, Tail, Editing, Stages
    <3> QED BY <3>1, <3>2, <3>3 DEF Apart
  <2> QED BY <2>1, <2>5, <2>6 DEF IInv
<1> QED BY <1>2, <1>3, <1>4 DEF Submit

\* Dialogs say nothing of the request.
LEMMA DialogKeeps ==
  ASSUME IInv, NEW a \in Admins, PickElsewhere(a) \/ LeaveDialog(a)
  PROVE  IInv'
<1>1. /\ dialog' = dialog \cup {a} \/ dialog' = dialog \ {a}
      /\ UNCHANGED <<row, ranges, before, submit, h, review, posts, told, edits, faults, raced, missed>>
  BY DEF PickElsewhere, LeaveDialog
<1>2. TypeOK' /\ IsFiniteSet(posts)' /\ Deciding'
  BY <1>1 DEF IInv, TypeOK, Deciding
<1>3. Apart => Apart'
  BY <1>1 DEF Apart, SeenIsRow, Columns, Busy, OneWriter, Knows, Verdict, Shown, Anyone, Mirrored,
     Posted
<1> QED BY <1>1, <1>2, <1>3 DEF IInv

\* Nobody is under way after a crash, and something was missed.
LEMMA CrashKeeps ==
  ASSUME IInv, Crash
  PROVE  IInv'
<1>1. /\ missed' = TRUE /\ submit' = "done" /\ dialog' = {}
      /\ h' = [i \in Handlers |-> Idle]
      /\ UNCHANGED <<row, ranges, before, review, posts, told, edits, raced>>
  BY DEF Crash
<1>2. faults' \in 0..MaxFaults /\ TypeOK
  BY FaultCounted DEF Crash, IInv
<1>3. \A i \in Handlers : h'[i] \in Handler /\ h'[i].at = "idle"
  BY <1>1, <1>2, IdleHandler
<1>4. h' \in [Handlers -> Handler]
  BY <1>1, <1>3
<1>5. TypeOK' /\ IsFiniteSet(posts)' /\ Deciding'
  BY <1>1, <1>2, <1>3, <1>4 DEF IInv, TypeOK, Deciding, Tail
<1>6. Apart => Apart'
  BY <1>1, <1>3 DEF Apart, SeenIsRow, OneWriter, Knows, Verdict, Committed, Unshown, Tail, Reading,
     Editing, Stages
<1> QED BY <1>1, <1>5, <1>6 DEF IInv

-----------------------------------------------------------------------------
(* The theorems *)

\* A request that has just been saved has been shown to nobody.
LEMMA First == Init => IInv
<1> SUFFICES ASSUME Init PROVE IInv
  OBVIOUS
<1>1. row = NewRow /\ ranges = Requested /\ before = Requested /\ h = [i \in Handlers |-> Idle]
  BY DEF Init
<1>2. 0 \in Versions /\ 0 \in 0..MaxFaults
  BY ReviewAssumption DEF Versions
<1>3. NewRow \in Row /\ Requested \subseteq Ranges
  BY IdleHandler
<1>4. \A i \in Handlers : h[i].at = "idle" /\ h[i] \in Handler
  BY <1>1, IdleHandler
<1>5. row.status = "submitted" /\ ~row.postSent /\ ~row.dmSent /\ row.needed = Requested
      /\ row.postSent \in BOOLEAN /\ row.dmSent \in BOOLEAN
  BY <1>1 DEF NewRow
<1>6. TypeOK
  <2>1. h \in [Handlers -> Handler]
    BY <1>1, <1>4
  <2> QED BY <1>1, <1>2, <1>3, <1>4, <2>1 DEF Init, TypeOK
<1>7. IsFiniteSet(posts) /\ Deciding
  BY <1>4, FS_EmptySet DEF Init, Deciding, Tail
<1>8. /\ SeenIsRow /\ OneWriter /\ \A i \in Handlers : Knows(i)
  BY <1>4 DEF SeenIsRow, OneWriter, Knows, Committed, Unshown, Tail, Reading, Editing, Stages
<1>9. Verdict /\ Shown
  BY <1>4, <1>5 DEF Init, Verdict, Shown
<1> QED BY <1>1, <1>5, <1>6, <1>7, <1>8, <1>9 DEF IInv, Apart

\* Every step keeps the invariant.
LEMMA Step == IInv /\ [Next]_vars => IInv'
<1> SUFFICES ASSUME IInv, [Next]_vars PROVE IInv'
  OBVIOUS
<1>1. CASE Submit
  BY <1>1, SubmitKeeps
<1>2. CASE Crash
  BY <1>2, CrashKeeps
<1>3. ASSUME NEW i \in Handlers, Continue(i) PROVE IInv'
  BY <1>3, ShowKeeps, DecideKeeps, DmKeeps, RecordDmKeeps, PostKeeps, RecordPostKeeps, RefreshKeeps,
     WriteKeeps, DeleteKeeps, EditReviewKeeps, EditPostKeeps, HandlerFailsKeeps DEF Continue
<1>4. ASSUME NEW i \in Handlers, OpenMenu(i) \/ HandlerFails(i) PROVE IInv'
  BY <1>4, TapKeeps, HandlerFailsKeeps
<1>5. ASSUME NEW i \in Handlers, NEW a \in Admins,
             Accept(i, a) \/ Decline(i, a) \/ Refresh(i, a) \/ PickField(i, a) \/ LoadEdit(i, a)
      PROVE  IInv'
  BY <1>5, LoadKeeps, LoadEditKeeps, TapKeeps
<1>6. ASSUME NEW a \in Admins, PickElsewhere(a) \/ LeaveDialog(a) PROVE IInv'
  BY <1>6, DialogKeeps
<1>7. CASE UNCHANGED vars
  <2>1. UNCHANGED <<row, ranges, before, submit, h, dialog, review, posts, told, edits, faults,
                    raced, missed>>
    BY <1>7 DEF vars
  <2>2. TypeOK' /\ IsFiniteSet(posts)' /\ Deciding'
    BY <2>1 DEF IInv, TypeOK, Deciding
  <2>3. Apart => Apart'
    BY <2>1 DEF Apart, SeenIsRow, Columns, OneWriter, Knows, Verdict, Shown, Anyone, Mirrored, Posted
  <2> QED BY <2>1, <2>2, <2>3 DEF IInv
<1> QED BY <1>1, <1>2, <1>3, <1>4, <1>5, <1>6, <1>7 DEF Next

\* Row, ranges, handlers and messages, as above, in every reachable state.
THEOREM Invariant == Spec => []IInv
BY First, Step, PTL DEF Spec

\* Every column of the request and all that its handlers hold keep their types.
THEOREM TypeCorrect == Spec => []TypeOK
<1>1. IInv => TypeOK
  BY DEF IInv
<1> QED BY <1>1, Invariant, PTL

\* Unless two handlers overlap, the requester hears the verdict that stands and
\* no other, and an approved request has one post at most, whatever fails.
THEOREM OneVerdict == Spec => []VerdictStands
<1>1. IInv => VerdictStands
  BY FS_Singleton DEF IInv, Apart, Verdict, VerdictStands
<1> QED BY <1>1, Invariant, PTL

\* Unless two handlers overlap, a request has the ranges of one list, the one
\* needed_at_text was written from, and no two of them overlap.
THEOREM OneList == Spec => []RangesAgree
<1>1. IInv => RangesAgree
  <2> SUFFICES ASSUME IInv, ~raced PROVE ranges = row.needed /\ Disjoint(ranges)
    BY DEF RangesAgree
  <2>1. ranges = row.needed /\ row.needed \in RangeSets
    BY RowColumns DEF IInv, Apart, TypeOK
  <2> QED BY <2>1 DEF RangeSets, Parsed
<1> QED BY <1>1, Invariant, PTL

\* When everything has gone well and ended, the row knows what was sent, and the
\* post and the review message, unless a menu or a question stands there, show
\* the request, if perhaps with the ranges it had before their last replacement.
THEOREM ShownInTheEnd == Spec => []ShownAsIs
<1>1. IInv => ShownAsIs
  <2> SUFFICES ASSUME IInv, Quiet, ~raced, ~missed
               PROVE  /\ Mirrored
                      /\ row.status = "approved" => \E rs \in {ranges, before} : Posted(row.text, rs)
                      /\ row.status # "approved" => posts = {}
                      /\ row.dmSent = (told # {})
                      /\ row.postSent = (posts # {})
    BY DEF ShownAsIs, Mirrored, Posted
  <2>1. Shown /\ Verdict
    BY DEF IInv, Apart
  <2>2. /\ ~Anyone(Unshown) /\ ~Anyone(Tail) /\ ~Anyone({"dm", "dmrecord"})
        /\ ~Anyone(Editing) /\ submit # "announce"
    BY DEF Quiet, Busy, Anyone, Unshown, Tail, Editing
  <2>3. /\ Mirrored
        /\ row.dmSent = (told # {})
        /\ row.postSent = (row.status = "approved")
        /\ row.status = "approved" => \E rs \in {ranges, before} : Posted(row.text, rs)
    BY <2>1, <2>2 DEF Shown
  <2>4. row.status # "approved" => posts = {}
    BY <2>1 DEF Verdict
  <2>5. posts # {} <=> row.status = "approved"
    BY <2>3, <2>4 DEF Posted
  <2> QED BY <2>3, <2>4, <2>5
<1> QED BY <1>1, Invariant, PTL
=============================================================================
