-------------------------- MODULE EquipmentReview --------------------------
(***************************************************************************)
(* The review of one equipment request by several admins.                  *)
(*                                                                         *)
(* A handler loads the row, looks at the status it has loaded, and writes  *)
(* by primary key; between the two, and between any two of the messages    *)
(* and records that follow, other handlers run. A load of the row and its  *)
(* ranges is one step, and so are a commit and the refresh that follows    *)
(* it. The request is in the database before its review message is sent,   *)
(* and the message before its id is recorded. The buttons below the review *)
(* message write over it: the menu of fields, and the question for a value,*)
(* stand where the request stood.                                          *)
(***************************************************************************)
EXTENDS Naturals, FiniteSets

CONSTANTS
  Admins,               \* admins who tap and type
  NoAdmin,
  Handlers,             \* admin handlers that can be under way at once
  Lists,                \* lists of ranges an admin can type, each a set of ranges
  Requested,            \* the list the request is made with
  MaxEdits, MaxFaults   \* bounds: edits, and crashes, exceptions, failed messages

Disjoint(rs) ==
  \A r, s \in rs : r # s => r.end <= s.start \/ s.end <= r.start

\* parse_equipment_ranges_text accepts the list.
Parsed(rs) == rs # {} /\ (\A r \in rs : r.start < r.end) /\ Disjoint(rs)
RangeSets  == {rs \in Lists : Parsed(rs)}

ASSUME ReviewAssumption ==
  /\ NoAdmin \notin Admins
  /\ IsFiniteSet(Handlers)
  /\ \A rs \in Lists : IsFiniteSet(rs) /\ rs \subseteq [start : Nat, end : Nat]
  /\ Requested \in RangeSets
  /\ MaxEdits \in Nat
  /\ MaxFaults \in Nat

VARIABLES
  row,       \* the row of equipment_requests
  ranges,    \* the rows of equipment_request_ranges
  before,    \* what they were before they were last replaced
  submit,    \* the rest of the submission: its message, the record of its id
  h,         \* the admin handlers
  dialog,    \* admins who are asked for a new value
  review,    \* what the review message shows
  posts,     \* posts in the equipment topic
  told,      \* verdicts the requester was sent
  edits, faults,  \* so far
  raced,     \* a handler wrote the row while another was under way
  missed     \* a message could not be sent or edited, or a handler died

vars == <<row, ranges, before, submit, h, dialog, review, posts, told, edits, faults, raced,
          missed>>

Verdicts == {"approved", "declined"}
Statuses == {"submitted"} \cup Verdicts
Versions == 0..MaxEdits

\* text is the version of the text fields, needed the list last written as
\* needed_at_text, post the id of the post in the topic, or 0.
Row == [status : Statuses, admin : Admins \cup {NoAdmin}, text : Versions,
        needed : RangeSets, reviewed : BOOLEAN,
        dmSent : BOOLEAN, dmError : BOOLEAN,
        postSent : BOOLEAN, postError : BOOLEAN, post : Nat]

\* A message that shows the request, which lists the ranges and not
\* needed_at_text; the menu of fields and the question for a value do not.
Ranges    == UNION RangeSets
Message   == [status : Statuses, text : Versions, ranges : SUBSET Ranges]
Post      == [id : Nat \ {0}, text : Versions, ranges : SUBSET Ranges]
NoMessage == [status |-> "none", text |-> 0, ranges |-> {}]
Menu      == [NoMessage EXCEPT !.status = "menu"]
Question  == [NoMessage EXCEPT !.status = "question"]

\* req is the loaded object, list its loaded ranges; sent and post, what became
\* of the last message; doomed, the rows that a DELETE of the ranges has found.
Stages  == {"show", "menu", "ask",
            "decide", "dm", "dmrecord", "post", "postrecord", "refresh",
            "field", "delete", "replace", "editreview", "editpost"}
Handler == [at : Stages \cup {"idle"}, admin : Admins \cup {NoAdmin}, verdict : Statuses,
            req : Row, list : SUBSET Ranges, sent : BOOLEAN, post : Nat,
            doomed : SUBSET Ranges, new : RangeSets]

Busy(i)   == h[i].at # "idle"
Quiet     == submit = "done" /\ \A i \in Handlers : ~Busy(i)
Others(i) == \E j \in Handlers \ {i} : Busy(j)

\* A new row, and a handler that is not under way.
NewRow ==
  [status |-> "submitted", admin |-> NoAdmin, text |-> 0, needed |-> Requested, reviewed |-> FALSE,
   dmSent |-> FALSE, dmError |-> FALSE, postSent |-> FALSE, postError |-> FALSE, post |-> 0]

Idle == [at |-> "idle", admin |-> NoAdmin, verdict |-> "submitted", req |-> NewRow,
         list |-> {}, sent |-> FALSE, post |-> 0, doomed |-> {}, new |-> Requested]

-----------------------------------------------------------------------------
(* The unit of work *)

\* A flush writes the columns that differ from those loaded.
Merge(loaded, new) ==
  [c \in DOMAIN row |-> IF new[c] # loaded[c] THEN new[c] ELSE row[c]]

\* COMMIT and refresh: the handler goes on with the row as it is then. Its
\* ranges are only as they are then if the refresh asks for them.
Commit(i, new, at, list) ==
  /\ row' = Merge(h[i].req, new)
  /\ h' = [h EXCEPT ![i].req = row', ![i].at = at, ![i].list = list]
  /\ raced' = (raced \/ Others(i))

\* The request as handler i has it.
Rendered(i) == [status |-> h[i].req.status, text |-> h[i].req.text, ranges |-> h[i].list]

-----------------------------------------------------------------------------
(* The submission, after its row is saved *)

Announce ==
  /\ submit = "announce"
  /\ review' = [status |-> row.status, text |-> row.text, ranges |-> ranges]
  /\ submit' = "record"
  /\ UNCHANGED <<row, ranges, before, h, dialog, posts, told, edits, faults, raced, missed>>

\* A message that fails was not delivered, or its answer was lost.
AnnounceFails ==
  /\ submit = "announce"
  /\ faults < MaxFaults
  /\ faults' = faults + 1
  /\ missed' = TRUE
  /\ submit' = "done"
  /\ \/ UNCHANGED review
     \/ review' = [status |-> row.status, text |-> row.text, ranges |-> ranges]
  /\ UNCHANGED <<row, ranges, before, h, dialog, posts, told, edits, raced>>

\* record_equipment_request_review_message: two columns that nobody else writes.
RecordReview ==
  /\ submit = "record"
  /\ row' = [row EXCEPT !.reviewed = TRUE]
  /\ submit' = "done"
  /\ UNCHANGED <<ranges, before, h, dialog, review, posts, told, edits, faults, raced, missed>>

-----------------------------------------------------------------------------
(* The buttons below the review message *)

Loaded(i, at, a) == [h[i] EXCEPT !.at = at, !.admin = a, !.req = row, !.list = ranges]

\* A tap on the message as it is or was; only the row tells what may be done.
Tap(i, r) ==
  /\ ~Busy(i) /\ review # NoMessage
  /\ h' = [h EXCEPT ![i] = r]
  /\ UNCHANGED <<row, ranges, before, submit, review, posts, told, edits, faults, raced, missed>>

Editable(r) == r.status \in {"submitted", "approved"}

\* Back, below the menu and the question, and Refresh, below a decided request;
\* Accept and Decline show a request that has been decided as it is, and Edit
\* and the fields one that has been declined.
Refresh(i, a) ==
  /\ review \in {Menu, Question} \/ row.status \in Verdicts
  /\ Tap(i, Loaded(i, "show", a))
  /\ UNCHANGED dialog

\* Edit: only the status of the request is looked at.
OpenMenu(i) ==
  /\ Editable(row)
  /\ Tap(i, [Idle EXCEPT !.at = "menu"])
  /\ UNCHANGED dialog

\* A field: the admin is asked for a value.
PickField(i, a) ==
  /\ review \in {Menu, Question}
  /\ Editable(row)
  /\ Tap(i, [Idle EXCEPT !.at = "ask"])
  /\ dialog' = dialog \cup {a}

\* The same below another message: the reply to an edit, or an approved request
\* in the hub, has an Edit button, and that message is written over.
PickElsewhere(a) ==
  /\ review # NoMessage
  /\ Editable(row)
  /\ dialog' = dialog \cup {a}
  /\ UNCHANGED <<row, ranges, before, submit, h, review, posts, told, edits, faults, raced, missed>>

\* edit_or_answer writes over the message tapped.
Show(i) ==
  /\ h[i].at \in {"show", "menu", "ask"}
  /\ review' = CASE h[i].at = "show" -> Rendered(i)
                 [] h[i].at = "menu" -> Menu
                 [] h[i].at = "ask"  -> Question
  /\ h' = [h EXCEPT ![i] = Idle]
  /\ UNCHANGED <<row, ranges, before, submit, dialog, posts, told, edits, faults, raced, missed>>

-----------------------------------------------------------------------------
(* Accept and decline *)

Load(i, a, v) ==
  /\ ~Busy(i) /\ review # NoMessage
  /\ row.status = "submitted"
  /\ h' = [h EXCEPT ![i] = [Loaded(i, "decide", a) EXCEPT !.verdict = v]]
  /\ UNCHANGED <<row, ranges, before, submit, dialog, review, posts, told, edits, faults, raced,
                 missed>>

Accept(i, a)  == Load(i, a, "approved")
Decline(i, a) == Load(i, a, "declined")

\* _ensure_decidable looks at the loaded object.
EnsureDecidable(req) == req.status \notin Verdicts

\* Mutant of Decide: the requester is not written to.
DecideQuiet(i) ==
  /\ h[i].at = "decide"
  /\ EnsureDecidable(h[i].req)
  /\ Commit(i, [h[i].req EXCEPT !.status = h[i].verdict, !.admin = h[i].admin], "refresh",
            ranges)
  /\ UNCHANGED <<ranges, before, submit, dialog, review, posts, told, edits, faults, missed>>

Decide(i) ==
  /\ h[i].at = "decide"
  /\ EnsureDecidable(h[i].req)
  /\ Commit(i, [h[i].req EXCEPT !.status = h[i].verdict, !.admin = h[i].admin], "dm",
            ranges)
  /\ UNCHANGED <<ranges, before, submit, dialog, review, posts, told, edits, faults, missed>>

\* The requester is sent the handler's own verdict.
SendDm(i) ==
  /\ h[i].at = "dm"
  /\ told' = told \cup {h[i].verdict}
  /\ h' = [h EXCEPT ![i].at = "dmrecord", ![i].sent = TRUE]
  /\ UNCHANGED <<row, ranges, before, submit, dialog, review, posts, edits, faults, raced, missed>>

DmFails(i) ==
  /\ h[i].at = "dm"
  /\ faults < MaxFaults
  /\ faults' = faults + 1
  /\ missed' = TRUE
  /\ h' = [h EXCEPT ![i].at = "dmrecord", ![i].sent = FALSE]
  /\ UNCHANGED told \/ told' = told \cup {h[i].verdict}
  /\ UNCHANGED <<row, ranges, before, submit, dialog, review, posts, edits, raced>>

\* Mutant of RecordDm: a decline goes on to the topic as well.
RecordDmPosts(i) ==
  /\ h[i].at = "dmrecord"
  /\ Commit(i, [h[i].req EXCEPT !.dmSent = h[i].sent, !.dmError = ~h[i].sent], "post",
            h[i].list)
  /\ UNCHANGED <<ranges, before, submit, dialog, review, posts, told, edits, faults, missed>>

\* Only an approval goes on to the topic.
RecordDm(i) ==
  /\ h[i].at = "dmrecord"
  /\ Commit(i, [h[i].req EXCEPT !.dmSent = h[i].sent, !.dmError = ~h[i].sent],
            IF h[i].verdict = "approved" THEN "post" ELSE "refresh", h[i].list)
  /\ UNCHANGED <<ranges, before, submit, dialog, review, posts, told, edits, faults, missed>>

\* Mutant of SendPost: the id of the post is lost.
SendPostNoId(i) ==
  /\ h[i].at = "post"
  /\ posts' = posts \cup {[id |-> 0, text |-> h[i].req.text, ranges |-> h[i].list]}
  /\ h' = [h EXCEPT ![i].at = "postrecord", ![i].sent = TRUE]
  /\ UNCHANGED <<row, ranges, before, submit, dialog, review, told, edits, faults, raced, missed>>

\* The post shows the row as refreshed after the message to the requester, and
\* the ranges as refreshed after the decision.
SendPost(i) ==
  /\ h[i].at = "post"
  /\ LET id == Cardinality(posts) + 1
     IN /\ posts' = posts \cup {[id |-> id, text |-> h[i].req.text, ranges |-> h[i].list]}
        /\ h' = [h EXCEPT ![i].at = "postrecord", ![i].sent = TRUE, ![i].post = id]
  /\ UNCHANGED <<row, ranges, before, submit, dialog, review, told, edits, faults, raced, missed>>

\* No topic is configured, or the message fails, and its id is not known.
PostFails(i) ==
  /\ h[i].at = "post"
  /\ faults < MaxFaults
  /\ faults' = faults + 1
  /\ missed' = TRUE
  /\ h' = [h EXCEPT ![i].at = "postrecord", ![i].sent = FALSE]
  /\ \/ UNCHANGED posts
     \/ posts' = posts \cup {[id |-> Cardinality(posts) + 1, text |-> h[i].req.text,
                              ranges |-> h[i].list]}
  /\ UNCHANGED <<row, ranges, before, submit, dialog, review, told, edits, raced>>

\* Mutant of RecordPost: the id of the post is not kept.
RecordPostBare(i) ==
  /\ h[i].at = "postrecord"
  /\ Commit(i, [h[i].req EXCEPT !.postSent = h[i].sent, !.postError = ~h[i].sent], "refresh",
            h[i].list)
  /\ UNCHANGED <<ranges, before, submit, dialog, review, posts, told, edits, faults, missed>>

RecordPost(i) ==
  /\ h[i].at = "postrecord"
  /\ LET new == [h[i].req EXCEPT !.postSent = h[i].sent, !.postError = ~h[i].sent]
     IN Commit(i, IF h[i].sent THEN [new EXCEPT !.post = h[i].post] ELSE new, "refresh", h[i].list)
  /\ UNCHANGED <<ranges, before, submit, dialog, review, posts, told, edits, faults, missed>>

\* _refresh_review_message: by the recorded id, or else the message tapped.
RefreshReview(i) ==
  /\ h[i].at = "refresh"
  /\ review' = Rendered(i)
  /\ h' = [h EXCEPT ![i] = Idle]
  /\ UNCHANGED <<row, ranges, before, submit, dialog, posts, told, edits, faults, raced, missed>>

-----------------------------------------------------------------------------
(* Edits by admins *)

\* The admin leaves the dialog, or sends the value when the request has been
\* declined.
LeaveDialog(a) ==
  /\ dialog' = dialog \ {a}
  /\ UNCHANGED <<row, ranges, before, submit, h, review, posts, told, edits, faults, raced, missed>>

\* The value, a text or a list of ranges that can be parsed.
LoadEdit(i, a) ==
  /\ ~Busy(i) /\ a \in dialog
  /\ edits < MaxEdits
  /\ Editable(row)
  /\ edits' = edits + 1
  /\ \/ h' = [h EXCEPT ![i] = Loaded(i, "field", a)]
     \/ \E rs \in RangeSets : h' = [h EXCEPT ![i] = [Loaded(i, "delete", a) EXCEPT !.new = rs]]
  /\ UNCHANGED <<row, ranges, before, submit, dialog, review, posts, told, faults, raced, missed>>

\* update_equipment_request_field, with a text no other edit has written.
WriteField(i) ==
  /\ h[i].at = "field"
  /\ Commit(i, [h[i].req EXCEPT !.text = edits], "editreview", ranges)
  /\ UNCHANGED <<ranges, before, submit, dialog, review, posts, told, edits, faults, missed>>

\* The DELETE finds the rows committed by the time it starts; a row that
\* another transaction deletes meanwhile is waited for, and then skipped.
DeleteRanges(i) ==
  /\ h[i].at = "delete"
  /\ h' = [h EXCEPT ![i].at = "replace", ![i].doomed = ranges]
  /\ UNCHANGED <<row, ranges, before, submit, dialog, review, posts, told, edits, faults, raced,
                 missed>>

\* Mutant of ReplaceRanges: the rows are added to those there are.
AddRanges(i) ==
  /\ h[i].at = "replace"
  /\ ranges' = ranges \cup h[i].new
  /\ before' = ranges
  /\ Commit(i, [h[i].req EXCEPT !.needed = h[i].new], "editreview", h[i].list)
  /\ UNCHANGED <<submit, dialog, review, posts, told, edits, faults, missed>>

\* replace_equipment_request_ranges: rows inserted since the DELETE started
\* stay beside the new ones. The SELECT after the COMMIT finds the request in
\* the session and leaves its loaded list as it was.
ReplaceRanges(i) ==
  /\ h[i].at = "replace"
  /\ ranges' = (ranges \ h[i].doomed) \cup h[i].new
  /\ before' = ranges
  /\ Commit(i, [h[i].req EXCEPT !.needed = h[i].new], "editreview", h[i].list)
  /\ UNCHANGED <<submit, dialog, review, posts, told, edits, faults, missed>>

\* The review message, when its id is known.
EditReview(i) ==
  /\ h[i].at = "editreview"
  /\ h[i].req.reviewed => review # Rendered(i)
  /\ review' = IF h[i].req.reviewed THEN Rendered(i) ELSE review
  /\ missed' = (missed \/ ~h[i].req.reviewed)
  /\ h' = [h EXCEPT ![i].at = "editpost"]
  /\ UNCHANGED <<row, ranges, before, submit, dialog, posts, told, edits, faults, raced>>

\* Telegram refuses an edit that changes nothing, and the handler ends there.
EditRefused(i) ==
  /\ h[i].at = "editreview"
  /\ h[i].req.reviewed /\ review = Rendered(i)
  /\ missed' = TRUE
  /\ h' = [h EXCEPT ![i] = Idle]
  /\ UNCHANGED <<row, ranges, before, submit, dialog, review, posts, told, edits, faults, raced>>

\* The post of an approved request, when its id is known; the dialog ends.
EditPost(i) ==
  /\ h[i].at = "editpost"
  /\ posts' = IF h[i].req.status = "approved"
              THEN {IF p.id = h[i].req.post
                      THEN [p EXCEPT !.text = h[i].req.text, !.ranges = h[i].list] ELSE p
                      : p \in posts}
              ELSE posts
  /\ dialog' = dialog \ {h[i].admin}
  /\ h' = [h EXCEPT ![i] = Idle]
  /\ UNCHANGED <<row, ranges, before, submit, review, told, edits, faults, raced, missed>>

-----------------------------------------------------------------------------
(* Failures *)

\* An exception that nobody catches: a message that cannot be edited, a lost
\* connection. A transaction that was open is rolled back.
HandlerFails(i) ==
  /\ Busy(i)
  /\ faults < MaxFaults
  /\ faults' = faults + 1
  /\ missed' = TRUE
  /\ h' = [h EXCEPT ![i] = Idle]
  /\ UNCHANGED <<row, ranges, before, submit, dialog, review, posts, told, edits, raced>>

\* The process dies, with all its handlers and dialogs.
Crash ==
  /\ faults < MaxFaults
  /\ faults' = faults + 1
  /\ missed' = TRUE
  /\ submit' = "done"
  /\ dialog' = {}
  /\ h' = [i \in Handlers |-> Idle]
  /\ UNCHANGED <<row, ranges, before, review, posts, told, edits, raced>>

-----------------------------------------------------------------------------
\* create_equipment_request has just committed.
Init ==
  /\ row = NewRow
  /\ ranges = Requested
  /\ before = Requested
  /\ h = [i \in Handlers |-> Idle]
  /\ submit = "announce"
  /\ dialog = {}
  /\ review = NoMessage
  /\ posts = {}
  /\ told = {}
  /\ edits = 0
  /\ faults = 0
  /\ raced = FALSE
  /\ missed = FALSE

\* What the event loop does by itself with a handler under way.
Continue(i) ==
  \/ Show(i) \/ Decide(i) \/ SendDm(i) \/ DmFails(i) \/ RecordDm(i)
  \/ SendPost(i) \/ PostFails(i) \/ RecordPost(i) \/ RefreshReview(i)
  \/ WriteField(i) \/ DeleteRanges(i) \/ ReplaceRanges(i) \/ EditReview(i)
  \/ EditRefused(i) \/ EditPost(i)

Submit == Announce \/ AnnounceFails \/ RecordReview

Next ==
  \/ Submit \/ Crash
  \/ \E i \in Handlers : OpenMenu(i) \/ Continue(i) \/ HandlerFails(i)
  \/ \E i \in Handlers, a \in Admins :
       \/ Accept(i, a) \/ Decline(i, a) \/ Refresh(i, a) \/ PickField(i, a) \/ LoadEdit(i, a)
  \/ \E a \in Admins : PickElsewhere(a) \/ LeaveDialog(a)

Spec == Init /\ [][Next]_vars

\* A handler that has begun goes on until it ends: the event loop runs it.
FairSpec == Spec /\ WF_vars(Submit) /\ \A i \in Handlers : WF_vars(Continue(i))

-----------------------------------------------------------------------------
(* Properties *)

\* Every variable keeps its type.
TypeOK ==
  /\ row \in Row
  /\ ranges \subseteq Ranges
  /\ before \subseteq Ranges
  /\ submit \in {"announce", "record", "done"}
  /\ h \in [Handlers -> Handler]
  /\ dialog \subseteq Admins
  /\ review \in Message \cup {NoMessage, Menu, Question}
  /\ posts \subseteq Post
  /\ told \subseteq Verdicts
  /\ edits \in Versions
  /\ faults \in 0..MaxFaults
  /\ raced \in BOOLEAN
  /\ missed \in BOOLEAN

\* As long as no two handlers of the request overlap, the requester hears no
\* verdict but the one that stands, and a post in the topic, of which there is
\* one at most, is that of an approved request, whatever fails on the way.
VerdictStands ==
  ~raced => /\ told \subseteq {row.status}
            /\ posts # {} => row.status = "approved" /\ Cardinality(posts) = 1

\* As long as no two handlers overlap, the ranges of the request are a list
\* some admin or the requester gave, and needed_at_text is written from it.
RangesAgree ==
  ~raced => ranges = row.needed /\ Disjoint(ranges)

\* When nothing is under way, nothing overlapped and no message was lost or
\* refused, the row knows what has been sent, the post and the review message,
\* unless an admin left a menu or a question there, show the status and the
\* text of the request, and their ranges are never further behind than its last
\* replacement, which the code renders from the list it had loaded.
ShownAsIs ==
  Quiet /\ ~raced /\ ~missed =>
    /\ \/ review \in {Menu, Question}
       \/ \E rs \in {ranges, before} :
            review = [status |-> row.status, text |-> row.text, ranges |-> rs]
    /\ IF row.status = "approved"
       THEN \E rs \in {ranges, before} :
              posts = {[id |-> row.post, text |-> row.text, ranges |-> rs]}
       ELSE posts = {}
    /\ row.dmSent = (told # {})
    /\ row.postSent = (posts # {})

\* Whatever overlaps, the requester of a decided request is told, unless a
\* message or a handler failed.
DecisionTold == row.status \in Verdicts ~> (told # {} \/ missed)
=============================================================================
