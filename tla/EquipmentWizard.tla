-------------------------- MODULE EquipmentWizard --------------------------
(***************************************************************************)
(* The dialog in which a member writes an equipment request, and its       *)
(* submission.                                                             *)
(*                                                                         *)
(* A chat has one dialog state and one dictionary of data, both in the     *)
(* memory of the process. The buttons of old messages stay in the chat and *)
(* none of their handlers looks at the state, so any button can be tapped  *)
(* at any time. A handler that does not await anything between reading and *)
(* writing the dictionary is one step; agreeing to the rules and           *)
(* submitting are not, and two of them can be under way at once.           *)
(***************************************************************************)
EXTENDS Naturals, Sequences, FiniteSets

CONSTANTS
  CREATE_FLOW,                     \* the fields in the order they are asked
  Taps,                            \* handlers that take more than one step
  Hours,                           \* hours that the pickers offer
  MaxDrafts, MaxRequests, MaxRanges  \* bounds

Fields     == {CREATE_FLOW[i] : i \in DOMAIN CREATE_FLOW}
TextFields == Fields \ {"needed_at_text"}

ASSUME WizardAssumption ==
  /\ CREATE_FLOW \in Seq(STRING)
  /\ {"equipment_text", "needed_at_text", "reason_text", "comments"} \subseteq Fields
  /\ Fields \cap {"none", "edit_value", "full_name"} = {}
  /\ \A i, j \in DOMAIN CREATE_FLOW : CREATE_FLOW[i] = CREATE_FLOW[j] => i = j
  /\ CREATE_FLOW[1] # "needed_at_text"
  /\ CREATE_FLOW[Len(CREATE_FLOW)] = "comments"
  /\ Hours \subseteq Nat \ {0}
  /\ MaxDrafts \in Nat
  /\ MaxRequests \in Nat
  /\ MaxRanges \in Nat

VARIABLES
  state,     \* the field the next text message is for, or the dialog's other states
  data,      \* the dictionary
  tap,       \* handlers under way
  drafts,    \* drafts begun so far
  requests,  \* table of equipment requests, by id
  repeated   \* drafts whose submission was repeated while one was under way,
             \* or after its message to the admins had failed

vars == <<state, data, tap, drafts, requests, repeated>>

REQUIRED_DRAFT_FIELDS == (TextFields \ {"comments"}) \cup {"full_name"}

States  == Fields \cup {"none", "edit_value"}
HourRange == [start : Hours, end : Hours]
NoField == "none"

\* Required fields that have a value (the comments never matter), the ranges in
\* the order they were picked and the text made of them, the start of the range
\* being picked, the field being edited, and which draft this is.
Data  == [filled : SUBSET REQUIRED_DRAFT_FIELDS, ranges : Seq(HourRange),
          needed : Seq(HourRange), pending : Hours \cup {0},
          editing : Fields \cup {NoField}, draft : Nat]
Empty == [filled |-> {}, ranges |-> <<>>, needed |-> <<>>, pending |-> 0,
          editing |-> NoField, draft |-> 0]

\* What a submission read of them, and a row of equipment_requests.
Draft   == [filled : SUBSET REQUIRED_DRAFT_FIELDS, ranges : Seq(HourRange), draft : Nat]
Read    == [filled |-> data.filled, ranges |-> data.ranges, draft |-> data.draft]
NoDraft == [filled |-> {}, ranges |-> <<>>, draft |-> 0]
Idle    == [at |-> "idle", draft |-> NoDraft, request |-> 0]
Request == [filled : SUBSET REQUIRED_DRAFT_FIELDS, ranges : Seq(HourRange),
            draft : Nat, review : BOOLEAN]

Submitting(d) == \E t \in Taps : tap[t].at \in {"create", "announce", "finish"}
                                  /\ tap[t].draft.draft = d
Created(d) == {q \in DOMAIN requests : requests[q].draft = d}

-----------------------------------------------------------------------------
(* What a draft has to be *)

ValidDraft(d) ==
  /\ REQUIRED_DRAFT_FIELDS \subseteq d.filled
  /\ d.ranges # <<>>

\* The sort by start and the look at each neighbour come to a look at every pair.
Disjoint(rs) ==
  \A i, j \in DOMAIN rs :
     i # j => rs[i].end <= rs[j].start \/ rs[j].end <= rs[i].start

WellFormed(rs) == Disjoint(rs) /\ \A i \in DOMAIN rs : rs[i].start < rs[i].end

-----------------------------------------------------------------------------
(* Leaving the dialog *)

\* state.clear() in a handler of its own.
Clear ==
  /\ state' = "none"
  /\ data' = Empty
  /\ UNCHANGED <<tap, drafts, requests, repeated>>

OpenMenu == Clear
Home     == Clear
NewRules == Clear
Cancel   == Clear

\* A handler that finds no valid draft clears the state.
OrNotFound(A) == IF ValidDraft(data) THEN A ELSE Clear

-----------------------------------------------------------------------------
(* From the rules to the confirmation, field by field *)

RulesAgree(t) ==
  /\ tap[t] = Idle
  /\ state' = "none"
  /\ data' = Empty
  /\ tap' = [tap EXCEPT ![t].at = "begin"]
  /\ UNCHANGED <<drafts, requests, repeated>>

\* After the query for the member: update_data leaves edit_field_name alone.
BeginWizard(t) ==
  /\ tap[t].at = "begin"
  /\ drafts < MaxDrafts
  /\ drafts' = drafts + 1
  /\ data' = [Empty EXCEPT !.filled = {"full_name"}, !.editing = data.editing,
                           !.draft = drafts + 1]
  /\ state' = CREATE_FLOW[1]
  /\ tap' = [tap EXCEPT ![t] = Idle]
  /\ UNCHANGED <<requests, repeated>>

\* The member is unknown or has no full name.
RefuseWizard(t) ==
  /\ tap[t].at = "begin"
  /\ tap' = [tap EXCEPT ![t] = Idle]
  /\ UNCHANGED <<state, data, drafts, requests, repeated>>

Position(f) == CHOOSE i \in DOMAIN CREATE_FLOW : CREATE_FLOW[i] = f

\* _normalize_input: only the comments can be empty.
Accepted(f, given) == given \/ f = "comments"
Filled(f)          == data.filled \cup ({f} \cap REQUIRED_DRAFT_FIELDS)

\* _enter_range_flow, on the data d.
RangeFlow(d, reset) ==
  IF reset THEN [d EXCEPT !.pending = 0, !.ranges = <<>>, !.needed = <<>>]
           ELSE [d EXCEPT !.pending = 0]

\* A text message for field f; the ranges are not typed.
AdvanceWizard(f, given) ==
  /\ state = f /\ f \in TextFields
  /\ Accepted(f, given)
  /\ LET filled == [data EXCEPT !.filled = Filled(f)]
     IN IF Position(f) = Len(CREATE_FLOW)
        THEN state' = "none" /\ data' = filled
        ELSE LET next == CREATE_FLOW[Position(f) + 1]
             IN /\ state' = next
                /\ data' = IF next = "needed_at_text" THEN RangeFlow(filled, FALSE)
                                                      ELSE filled
  /\ UNCHANGED <<tap, drafts, requests, repeated>>

-----------------------------------------------------------------------------
(* The ranges *)

Others == <<tap, drafts, requests, repeated>>

PickStartHour(h) ==
  /\ data' = [data EXCEPT !.pending = h]
  /\ UNCHANGED state /\ UNCHANGED Others

PickEndHour(h) ==
  /\ data.pending # 0
  /\ h > data.pending
  /\ LET rs == Append(data.ranges, [start |-> data.pending, end |-> h])
     IN /\ Len(rs) <= MaxRanges
        /\ Disjoint(rs)
        /\ data' = [data EXCEPT !.ranges = rs, !.needed = rs, !.pending = 0]
  /\ UNCHANGED state /\ UNCHANGED Others

AddAnother ==
  /\ state' = "needed_at_text"
  /\ data' = RangeFlow(data, FALSE)
  /\ UNCHANGED Others

\* _finalize_ranges_and_continue: back to the confirmation, or on to the reason.
Finalize ==
  IF data.editing = "needed_at_text"
  THEN /\ data' = [data EXCEPT !.editing = NoField]
       /\ state' = "none"
  ELSE /\ state' = "reason_text"
       /\ UNCHANGED data

RangesDone ==
  /\ data.ranges # <<>>
  /\ Finalize
  /\ UNCHANGED Others

RangeBackPrev ==
  /\ IF data.editing = "needed_at_text"
     THEN state' = "none" /\ UNCHANGED data
     ELSE /\ state' = "equipment_text"
          /\ data' = RangeFlow(data, TRUE)
  /\ UNCHANGED Others

\* Mutant of RangeBackSummary: the text of the ranges is left as it was.
RangeBackKeepsText ==
  /\ data.ranges # <<>>
  /\ LET n == Len(data.ranges)
     IN data' = [data EXCEPT !.ranges = SubSeq(data.ranges, 1, n - 1),
                             !.pending = data.ranges[n].start]
  /\ UNCHANGED state /\ UNCHANGED Others

\* The last range is taken back, and its end is asked for again.
RangeBackSummary ==
  /\ data.ranges # <<>>
  /\ LET n == Len(data.ranges)
         rest == SubSeq(data.ranges, 1, n - 1)
     IN data' = [data EXCEPT !.ranges = rest, !.needed = rest,
                             !.pending = data.ranges[n].start]
  /\ UNCHANGED state /\ UNCHANGED Others

-----------------------------------------------------------------------------
(* Editing a draft *)

EditDetails == ~ValidDraft(data) /\ Clear

PickEditField(f) ==
  OrNotFound(/\ IF f = "needed_at_text"
                THEN /\ data' = RangeFlow([data EXCEPT !.editing = f], TRUE)
                     /\ state' = "needed_at_text"
                ELSE /\ data' = [data EXCEPT !.editing = f]
                     /\ state' = "edit_value"
             /\ UNCHANGED Others)

EditValue(given) ==
  /\ state = "edit_value"
  /\ IF data.editing \notin Fields
     THEN Clear
     ELSE OrNotFound(/\ Accepted(data.editing, given)
                     /\ data' = [data EXCEPT !.filled = Filled(data.editing),
                                             !.editing = NoField]
                     /\ state' = "none"
                     /\ UNCHANGED Others)

-----------------------------------------------------------------------------
(* Submitting *)

SubmitStart(t) ==
  /\ tap[t] = Idle
  /\ OrNotFound(
       /\ tap' = [tap EXCEPT ![t] = [at |-> "create", draft |-> Read, request |-> 0]]
       /\ repeated' = IF \/ Submitting(data.draft)
                         \/ \E q \in Created(data.draft) : ~requests[q].review
                      THEN repeated \cup {data.draft} ELSE repeated
       /\ UNCHANGED <<state, data, drafts, requests>>)

\* access_chat_id is not set: the draft is kept.
RefuseSubmit(t) ==
  /\ tap[t].at = "create"
  /\ tap' = [tap EXCEPT ![t] = Idle]
  /\ UNCHANGED <<state, data, drafts, requests, repeated>>

\* Mutant of SubmitCreate: the row is never added to the session.
CreateUnsaved(t) ==
  /\ tap[t].at = "create"
  /\ Len(requests) < MaxRequests
  /\ tap' = [tap EXCEPT ![t].at = "announce", ![t].request = Len(requests) + 1]
  /\ UNCHANGED <<state, data, drafts, requests, repeated>>

\* Mutant of SubmitCreate: the dictionary is read again after the await.
CreateFromNow(t) ==
  /\ tap[t].at = "create"
  /\ Len(requests) < MaxRequests
  /\ requests' = Append(requests,
       [filled |-> data.filled, ranges |-> data.ranges, draft |-> tap[t].draft.draft,
        review |-> FALSE])
  /\ tap' = [tap EXCEPT ![t].at = "announce", ![t].draft.filled = {},
                        ![t].draft.ranges = <<>>, ![t].request = Len(requests) + 1]
  /\ UNCHANGED <<state, data, drafts, repeated>>

\* create_equipment_request: the row and its ranges in one transaction, from
\* the data read at the start.
SubmitCreate(t) ==
  /\ tap[t].at = "create"
  /\ Len(requests) < MaxRequests
  /\ LET d == tap[t].draft
     IN requests' = Append(requests,
          [filled |-> d.filled, ranges |-> d.ranges, draft |-> d.draft, review |-> FALSE])
  /\ tap' = [tap EXCEPT ![t].at = "announce", ![t].draft.filled = {},
                        ![t].draft.ranges = <<>>, ![t].request = Len(requests) + 1]
  /\ UNCHANGED <<state, data, drafts, repeated>>

\* The message to the admins.
SubmitAnnounce(t) ==
  /\ tap[t].at = "announce"
  /\ tap' = [tap EXCEPT ![t].at = "finish"]
  /\ UNCHANGED <<state, data, drafts, requests, repeated>>

\* The message fails: the request is saved, the draft stays.
AnnounceFails(t) ==
  /\ tap[t].at = "announce"
  /\ tap' = [tap EXCEPT ![t] = Idle]
  /\ UNCHANGED <<state, data, drafts, requests, repeated>>

\* Mutant of SubmitFinish: the draft survives its submission.
FinishKeeps(t) ==
  /\ tap[t].at = "finish"
  /\ requests' = [requests EXCEPT ![tap[t].request].review = TRUE]
  /\ state' = "none"
  /\ tap' = [tap EXCEPT ![t] = Idle]
  /\ UNCHANGED <<data, drafts, repeated>>

\* record_equipment_request_review_message, on a row that nobody else in this
\* module reads, and state.clear(): whatever is in the dictionary by now goes.
SubmitFinish(t) ==
  /\ tap[t].at = "finish"
  /\ requests' = [requests EXCEPT ![tap[t].request].review = TRUE]
  /\ state' = "none"
  /\ data' = Empty
  /\ tap' = [tap EXCEPT ![t] = Idle]
  /\ UNCHANGED <<drafts, repeated>>

\* The process dies: its memory, with dialogs and handlers, is gone.
Crash ==
  /\ state' = "none"
  /\ data' = Empty
  /\ tap' = [t \in Taps |-> Idle]
  /\ UNCHANGED <<drafts, requests, repeated>>

-----------------------------------------------------------------------------
Init ==
  /\ state = "none"
  /\ data = Empty
  /\ tap = [t \in Taps |-> Idle]
  /\ drafts = 0
  /\ requests = <<>>
  /\ repeated = {}

Button ==
  \/ OpenMenu \/ Home \/ NewRules \/ Cancel
  \/ AddAnother \/ RangesDone \/ RangeBackPrev \/ RangeBackSummary
  \/ EditDetails
  \/ \E h \in Hours : PickStartHour(h) \/ PickEndHour(h)
  \/ \E f \in Fields : PickEditField(f)

Message ==
  \E given \in BOOLEAN :
     EditValue(given) \/ \E f \in TextFields : AdvanceWizard(f, given)

Continue(t) ==
  \/ BeginWizard(t) \/ RefuseWizard(t)
  \/ RefuseSubmit(t) \/ SubmitCreate(t)
  \/ SubmitAnnounce(t) \/ AnnounceFails(t) \/ SubmitFinish(t)

Next ==
  \/ Button \/ Message \/ Crash
  \/ \E t \in Taps : RulesAgree(t) \/ SubmitStart(t) \/ Continue(t)

Spec == Init /\ [][Next]_vars

-----------------------------------------------------------------------------
(* Properties *)

\* Every variable keeps its type.
TypeOK ==
  /\ state \in States
  /\ data \in Data
  /\ \A t \in Taps :
       /\ tap[t].at \in {"idle", "begin", "create", "announce", "finish"}
       /\ tap[t].draft \in Draft
       /\ tap[t].request \in 0..Len(requests)
  /\ drafts \in 0..MaxDrafts
  /\ requests \in Seq(Request)
  /\ repeated \subseteq 0..MaxDrafts

\* Whatever order the buttons of new and old messages are tapped in, the
\* ranges of the dictionary are proper and disjoint, and its text is theirs.
PickedRanges == WellFormed(data.ranges) /\ data.needed = data.ranges

\* A saved request has every required field, and at least one range, all
\* proper and disjoint, although its handler works on data read before two
\* awaits while other handlers go on changing the dictionary.
SubmittedSound ==
  \A q \in DOMAIN requests :
     /\ REQUIRED_DRAFT_FIELDS \subseteq requests[q].filled
     /\ requests[q].ranges # <<>>
     /\ WellFormed(requests[q].ranges)

\* One draft becomes two requests only when its submission was tapped twice,
\* while the first was under way or after its message to the admins failed.
DraftSubmittedOnce ==
  \A d \in 1..MaxDrafts : Cardinality(Created(d)) > 1 => d \in repeated
=============================================================================
