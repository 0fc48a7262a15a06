----------------------- MODULE EquipmentWizard_proofs -----------------------
(***************************************************************************)
(* For any number of fields, hours, drafts and overlapping handlers: the   *)
(* ranges a member has picked are disjoint, a saved request is complete,   *)
(* and a draft is saved once unless its submission was repeated.           *)
(***************************************************************************)
EXTENDS EquipmentWizard, FiniteSetTheorems, SequenceTheorems, TLAPS

Stages     == {"idle", "begin", "create", "announce", "finish"}
Submission == {"create", "announce", "finish"}
Tap        == [at : Stages, draft : Draft, request : Nat]

Typed ==
  /\ state \in States
  /\ data \in Data
  /\ tap \in [Taps -> Tap]
  /\ drafts \in 0..MaxDrafts
  /\ requests \in Seq(Request)
  /\ repeated \subseteq 0..MaxDrafts
  /\ \A t \in Taps : tap[t].request <= Len(requests)

\* A draft that can be submitted has a number, and numbers are not used twice.
Numbered ==
  /\ data.draft <= drafts
  /\ "full_name" \in data.filled => data.draft > 0
  /\ \A t \in Taps : tap[t].at \in Submission =>
       tap[t].draft.draft > 0 /\ tap[t].draft.draft <= drafts
  /\ \A q \in DOMAIN requests : requests[q].draft > 0 /\ requests[q].draft <= drafts

\* What a submission is about to save was valid when it was read.
Sound(d) ==
  REQUIRED_DRAFT_FIELDS \subseteq d.filled /\ d.ranges # <<>> /\ WellFormed(d.ranges)
ReadySound == \A t \in Taps : tap[t].at = "create" => Sound(tap[t].draft)

\* The draft of a submission that has ended is in the dictionary no more.
Reviewed ==
  \A q \in DOMAIN requests : requests[q].review => data.draft # requests[q].draft

\* A submission that was not repeated is the only one of its draft, and what
\* there is of the draft in the table is its own.
OnlyOne(t) ==
  LET d == tap[t].draft.draft IN
    tap[t].at \in Submission /\ d \notin repeated =>
      /\ \A u \in Taps : u # t /\ tap[u].at \in Submission => tap[u].draft.draft # d
      /\ \A q \in DOMAIN requests : requests[q].draft = d =>
           tap[t].at # "create" /\ q = tap[t].request

\* A draft that was not submitted again is saved once.
SavedOnce ==
  \A q, r \in DOMAIN requests :
    requests[q].draft = requests[r].draft /\ requests[q].draft \notin repeated => q = r

Single == \A t \in Taps : OnlyOne(t)

IInv ==
  /\ Typed /\ PickedRanges /\ Numbered /\ ReadySound /\ SubmittedSound
  /\ Reviewed /\ Single /\ SavedOnce

-----------------------------------------------------------------------------
(* Ranges *)

\* A range behind the others that overlaps none.
LEMMA Appended ==
  ASSUME NEW rs \in Seq(HourRange), NEW r \in HourRange, WellFormed(rs),
         r.start < r.end, Disjoint(Append(rs, r))
  PROVE  Append(rs, r) \in Seq(HourRange) /\ WellFormed(Append(rs, r))
<1> DEFINE new == Append(rs, r)
<1>1. /\ new \in Seq(HourRange) /\ Len(new) = Len(rs) + 1
      /\ \A i \in 1..Len(rs) : new[i] = rs[i]
      /\ new[Len(rs) + 1] = r
  BY AppendProperties
<1> HIDE DEF new
<1>2. DOMAIN new = 1..(Len(rs) + 1) /\ DOMAIN rs = 1..Len(rs) /\ Len(rs) \in Nat
  BY <1>1, LenProperties
<1>3. \A i \in DOMAIN new : new[i].start < new[i].end
  <2> SUFFICES ASSUME NEW i \in 1..(Len(rs) + 1) PROVE new[i].start < new[i].end
    BY <1>2
  <2>1. CASE i \in 1..Len(rs)
    BY <1>1, <1>2, <2>1, SMTT(60) DEF WellFormed
  <2>2. CASE i = Len(rs) + 1
    BY <1>1, <2>2
  <2> QED BY <1>2, <2>1, <2>2
<1> QED BY <1>1, <1>3 DEF WellFormed, new

\* The ranges without the last.
LEMMA Shortened ==
  ASSUME NEW rs \in Seq(HourRange), rs # <<>>, WellFormed(rs)
  PROVE  /\ SubSeq(rs, 1, Len(rs) - 1) \in Seq(HourRange)
         /\ WellFormed(SubSeq(rs, 1, Len(rs) - 1))
         /\ rs[Len(rs)] \in HourRange
<1> DEFINE new == SubSeq(rs, 1, Len(rs) - 1)
<1>1. Len(rs) \in Nat /\ Len(rs) > 0 /\ DOMAIN rs = 1..Len(rs)
      /\ \A i \in 1..Len(rs) : rs[i] \in HourRange
  BY LenProperties, ElementOfSeq, EmptySeq
<1>0. \A l \in Nat : l > 0 => l - 1 \in Nat /\ l = (l - 1) + 1
  OBVIOUS
<1>2. PICK n \in Nat : n = Len(rs) - 1 /\ Len(rs) = n + 1
  BY <1>1, <1>0, Zenon
<1>3. /\ new \in Seq(HourRange)
      /\ DOMAIN new = 1..n
      /\ \A i \in 1..n : new[i] = rs[i]
  <2>1. \A i \in 1..n : rs[i] \in HourRange
    BY <1>1, <1>2
  <2>2. new = SubSeq(rs, 1, n)
    BY <1>2
  <2> HIDE DEF new
  <2>3. /\ SubSeq(rs, 1, n) \in Seq(HourRange)
        /\ Len(SubSeq(rs, 1, n)) = IF 1 <= n THEN n - 1 + 1 ELSE 0
        /\ \A i \in 1..(n - 1 + 1) : SubSeq(rs, 1, n)[i] = rs[1 + i - 1]
    BY <2>1, SubSeqProperties
  <2>4. n - 1 + 1 = n /\ (IF 1 <= n THEN n - 1 + 1 ELSE 0) = n
    OBVIOUS
  <2>5. \A i \in 1..n : 1 + i - 1 = i
    OBVIOUS
  <2>6. new \in Seq(HourRange) /\ Len(new) = n /\ \A i \in 1..n : new[i] = rs[1 + i - 1]
    BY <2>2, <2>3, <2>4
  <2> QED BY <2>5, <2>6, LenProperties
<1> HIDE DEF new
<1>4. \A i \in 1..n : i \in DOMAIN rs
  BY <1>1, <1>2
<1>5. WellFormed(new)
  BY <1>3, <1>4 DEF WellFormed, Disjoint
<1>6. Len(rs) \in 1..Len(rs)
  BY <1>1
<1> QED BY <1>1, <1>3, <1>5, <1>6 DEF new

\* No ranges are well-formed.
LEMMA NoRanges == <<>> \in Seq(HourRange) /\ WellFormed(<<>>)
BY EmptySeq DEF WellFormed, Disjoint

\* The empty dictionary and the fields are of their types.
LEMMA Defaults ==
  /\ Empty \in Data
  /\ NoDraft \in Draft
  /\ Fields \subseteq States /\ NoField \in Fields \cup {NoField}
  /\ "none" \in States /\ "edit_value" \in States
  /\ "full_name" \notin Fields
  /\ "full_name" \in REQUIRED_DRAFT_FIELDS
BY NoRanges, WizardAssumption
   DEF Empty, NoDraft, Data, Draft, States, NoField, REQUIRED_DRAFT_FIELDS

-----------------------------------------------------------------------------
(* Buttons and messages: steps of the dialog alone *)

\* The dictionary is still the same draft's, or it is no draft's.
SameDraft(d) ==
  /\ d \in Data
  /\ WellFormed(d.ranges) /\ d.needed = d.ranges
  /\ \/ d.draft = 0 /\ "full_name" \notin d.filled
     \/ /\ d.draft = data.draft
        /\ "full_name" \in d.filled => "full_name" \in data.filled

LEMMA DialogKeeps ==
  ASSUME IInv, UNCHANGED Others, state' \in States, SameDraft(data')
  PROVE  IInv'
<1>1. tap' = tap /\ drafts' = drafts /\ requests' = requests /\ repeated' = repeated
  BY DEF Others
<1>2. data'.draft = 0 \/ data'.draft = data.draft
  BY DEF SameDraft, Empty
<1>3. "full_name" \in data'.filled => "full_name" \in data.filled /\ data'.draft = data.draft
  BY DEF SameDraft, Empty
<1>4. Typed' /\ PickedRanges'
  BY <1>1 DEF IInv, Typed, PickedRanges, SameDraft
<1>5. drafts \in Nat /\ data.draft \in Nat
  BY WizardAssumption DEF IInv, Typed, Data
<1>6. Numbered'
  BY <1>1, <1>2, <1>3, <1>5 DEF IInv, Numbered
<1>7. Reviewed'
  BY <1>1, <1>2, <1>5 DEF IInv, Reviewed, Numbered
<1>8. ReadySound' /\ SubmittedSound' /\ Single' /\ SavedOnce'
  BY <1>1 DEF IInv, ReadySound, SubmittedSound, Single, OnlyOne, SavedOnce
<1> QED BY <1>4, <1>6, <1>7, <1>8 DEF IInv

LEMMA ClearKeeps ==
  ASSUME IInv, Clear
  PROVE  IInv'
<1>1. SameDraft(Empty)
  BY Defaults, NoRanges DEF SameDraft, Empty
<1> QED BY <1>1, Defaults, DialogKeeps DEF Clear, Others

\* Fields of the dictionary that have no part in the invariant but for their
\* types, and the ranges with their text.
LEMMA Edited ==
  ASSUME IInv
  PROVE  /\ data \in Data
         /\ \A e \in Fields \cup {NoField} : SameDraft([data EXCEPT !.editing = e])
         /\ \A h \in Hours \cup {0} : SameDraft([data EXCEPT !.pending = h])
         /\ \A rs \in Seq(HourRange), h \in Hours \cup {0} : WellFormed(rs) =>
              SameDraft([data EXCEPT !.ranges = rs, !.needed = rs, !.pending = h])
         /\ \A f \in Fields : SameDraft([data EXCEPT !.filled = Filled(f)])
<1>1. data \in Data /\ WellFormed(data.ranges) /\ data.needed = data.ranges
  BY DEF IInv, Typed, PickedRanges
<1>2. \A f \in Fields : /\ Filled(f) \in SUBSET REQUIRED_DRAFT_FIELDS
                        /\ "full_name" \in Filled(f) => "full_name" \in data.filled
  BY <1>1, Defaults DEF Filled, Data
<1>3. \A e \in Fields \cup {NoField} : SameDraft([data EXCEPT !.editing = e])
  BY <1>1 DEF SameDraft, Data
<1>4. \A h \in Hours \cup {0} : SameDraft([data EXCEPT !.pending = h])
  BY <1>1 DEF SameDraft, Data
<1>5. \A rs \in Seq(HourRange), h \in Hours \cup {0} : WellFormed(rs) =>
        SameDraft([data EXCEPT !.ranges = rs, !.needed = rs, !.pending = h])
  <2> SUFFICES ASSUME NEW rs \in Seq(HourRange), NEW h \in Hours \cup {0}, WellFormed(rs)
               PROVE  SameDraft([data EXCEPT !.ranges = rs, !.needed = rs, !.pending = h])
    OBVIOUS
  <2> DEFINE new == [data EXCEPT !.ranges = rs, !.needed = rs, !.pending = h]
  <2>1. /\ new.ranges = rs /\ new.needed = rs /\ new.draft = data.draft
        /\ new.filled = data.filled
    BY <1>1 DEF Data
  <2>2. new \in Data
    BY <1>1 DEF Data
  <2> HIDE DEF new
  <2>3. SameDraft(new)
    BY <2>1, <2>2 DEF SameDraft
  <2> QED BY <2>3 DEF new
<1>6. \A f \in Fields : SameDraft([data EXCEPT !.filled = Filled(f)])
  BY <1>1, <1>2 DEF SameDraft, Data
<1> QED BY <1>1, <1>3, <1>4, <1>5, <1>6

\* The dictionary of range_flow, for a draft that keeps its identity.
LEMMA Flowed ==
  ASSUME IInv, NEW d, SameDraft(d), NEW reset \in BOOLEAN
  PROVE  SameDraft(RangeFlow(d, reset))
<1>1. d \in Data /\ WellFormed(d.ranges) /\ d.needed = d.ranges
  BY DEF SameDraft
<1>2. CASE reset
  <2> DEFINE new == [d EXCEPT !.pending = 0, !.ranges = <<>>, !.needed = <<>>]
  <2>1. /\ new \in Data
        /\ new.ranges = <<>> /\ new.needed = <<>>
        /\ new.draft = d.draft /\ new.filled = d.filled
    BY <1>1, NoRanges DEF Data
  <2>2. RangeFlow(d, reset) = new
    BY <1>2 DEF RangeFlow
  <2> HIDE DEF new
  <2> QED BY <2>1, <2>2, NoRanges DEF SameDraft
<1>3. CASE ~reset
  <2> DEFINE new == [d EXCEPT !.pending = 0]
  <2>1. /\ new \in Data
        /\ new.ranges = d.ranges /\ new.needed = d.needed
        /\ new.draft = d.draft /\ new.filled = d.filled
    BY <1>1 DEF Data
  <2>2. RangeFlow(d, reset) = new
    BY <1>3 DEF RangeFlow
  <2> HIDE DEF new
  <2> QED BY <1>1, <2>1, <2>2 DEF SameDraft
<1> QED BY <1>2, <1>3

\* A text that fills a field.
LEMMA AdvanceWizardKeeps ==
  ASSUME IInv, NEW f \in TextFields, NEW given \in BOOLEAN, AdvanceWizard(f, given)
  PROVE  IInv'
<1> DEFINE filled == [data EXCEPT !.filled = Filled(f)]
           next   == CREATE_FLOW[Position(f) + 1]
<1>1. f \in Fields
  BY DEF TextFields
<1>2. SameDraft(filled)
  BY <1>1, Edited
<1>3. UNCHANGED Others
  BY DEF AdvanceWizard, Others
<1>4. CASE Position(f) = Len(CREATE_FLOW)
  <2>1. state' = "none" /\ data' = filled
    BY <1>4 DEF AdvanceWizard
  <2> QED BY <1>2, <1>3, <2>1, Defaults, DialogKeeps
<1>5. CASE Position(f) # Len(CREATE_FLOW)
  <2>1. /\ state' = next
        /\ data' = IF next = "needed_at_text" THEN RangeFlow(filled, FALSE) ELSE filled
    BY <1>5 DEF AdvanceWizard
  <2>2. next \in Fields
    <3>1. Position(f) \in DOMAIN CREATE_FLOW
      BY <1>1 DEF Position, Fields
    <3>2. DOMAIN CREATE_FLOW = 1..Len(CREATE_FLOW) /\ Len(CREATE_FLOW) \in Nat
      BY WizardAssumption, LenProperties
    <3>3. Position(f) + 1 \in DOMAIN CREATE_FLOW
      BY <1>5, <3>1, <3>2
    <3> QED BY <3>3 DEF Fields
  <2>3. SameDraft(RangeFlow(filled, FALSE))
    BY <1>2, Flowed
  <2>4. SameDraft(data')
    BY <1>2, <2>1, <2>3
  <2>5. state' \in States
    BY <2>1, <2>2, Defaults
  <2> QED BY <1>3, <2>4, <2>5, DialogKeeps
<1> QED BY <1>4, <1>5

LEMMA PickStartHourKeeps ==
  ASSUME IInv, NEW h \in Hours, PickStartHour(h)
  PROVE  IInv'
<1>1. SameDraft([data EXCEPT !.pending = h])
  BY Edited
<1>2. state' \in States
  BY DEF PickStartHour, IInv, Typed
<1> QED BY <1>1, <1>2, DialogKeeps DEF PickStartHour

LEMMA PickEndHourKeeps ==
  ASSUME IInv, NEW h \in Hours, PickEndHour(h)
  PROVE  IInv'
<1> DEFINE r  == [start |-> data.pending, end |-> h]
           rs == Append(data.ranges, r)
<1>1. /\ data.pending # 0 /\ h > data.pending /\ Disjoint(rs)
      /\ data' = [data EXCEPT !.ranges = rs, !.needed = rs, !.pending = 0]
      /\ state' = state /\ UNCHANGED Others
  BY DEF PickEndHour
<1>2. data.ranges \in Seq(HourRange) /\ data.pending \in Hours /\ WellFormed(data.ranges)
  BY <1>1 DEF IInv, Typed, Data, PickedRanges
<1>3. r \in HourRange /\ r.start < r.end
  BY <1>1, <1>2, WizardAssumption DEF HourRange
<1> HIDE DEF r
<1>4. rs \in Seq(HourRange) /\ WellFormed(rs)
  BY <1>1, <1>2, <1>3, Appended
<1> HIDE DEF rs
<1>5. SameDraft([data EXCEPT !.ranges = rs, !.needed = rs, !.pending = 0])
  BY <1>4, Edited
<1>6. state' \in States
  BY <1>1 DEF IInv, Typed
<1> QED BY <1>1, <1>5, <1>6, DialogKeeps

LEMMA AddAnotherKeeps ==
  ASSUME IInv, AddAnother
  PROVE  IInv'
<1>1. SameDraft(data)
  BY DEF IInv, Typed, PickedRanges, SameDraft
<1>2. SameDraft(RangeFlow(data, FALSE))
  BY <1>1, Flowed
<1>3. state' \in States
  BY Defaults, WizardAssumption DEF AddAnother
<1> QED BY <1>2, <1>3, DialogKeeps DEF AddAnother

LEMMA RangesDoneKeeps ==
  ASSUME IInv, RangesDone
  PROVE  IInv'
<1>1. SameDraft(data) /\ SameDraft([data EXCEPT !.editing = NoField])
  BY Edited, Defaults DEF IInv, Typed, PickedRanges, SameDraft
<1>2. state' \in States /\ SameDraft(data')
  BY <1>1, Defaults, WizardAssumption DEF RangesDone, Finalize
<1> QED BY <1>2, DialogKeeps DEF RangesDone

LEMMA RangeBackPrevKeeps ==
  ASSUME IInv, RangeBackPrev
  PROVE  IInv'
<1>1. SameDraft(data)
  BY DEF IInv, Typed, PickedRanges, SameDraft
<1>2. SameDraft(RangeFlow(data, TRUE))
  BY <1>1, Flowed
<1>3. state' \in States /\ SameDraft(data')
  BY <1>1, <1>2, Defaults, WizardAssumption DEF RangeBackPrev
<1> QED BY <1>3, DialogKeeps DEF RangeBackPrev

LEMMA RangeBackSummaryKeeps ==
  ASSUME IInv, RangeBackSummary
  PROVE  IInv'
<1> DEFINE n    == Len(data.ranges)
           rest == SubSeq(data.ranges, 1, n - 1)
           h    == data.ranges[n].start
<1>1. /\ data.ranges # <<>> /\ state' = state /\ UNCHANGED Others
      /\ data' = [data EXCEPT !.ranges = rest, !.needed = rest, !.pending = h]
  BY DEF RangeBackSummary
<1>2. data.ranges \in Seq(HourRange) /\ WellFormed(data.ranges)
  BY DEF IInv, Typed, Data, PickedRanges
<1>3. rest \in Seq(HourRange) /\ WellFormed(rest) /\ data.ranges[n] \in HourRange
  BY <1>1, <1>2, Shortened
<1>4. h \in Hours
  BY <1>3 DEF HourRange
<1> HIDE DEF rest, h
<1>5. SameDraft([data EXCEPT !.ranges = rest, !.needed = rest, !.pending = h])
  BY <1>3, <1>4, Edited
<1>6. state' \in States
  BY <1>1 DEF IInv, Typed
<1> QED BY <1>1, <1>5, <1>6, DialogKeeps

LEMMA PickEditFieldKeeps ==
  ASSUME IInv, NEW f \in Fields, PickEditField(f)
  PROVE  IInv'
<1>1. CASE Clear
  BY <1>1, ClearKeeps
<1>2. CASE ValidDraft(data)
  <2>1. SameDraft([data EXCEPT !.editing = f])
    BY Edited
  <2>2. SameDraft(RangeFlow([data EXCEPT !.editing = f], TRUE))
    BY <2>1, Flowed
  <2>3. UNCHANGED Others /\ SameDraft(data') /\ state' \in States
    BY <1>2, <2>1, <2>2, Defaults, WizardAssumption DEF PickEditField, OrNotFound
  <2> QED BY <2>3, DialogKeeps
<1> QED BY <1>1, <1>2 DEF PickEditField, OrNotFound

LEMMA EditValueKeeps ==
  ASSUME IInv, NEW given \in BOOLEAN, EditValue(given)
  PROVE  IInv'
<1>1. CASE Clear
  BY <1>1, ClearKeeps
<1>2. CASE ~Clear
  <2> DEFINE filled == Filled(data.editing)
             d1     == [data EXCEPT !.filled = filled]
  <2>1. /\ data.editing \in Fields
        /\ data' = [data EXCEPT !.filled = filled, !.editing = NoField]
        /\ state' = "none" /\ UNCHANGED Others
    BY <1>2 DEF EditValue, OrNotFound
  <2>2. SameDraft(d1) /\ data \in Data
    BY <2>1, Edited
  <2>3. data' = [d1 EXCEPT !.editing = NoField]
    BY <2>1 DEF Data
  <2>4. d1 \in Data /\ d1.draft = data.draft /\ d1.filled = filled /\ d1.ranges = data.ranges
        /\ d1.needed = data.needed
    BY <2>2 DEF SameDraft, Data
  <2> HIDE DEF d1
  <2>5. /\ data' \in Data /\ data'.draft = d1.draft /\ data'.filled = d1.filled
        /\ data'.ranges = d1.ranges /\ data'.needed = d1.needed
    BY <2>3, <2>4, Defaults DEF Data
  <2>6. "full_name" \in filled => "full_name" \in data.filled
    BY <2>1, Defaults DEF Filled
  <2>7. SameDraft(data')
    BY <2>2, <2>4, <2>5, <2>6 DEF SameDraft
  <2> QED BY <2>1, <2>7, Defaults, DialogKeeps
<1> QED BY <1>1, <1>2

-----------------------------------------------------------------------------
(* Handlers that take more than one step *)

\* The parts of the invariant that look at handlers, for a handler that ends or
\* that has not read a draft.
LEMMA LeavesNoTrace ==
  ASSUME IInv, NEW t \in Taps, NEW u \in Tap,
         u.at \notin Submission, u.request <= Len(requests),
         tap' = [tap EXCEPT ![t] = u],
         UNCHANGED <<drafts, requests, repeated>>
  PROVE  /\ tap' \in [Taps -> Tap]
         /\ \A v \in Taps : tap'[v].request <= Len(requests)
         /\ \A v \in Taps : tap'[v].at \in Submission =>
              tap'[v].draft.draft > 0 /\ tap'[v].draft.draft <= drafts
         /\ ReadySound' /\ SubmittedSound' /\ Single' /\ SavedOnce'
<1>1. tap \in [Taps -> Tap]
  BY DEF IInv, Typed
<1>2. \A v \in Taps : IF v = t THEN tap'[v] = u ELSE tap'[v] = tap[v]
  BY <1>1
<1>3. tap' \in [Taps -> Tap]
  BY <1>1
<1>4. \A v \in Taps : tap'[v].at \in Submission => v # t /\ tap'[v] = tap[v]
  BY <1>2
<1>5. \A v \in Taps : tap'[v].request <= Len(requests)
  BY <1>2 DEF IInv, Typed
<1>6. \A v \in Taps : tap'[v].at \in Submission =>
        tap'[v].draft.draft > 0 /\ tap'[v].draft.draft <= drafts
  BY <1>4 DEF IInv, Numbered
<1>7. ReadySound'
  BY <1>4 DEF IInv, ReadySound, Submission
<1>8. Single'
  <2> SUFFICES ASSUME NEW v \in Taps, tap'[v].at \in Submission,
                      tap'[v].draft.draft \notin repeated
               PROVE  /\ \A w \in Taps : w # v /\ tap'[w].at \in Submission =>
                           tap'[w].draft.draft # tap'[v].draft.draft
                      /\ \A q \in DOMAIN requests : requests[q].draft = tap'[v].draft.draft =>
                           tap'[v].at # "create" /\ q = tap'[v].request
    BY DEF Single, OnlyOne
  <2>1. tap'[v] = tap[v]
    BY <1>4
  <2> QED BY <1>4, <2>1 DEF IInv, Single, OnlyOne
<1>9. SubmittedSound' /\ SavedOnce'
  BY DEF IInv, SubmittedSound, SavedOnce
<1> QED BY <1>3, <1>5, <1>6, <1>7, <1>8, <1>9

\* Taps at rest, and a handler that is between the rules and the first field.
LEMMA Rest ==
  /\ Idle \in Tap /\ Idle.at \notin Submission /\ Idle.request = 0
BY NoRanges, Defaults DEF Idle, NoDraft, Tap, Stages, Submission, Draft

\* A handler ends and the dialog stays.
LEMMA EndKeeps ==
  ASSUME IInv, NEW t \in Taps, tap' = [tap EXCEPT ![t] = Idle],
         UNCHANGED <<state, data, drafts, requests, repeated>>
  PROVE  IInv'
<1>1. Len(requests) \in Nat
  BY LenProperties DEF IInv, Typed
<1>2. Idle.request <= Len(requests)
  BY <1>1, Rest
<1>3. /\ tap' \in [Taps -> Tap]
      /\ \A v \in Taps : tap'[v].request <= Len(requests)
      /\ \A v \in Taps : tap'[v].at \in Submission =>
           tap'[v].draft.draft > 0 /\ tap'[v].draft.draft <= drafts
      /\ ReadySound' /\ SubmittedSound' /\ Single' /\ SavedOnce'
  BY <1>2, Rest, LeavesNoTrace
<1>4. Typed' /\ PickedRanges' /\ Reviewed'
  BY <1>3 DEF IInv, Typed, PickedRanges, Reviewed
<1>5. Numbered'
  BY <1>3 DEF IInv, Numbered
<1> QED BY <1>3, <1>4, <1>5 DEF IInv

LEMMA RulesAgreeKeeps ==
  ASSUME IInv, NEW t \in Taps, RulesAgree(t)
  PROVE  IInv'
<1> DEFINE u == [Idle EXCEPT !.at = "begin"]
<1>1. /\ tap[t] = Idle /\ state' = "none" /\ data' = Empty
      /\ tap' = [tap EXCEPT ![t].at = "begin"]
      /\ UNCHANGED <<drafts, requests, repeated>>
  BY DEF RulesAgree
<1>2. tap' = [tap EXCEPT ![t] = u]
  BY <1>1
<1>3. Len(requests) \in Nat
  BY LenProperties DEF IInv, Typed
<1>4. u \in Tap /\ u.at \notin Submission /\ u.request = 0
  <2>1. Idle \in Tap
    BY Rest
  <2>2. u = [at |-> "begin", draft |-> Idle.draft, request |-> 0]
    BY DEF Idle
  <2> QED BY <2>1, <2>2, Rest DEF Tap, Stages, Submission
<1> HIDE DEF u
<1>5. u.request <= Len(requests)
  BY <1>3, <1>4
<1>6. /\ tap' \in [Taps -> Tap]
      /\ \A v \in Taps : tap'[v].request <= Len(requests)
      /\ \A v \in Taps : tap'[v].at \in Submission =>
           tap'[v].draft.draft > 0 /\ tap'[v].draft.draft <= drafts
      /\ ReadySound' /\ SubmittedSound' /\ Single' /\ SavedOnce'
  BY <1>1, <1>2, <1>4, <1>5, LeavesNoTrace
<1>7. data'.draft = 0 /\ data'.filled = {} /\ data'.ranges = <<>> /\ data'.needed = <<>>
  BY <1>1 DEF Empty
<1>8. Typed' /\ PickedRanges'
  BY <1>1, <1>6, <1>7, Defaults, NoRanges DEF IInv, Typed, PickedRanges
<1>9. drafts \in Nat
  BY WizardAssumption DEF IInv, Typed
<1>10. Numbered' /\ Reviewed'
  BY <1>1, <1>6, <1>7, <1>9 DEF IInv, Numbered, Reviewed
<1> QED BY <1>6, <1>8, <1>10 DEF IInv

LEMMA BeginWizardKeeps ==
  ASSUME IInv, NEW t \in Taps, BeginWizard(t)
  PROVE  IInv'
<1>1. /\ drafts < MaxDrafts /\ drafts' = drafts + 1
      /\ data' = [Empty EXCEPT !.filled = {"full_name"}, !.editing = data.editing,
                               !.draft = drafts + 1]
      /\ state' = CREATE_FLOW[1]
      /\ tap' = [tap EXCEPT ![t] = Idle]
      /\ requests' = requests /\ repeated' = repeated
  BY DEF BeginWizard
<1>2. drafts \in Nat /\ MaxDrafts \in Nat /\ Len(requests) \in Nat
  BY WizardAssumption, LenProperties DEF IInv, Typed
<1>3. /\ data' \in Data /\ data'.draft = drafts + 1
      /\ data'.ranges = <<>> /\ data'.needed = <<>>
  <2>1. data' = [filled |-> {"full_name"}, ranges |-> <<>>, needed |-> <<>>,
                 pending |-> 0, editing |-> data.editing, draft |-> drafts + 1]
    BY <1>1 DEF Empty
  <2>2. data.editing \in Fields \cup {NoField}
    BY DEF IInv, Typed, Data
  <2> QED BY <1>2, <2>1, <2>2, Defaults, NoRanges DEF Data
<1>4. state' \in States
  <2>1. 1 \in DOMAIN CREATE_FLOW
    <3>1. "comments" \in Fields
      BY WizardAssumption
    <3>2. DOMAIN CREATE_FLOW = 1..Len(CREATE_FLOW) /\ Len(CREATE_FLOW) \in Nat
      BY WizardAssumption, LenProperties
    <3>3. PICK i \in DOMAIN CREATE_FLOW : CREATE_FLOW[i] = "comments"
      BY <3>1 DEF Fields
    <3> QED BY <3>2, <3>3
  <2> QED BY <1>1, <2>1 DEF States, Fields
<1>5. tap \in [Taps -> Tap]
  BY DEF IInv, Typed
<1>6. \A v \in Taps : IF v = t THEN tap'[v] = Idle ELSE tap'[v] = tap[v]
  BY <1>1, <1>5
<1>7. \A v \in Taps : tap'[v].at \in Submission => v # t /\ tap'[v] = tap[v]
  BY <1>6, Rest
<1>8. drafts' \in 0..MaxDrafts
  BY <1>1, <1>2
<1>9. Typed' /\ PickedRanges'
  <2>1. tap' \in [Taps -> Tap]
    BY <1>1, <1>5, Rest
  <2>2. \A v \in Taps : tap'[v].request <= Len(requests)
    BY <1>2, <1>6, Rest DEF IInv, Typed
  <2> QED BY <1>1, <1>3, <1>4, <1>8, <2>1, <2>2, NoRanges DEF IInv, Typed, PickedRanges
<1>10. Numbered'
  <2>1. \A v \in Taps : tap'[v].at \in Submission =>
          tap'[v].draft.draft > 0 /\ tap'[v].draft.draft <= drafts + 1
    <3> SUFFICES ASSUME NEW v \in Taps, tap'[v].at \in Submission
                 PROVE  tap'[v].draft.draft > 0 /\ tap'[v].draft.draft <= drafts + 1
      OBVIOUS
    <3>1. tap'[v] = tap[v] /\ tap[v].at \in Submission
      BY <1>7
    <3>2. tap[v].draft.draft \in Nat
      BY <1>5 DEF Tap, Draft
    <3>3. tap[v].draft.draft > 0 /\ tap[v].draft.draft <= drafts
      BY <3>1 DEF IInv, Numbered
    <3> QED BY <1>2, <3>1, <3>2, <3>3
  <2>2. \A q \in DOMAIN requests : requests[q].draft > 0 /\ requests[q].draft <= drafts + 1
    <3> SUFFICES ASSUME NEW q \in DOMAIN requests
                 PROVE  requests[q].draft > 0 /\ requests[q].draft <= drafts + 1
      OBVIOUS
    <3>1. requests[q] \in Request
      BY ElementOfSeq, LenProperties DEF IInv, Typed
    <3>2. requests[q].draft \in Nat
      BY <3>1 DEF Request
    <3>3. requests[q].draft > 0 /\ requests[q].draft <= drafts
      BY DEF IInv, Numbered
    <3> QED BY <1>2, <3>2, <3>3
  <2> QED BY <1>1, <1>2, <1>3, <2>1, <2>2 DEF Numbered
<1>11. Reviewed'
  <2>1. \A q \in DOMAIN requests : requests[q].draft # drafts + 1
    <3> SUFFICES ASSUME NEW q \in DOMAIN requests PROVE requests[q].draft # drafts + 1
      OBVIOUS
    <3>1. requests[q] \in Request
      BY ElementOfSeq, LenProperties DEF IInv, Typed
    <3>2. requests[q].draft \in Nat
      BY <3>1 DEF Request
    <3>3. requests[q].draft <= drafts
      BY DEF IInv, Numbered
    <3> QED BY <1>2, <3>2, <3>3
  <2> QED BY <1>1, <1>3, <2>1 DEF Reviewed
<1>12. ReadySound'
  BY <1>7 DEF IInv, ReadySound, Submission
<1>13. Single'
  <2> SUFFICES ASSUME NEW v \in Taps, tap'[v].at \in Submission,
                      tap'[v].draft.draft \notin repeated
               PROVE  /\ \A w \in Taps : w # v /\ tap'[w].at \in Submission =>
                           tap'[w].draft.draft # tap'[v].draft.draft
                      /\ \A q \in DOMAIN requests : requests[q].draft = tap'[v].draft.draft =>
                           tap'[v].at # "create" /\ q = tap'[v].request
    BY <1>1 DEF Single, OnlyOne
  <2>1. tap'[v] = tap[v]
    BY <1>7
  <2> QED BY <1>7, <2>1 DEF IInv, Single, OnlyOne
<1>14. SubmittedSound' /\ SavedOnce'
  BY <1>1 DEF IInv, SubmittedSound, SavedOnce
<1> QED BY <1>9, <1>10, <1>11, <1>12, <1>13, <1>14 DEF IInv

\* What there is of a row, and of a handler.
LEMMA Rows ==
  ASSUME IInv
  PROVE  /\ Len(requests) \in Nat /\ DOMAIN requests = 1..Len(requests)
         /\ \A q \in DOMAIN requests :
              /\ requests[q] \in Request /\ requests[q].draft \in Nat
              /\ requests[q].draft > 0 /\ requests[q].draft <= drafts
         /\ drafts \in Nat /\ MaxDrafts \in Nat /\ drafts <= MaxDrafts
         /\ tap \in [Taps -> Tap]
         /\ \A t \in Taps : tap[t] \in Tap /\ tap[t].draft \in Draft
                            /\ tap[t].draft.draft \in Nat /\ tap[t].request \in Nat
<1>1. Len(requests) \in Nat /\ DOMAIN requests = 1..Len(requests)
  BY LenProperties DEF IInv, Typed
<1>2. \A q \in DOMAIN requests : requests[q] \in Request
  BY <1>1, ElementOfSeq DEF IInv, Typed
<1>3. \A q \in DOMAIN requests : requests[q].draft \in Nat
  BY <1>2 DEF Request
<1>4. drafts \in Nat /\ MaxDrafts \in Nat /\ drafts <= MaxDrafts
  BY WizardAssumption DEF IInv, Typed
<1>5. tap \in [Taps -> Tap]
  BY DEF IInv, Typed
<1>6. \A t \in Taps : tap[t] \in Tap /\ tap[t].draft \in Draft /\ tap[t].request \in Nat
  BY <1>5 DEF Tap
<1>7. \A t \in Taps : tap[t].draft.draft \in Nat
  BY <1>6 DEF Draft
<1> QED BY <1>1, <1>2, <1>3, <1>4, <1>5, <1>6, <1>7 DEF IInv, Numbered

\* A draft is read: unless it is now repeated, no other handler has it and the
\* table has nothing of it.
LEMMA SubmitStartKeeps ==
  ASSUME IInv, NEW t \in Taps, SubmitStart(t)
  PROVE  IInv'
<1>1. CASE Clear
  BY <1>1, ClearKeeps
<1>2. CASE ValidDraft(data) /\ ~Clear
  <2> DEFINE u == [at |-> "create", draft |-> Read, request |-> 0]
             again == \/ Submitting(data.draft)
                      \/ \E q \in Created(data.draft) : ~requests[q].review
  <2>1. /\ tap[t] = Idle /\ tap' = [tap EXCEPT ![t] = u]
        /\ repeated' = IF again THEN repeated \cup {data.draft} ELSE repeated
        /\ state' = state /\ data' = data /\ drafts' = drafts /\ requests' = requests
    BY <1>2 DEF SubmitStart, OrNotFound
  <2>2. /\ data \in Data /\ WellFormed(data.ranges) /\ data.ranges # <<>>
        /\ REQUIRED_DRAFT_FIELDS \subseteq data.filled
    BY <1>2 DEF IInv, Typed, PickedRanges, ValidDraft
  <2>3. data.draft \in Nat /\ data.draft > 0 /\ data.draft <= drafts
    BY <2>2, Defaults DEF IInv, Numbered, Data
  <2>4. u \in Tap /\ u.at = "create" /\ u.draft.draft = data.draft /\ u.request = 0
        /\ Sound(u.draft)
    BY <2>2 DEF Tap, Stages, Read, Draft, Data, Sound
  <2> HIDE DEF u
  <2>5. \A v \in Taps : IF v = t THEN tap'[v] = u ELSE tap'[v] = tap[v]
    BY <2>1, Rows
  <2>6. repeated' \subseteq 0..MaxDrafts /\ repeated \subseteq repeated'
    <3>1. data.draft \in 0..MaxDrafts
      BY <2>3, Rows
    <3>2. repeated \subseteq 0..MaxDrafts
      BY DEF IInv, Typed
    <3> HIDE DEF again
    <3> QED BY <2>1, <3>1, <3>2
  <2>7. Typed'
    <3>1. tap' \in [Taps -> Tap]
      BY <2>1, <2>4, Rows
    <3>2. \A v \in Taps : tap'[v].request <= Len(requests)
      BY <2>4, <2>5, Rows DEF IInv, Typed
    <3> QED BY <2>1, <2>6, <3>1, <3>2 DEF IInv, Typed
  <2>8. Numbered'
    <3>1. \A v \in Taps : tap'[v].at \in Submission =>
            tap'[v].draft.draft > 0 /\ tap'[v].draft.draft <= drafts
      BY <2>3, <2>4, <2>5 DEF IInv, Numbered
    <3> QED BY <2>1, <3>1 DEF IInv, Numbered
  <2>9. ReadySound'
    BY <2>4, <2>5 DEF IInv, ReadySound
  <2>10. PickedRanges' /\ SubmittedSound' /\ Reviewed'
    BY <2>1 DEF IInv, PickedRanges, SubmittedSound, Reviewed
  <2>11. SavedOnce'
    BY <2>1, <2>6 DEF IInv, SavedOnce
  <2>12. ASSUME NEW v \in Taps, tap'[v].at \in Submission, tap'[v].draft.draft \notin repeated'
         PROVE  /\ \A w \in Taps : w # v /\ tap'[w].at \in Submission =>
                     tap'[w].draft.draft # tap'[v].draft.draft
                /\ \A q \in DOMAIN requests : requests[q].draft = tap'[v].draft.draft =>
                     tap'[v].at # "create" /\ q = tap'[v].request
    <3>1. CASE v = t
      <4>1. tap'[v] = u /\ data.draft \notin repeated'
        BY <2>4, <2>5, <2>12, <3>1
      <4>2. ~again
        BY <2>1, <4>1
      <4>3. ~Submitting(data.draft) /\ \A q \in Created(data.draft) : requests[q].review
        BY <4>2
      <4> HIDE DEF again
      <4>4. \A w \in Taps : w # v /\ tap'[w].at \in Submission => tap'[w].draft.draft # data.draft
        BY <2>5, <3>1, <4>3 DEF Submitting, Submission
      <4>5. \A q \in DOMAIN requests : requests[q].draft # data.draft
        BY <4>3 DEF Created, IInv, Reviewed
      <4> QED BY <2>4, <4>1, <4>4, <4>5
    <3>2. CASE v # t
      <4>1. tap'[v] = tap[v] /\ tap[v].draft.draft \notin repeated
        BY <2>5, <2>6, <2>12, <3>2
      <4>2. tap[v].draft.draft # data.draft
        <5>1. SUFFICES ASSUME tap[v].draft.draft = data.draft PROVE FALSE
          OBVIOUS
        <5>2. Submitting(data.draft)
          BY <2>12, <4>1, <5>1 DEF Submitting, Submission
        <5>3. data.draft \in repeated'
          BY <2>1, <5>2
        <5> QED BY <2>12, <4>1, <5>1, <5>3
      <4>3. \A w \in Taps : w # v /\ tap'[w].at \in Submission =>
              tap'[w].draft.draft # tap'[v].draft.draft
        BY <2>4, <2>5, <2>12, <4>1, <4>2 DEF IInv, Single, OnlyOne
      <4>4. \A q \in DOMAIN requests : requests[q].draft = tap'[v].draft.draft =>
              tap'[v].at # "create" /\ q = tap'[v].request
        BY <2>12, <4>1 DEF IInv, Single, OnlyOne
      <4> QED BY <4>3, <4>4
    <3> QED BY <3>1, <3>2
  <2>13. Single'
    BY <2>1, <2>12 DEF Single, OnlyOne
  <2> QED BY <2>7, <2>8, <2>9, <2>10, <2>11, <2>13 DEF IInv
<1> QED BY <1>1, <1>2 DEF SubmitStart, OrNotFound

\* The row is added: it is the first of its draft unless that was repeated.
LEMMA SubmitCreateKeeps ==
  ASSUME IInv, NEW t \in Taps, SubmitCreate(t)
  PROVE  IInv'
<1> DEFINE d   == tap[t].draft
           row == [filled |-> d.filled, ranges |-> d.ranges, draft |-> d.draft,
                   review |-> FALSE]
           n   == Len(requests) + 1
<1>1. /\ tap[t].at = "create"
      /\ requests' = Append(requests, row)
      /\ tap' = [tap EXCEPT ![t].at = "announce", ![t].draft.filled = {},
                            ![t].draft.ranges = <<>>, ![t].request = n]
      /\ state' = state /\ data' = data /\ drafts' = drafts /\ repeated' = repeated
  BY DEF SubmitCreate
<1>2. d \in Draft /\ Sound(d) /\ d.draft > 0 /\ d.draft <= drafts
  BY <1>1, Rows DEF IInv, ReadySound, Numbered, Submission
<1>3. /\ row \in Request /\ row.draft = d.draft /\ row.filled = d.filled
      /\ row.ranges = d.ranges /\ ~row.review
  BY <1>2 DEF Request, Draft
<1> HIDE DEF row
<1>4. /\ requests' \in Seq(Request) /\ Len(requests') = n /\ DOMAIN requests' = 1..n
      /\ \A q \in DOMAIN requests : requests'[q] = requests[q]
      /\ requests'[n] = row
  BY <1>1, <1>3, Rows, AppendProperties, LenProperties DEF IInv, Typed
<1>5. DOMAIN requests' = DOMAIN requests \cup {n} /\ n \notin DOMAIN requests /\ n \in Nat
  BY <1>4, Rows
<1>6. /\ tap'[t].at = "announce" /\ tap'[t].draft.draft = d.draft /\ tap'[t].request = n
      /\ tap'[t] \in Tap
      /\ \A v \in Taps : v # t => tap'[v] = tap[v]
  <2>1. tap[t] \in Tap /\ tap \in [Taps -> Tap]
    BY Rows
  <2>2. tap'[t] = [[[[tap[t] EXCEPT !.at = "announce"] EXCEPT !.draft.filled = {}]
                     EXCEPT !.draft.ranges = <<>>] EXCEPT !.request = n]
    BY <1>1, <2>1
  <2>3. tap'[t] = [at |-> "announce", request |-> n,
                   draft |-> [filled |-> {}, ranges |-> <<>>, draft |-> d.draft]]
    BY <1>2, <2>1, <2>2, ZenonT(60) DEF Tap, Draft
  <2>4. \A v \in Taps : v # t => tap'[v] = tap[v]
    BY <1>1, <2>1
  <2> QED BY <1>2, <1>5, <2>3, <2>4, NoRanges DEF Tap, Stages, Draft
<1>7. tap' \in [Taps -> Tap] /\ \A v \in Taps : tap'[v].request <= n
  <2>1. tap' \in [Taps -> Tap]
    BY <1>1, <1>6, Rows
  <2>2. \A v \in Taps : tap[v].request <= Len(requests) /\ tap[v].request \in Nat
    BY Rows DEF IInv, Typed
  <2>3. \A v \in Taps : tap'[v].request <= n
    BY <1>5, <1>6, <2>2, Rows
  <2> QED BY <2>1, <2>3
<1>8. Typed' /\ PickedRanges'
  BY <1>1, <1>4, <1>7 DEF IInv, Typed, PickedRanges
<1>9. Numbered'
  <2>1. \A v \in Taps : tap'[v].at \in Submission =>
          tap'[v].draft.draft > 0 /\ tap'[v].draft.draft <= drafts
    BY <1>2, <1>6 DEF IInv, Numbered
  <2>2. \A q \in DOMAIN requests' : requests'[q].draft > 0 /\ requests'[q].draft <= drafts
    BY <1>2, <1>3, <1>4, <1>5, Rows
  <2> QED BY <1>1, <2>1, <2>2 DEF IInv, Numbered
<1>10. ReadySound'
  BY <1>6 DEF IInv, ReadySound
<1>11. SubmittedSound'
  BY <1>2, <1>3, <1>4, <1>5 DEF IInv, SubmittedSound, Sound
<1>12. Reviewed'
  BY <1>1, <1>3, <1>4, <1>5 DEF IInv, Reviewed
<1>13. d.draft \notin repeated =>
         /\ \A v \in Taps : v # t /\ tap[v].at \in Submission => tap[v].draft.draft # d.draft
         /\ \A q \in DOMAIN requests : requests[q].draft # d.draft
  BY <1>1 DEF IInv, Single, OnlyOne, Submission
<1>14. SavedOnce'
  <2> SUFFICES ASSUME NEW q \in DOMAIN requests', NEW r \in DOMAIN requests',
                      requests'[q].draft = requests'[r].draft,
                      requests'[q].draft \notin repeated
               PROVE  q = r
    BY <1>1 DEF SavedOnce
  <2>1. CASE q \in DOMAIN requests /\ r \in DOMAIN requests
    BY <1>4, <2>1 DEF IInv, SavedOnce
  <2>2. CASE q = n /\ r \in DOMAIN requests
    BY <1>3, <1>4, <1>13, <2>2
  <2>3. CASE q \in DOMAIN requests /\ r = n
    BY <1>3, <1>4, <1>13, <2>3
  <2> QED BY <1>5, <2>1, <2>2, <2>3
<1>15. Single'
  <2> SUFFICES ASSUME NEW v \in Taps, tap'[v].at \in Submission,
                      tap'[v].draft.draft \notin repeated
               PROVE  /\ \A w \in Taps : w # v /\ tap'[w].at \in Submission =>
                           tap'[w].draft.draft # tap'[v].draft.draft
                      /\ \A q \in DOMAIN requests' :
                           requests'[q].draft = tap'[v].draft.draft =>
                             tap'[v].at # "create" /\ q = tap'[v].request
    BY <1>1 DEF Single, OnlyOne
  <2>1. CASE v = t
    <3>1. \A w \in Taps : w # v /\ tap'[w].at \in Submission =>
            tap'[w].draft.draft # tap'[v].draft.draft
      BY <1>6, <1>13, <2>1
    <3>2. \A q \in DOMAIN requests' : requests'[q].draft = tap'[v].draft.draft =>
            tap'[v].at # "create" /\ q = tap'[v].request
      BY <1>4, <1>5, <1>6, <1>13, <2>1
    <3> QED BY <3>1, <3>2
  <2>2. CASE v # t
    <3>1. tap'[v] = tap[v] /\ tap[v].at \in Submission /\ tap[v].draft.draft \notin repeated
      BY <1>6, <2>2
    <3>2. tap[v].draft.draft # d.draft
      BY <1>1, <2>2, <3>1 DEF IInv, Single, OnlyOne, Submission
    <3>3. \A w \in Taps : w # v /\ tap'[w].at \in Submission =>
            tap'[w].draft.draft # tap'[v].draft.draft
      BY <1>6, <3>1, <3>2 DEF IInv, Single, OnlyOne
    <3>4. \A q \in DOMAIN requests' : requests'[q].draft = tap'[v].draft.draft =>
            tap'[v].at # "create" /\ q = tap'[v].request
      <4>1. \A q \in DOMAIN requests : requests[q].draft = tap[v].draft.draft =>
              tap[v].at # "create" /\ q = tap[v].request
        BY <3>1 DEF IInv, Single, OnlyOne
      <4>2. requests'[n].draft # tap[v].draft.draft
        BY <1>3, <1>4, <3>2
      <4> QED BY <1>4, <1>5, <3>1, <4>1, <4>2
    <3> QED BY <3>3, <3>4
  <2> QED BY <2>1, <2>2, SMTT(60)
<1> QED BY <1>8, <1>9, <1>10, <1>11, <1>12, <1>14, <1>15 DEF IInv

LEMMA SubmitAnnounceKeeps ==
  ASSUME IInv, NEW t \in Taps, SubmitAnnounce(t)
  PROVE  IInv'
<1>1. /\ tap[t].at = "announce"
      /\ tap' = [tap EXCEPT ![t] = [tap[t] EXCEPT !.at = "finish"]]
      /\ UNCHANGED <<state, data, drafts, requests, repeated>>
  BY DEF SubmitAnnounce
<1>2. /\ \A v \in Taps : v # t => tap'[v] = tap[v]
      /\ tap'[t].at = "finish" /\ tap'[t].draft = tap[t].draft
      /\ tap'[t].request = tap[t].request /\ tap'[t] \in Tap
  BY <1>1, Rows DEF Tap, Stages
<1>3. tap' \in [Taps -> Tap]
  BY <1>1, <1>2, Rows
<1>4. \A v \in Taps : /\ tap'[v].draft = tap[v].draft /\ tap'[v].request = tap[v].request
                      /\ tap'[v].at \in Submission <=> tap[v].at \in Submission
                      /\ tap'[v].at = "create" <=> tap[v].at = "create"
  <2> SUFFICES ASSUME NEW v \in Taps
               PROVE  /\ tap'[v].draft = tap[v].draft /\ tap'[v].request = tap[v].request
                      /\ tap'[v].at \in Submission <=> tap[v].at \in Submission
                      /\ tap'[v].at = "create" <=> tap[v].at = "create"
    OBVIOUS
  <2>1. CASE v = t
    BY <1>1, <1>2, <2>1 DEF Submission
  <2>2. CASE v # t
    BY <1>2, <2>2
  <2> QED BY <2>1, <2>2
<1>5. Typed' /\ PickedRanges' /\ Reviewed' /\ SubmittedSound' /\ SavedOnce'
  BY <1>1, <1>3, <1>4 DEF IInv, Typed, PickedRanges, Reviewed, SubmittedSound, SavedOnce
<1>6. Numbered' /\ ReadySound'
  BY <1>1, <1>4 DEF IInv, Numbered, ReadySound
<1>7. Single'
  BY <1>1, <1>4 DEF IInv, Single, OnlyOne
<1> QED BY <1>5, <1>6, <1>7 DEF IInv

\* The request is marked as shown to the admins, and the dictionary goes.
LEMMA SubmitFinishKeeps ==
  ASSUME IInv, NEW t \in Taps, SubmitFinish(t)
  PROVE  IInv'
<1> DEFINE shown == [requests EXCEPT ![tap[t].request].review = TRUE]
<1>1. /\ requests' = shown /\ state' = "none" /\ data' = Empty
      /\ tap' = [tap EXCEPT ![t] = Idle]
      /\ drafts' = drafts /\ repeated' = repeated
  BY DEF SubmitFinish
<1>2. \A q \in DOMAIN requests :
        /\ shown[q] \in Request
        /\ shown[q].draft = requests[q].draft /\ shown[q].filled = requests[q].filled
        /\ shown[q].ranges = requests[q].ranges
  BY Rows DEF Request
<1>3. shown \in Seq(Request) /\ Len(shown) = Len(requests) /\ DOMAIN shown = DOMAIN requests
  <2>1. DOMAIN shown = 1..Len(requests)
    BY Rows
  <2>2. shown \in [1..Len(requests) -> Request]
    BY <1>2, <2>1, Rows
  <2>3. shown \in Seq(Request)
    BY <2>2, Rows, SeqDef
  <2> QED BY <2>1, <2>3, Rows, LenProperties
<1> HIDE DEF shown
<1>4. \A v \in Taps : IF v = t THEN tap'[v] = Idle ELSE tap'[v] = tap[v]
  BY <1>1, Rows
<1>5. \A v \in Taps : tap'[v].at \in Submission => v # t /\ tap'[v] = tap[v]
  BY <1>4, Rest
<1>6. data'.draft = 0 /\ data'.filled = {} /\ data'.ranges = <<>> /\ data'.needed = <<>>
  BY <1>1 DEF Empty
<1>7. Typed' /\ PickedRanges'
  <2>1. tap' \in [Taps -> Tap]
    BY <1>1, Rows, Rest
  <2>2. \A v \in Taps : tap'[v].request <= Len(requests)
    BY <1>4, Rows, Rest DEF IInv, Typed
  <2> QED BY <1>1, <1>3, <1>6, <2>1, <2>2, Defaults, NoRanges DEF IInv, Typed, PickedRanges
<1>8. Numbered'
  <2>1. \A v \in Taps : tap'[v].at \in Submission =>
          tap'[v].draft.draft > 0 /\ tap'[v].draft.draft <= drafts
    BY <1>5 DEF IInv, Numbered
  <2>2. \A q \in DOMAIN shown : shown[q].draft > 0 /\ shown[q].draft <= drafts
    BY <1>2, <1>3, Rows
  <2> QED BY <1>1, <1>6, <2>1, <2>2, Rows DEF Numbered
<1>9. Reviewed'
  BY <1>1, <1>2, <1>3, <1>6, Rows DEF Reviewed
<1>10. ReadySound'
  BY <1>5 DEF IInv, ReadySound, Submission
<1>11. SubmittedSound'
  BY <1>1, <1>2, <1>3 DEF IInv, SubmittedSound
<1>12. SavedOnce'
  BY <1>1, <1>2, <1>3 DEF IInv, SavedOnce
<1>13. Single'
  <2> SUFFICES ASSUME NEW v \in Taps, tap'[v].at \in Submission,
                      tap'[v].draft.draft \notin repeated
               PROVE  /\ \A w \in Taps : w # v /\ tap'[w].at \in Submission =>
                           tap'[w].draft.draft # tap'[v].draft.draft
                      /\ \A q \in DOMAIN shown : shown[q].draft = tap'[v].draft.draft =>
                           tap'[v].at # "create" /\ q = tap'[v].request
    BY <1>1 DEF Single, OnlyOne
  <2>1. tap'[v] = tap[v]
    BY <1>5
  <2> QED BY <1>2, <1>3, <1>5, <2>1 DEF IInv, Single, OnlyOne
<1> QED BY <1>7, <1>8, <1>9, <1>10, <1>11, <1>12, <1>13 DEF IInv

LEMMA CrashKeeps ==
  ASSUME IInv, Crash
  PROVE  IInv'
<1>1. /\ state' = "none" /\ data' = Empty /\ tap' = [t \in Taps |-> Idle]
      /\ drafts' = drafts /\ requests' = requests /\ repeated' = repeated
  BY DEF Crash
<1>2. \A t \in Taps : tap'[t] = Idle
  BY <1>1
<1>3. data'.draft = 0 /\ data'.filled = {} /\ data'.ranges = <<>> /\ data'.needed = <<>>
  BY <1>1 DEF Empty
<1>4. Typed' /\ PickedRanges'
  <2>1. tap' \in [Taps -> Tap]
    BY <1>1, Rest
  <2>2. \A v \in Taps : tap'[v].request <= Len(requests)
    BY <1>2, Rows, Rest
  <2> QED BY <1>1, <1>3, <2>1, <2>2, Defaults, NoRanges DEF IInv, Typed, PickedRanges
<1>5. Numbered' /\ Reviewed'
  BY <1>1, <1>2, <1>3, Rows, Rest DEF Numbered, Reviewed
<1>6. ReadySound' /\ Single'
  BY <1>2, Rest DEF ReadySound, Single, OnlyOne, Submission
<1>7. SubmittedSound' /\ SavedOnce'
  BY <1>1 DEF IInv, SubmittedSound, SavedOnce
<1> QED BY <1>4, <1>5, <1>6, <1>7 DEF IInv

-----------------------------------------------------------------------------
(* The theorems *)

LEMMA Start == Init => IInv
<1> SUFFICES ASSUME Init PROVE IInv
  OBVIOUS
<1>1. /\ state = "none" /\ data = Empty /\ tap = [t \in Taps |-> Idle]
      /\ drafts = 0 /\ requests = <<>> /\ repeated = {}
  BY DEF Init
<1>2. requests \in Seq(Request) /\ Len(requests) = 0 /\ DOMAIN requests = {}
  BY <1>1
<1>3. \A t \in Taps : tap[t] = Idle
  BY <1>1
<1>4. data.draft = 0 /\ data.filled = {} /\ data.ranges = <<>> /\ data.needed = <<>>
  BY <1>1 DEF Empty
<1>5. Typed /\ PickedRanges
  <2>1. tap \in [Taps -> Tap] /\ \A t \in Taps : tap[t].request <= Len(requests)
    BY <1>1, <1>2, <1>3, Rest
  <2>2. drafts \in 0..MaxDrafts
    BY <1>1, WizardAssumption
  <2> QED BY <1>1, <1>2, <1>4, <2>1, <2>2, Defaults, NoRanges DEF Typed, PickedRanges
<1>6. Numbered /\ ReadySound /\ SubmittedSound /\ Reviewed /\ Single /\ SavedOnce
  BY <1>1, <1>2, <1>3, <1>4, Rest
     DEF Numbered, ReadySound, SubmittedSound, Reviewed, Single, OnlyOne, SavedOnce,
         Submission
<1> QED BY <1>5, <1>6 DEF IInv

LEMMA Step == IInv /\ [Next]_vars => IInv'
<1> SUFFICES ASSUME IInv, [Next]_vars PROVE IInv'
  OBVIOUS
<1>1. CASE Button
  <2>1. CASE OpenMenu \/ Home \/ NewRules \/ Cancel \/ EditDetails
    BY <2>1, ClearKeeps DEF OpenMenu, Home, NewRules, Cancel, EditDetails
  <2>2. CASE AddAnother
    BY <2>2, AddAnotherKeeps
  <2>3. CASE RangesDone
    BY <2>3, RangesDoneKeeps
  <2>4. CASE RangeBackPrev
    BY <2>4, RangeBackPrevKeeps
  <2>5. CASE RangeBackSummary
    BY <2>5, RangeBackSummaryKeeps
  <2>6. CASE \E h \in Hours : PickStartHour(h) \/ PickEndHour(h)
    BY <2>6, PickStartHourKeeps, PickEndHourKeeps
  <2>7. CASE \E f \in Fields : PickEditField(f)
    BY <2>7, PickEditFieldKeeps
  <2> QED BY <1>1, <2>1, <2>2, <2>3, <2>4, <2>5, <2>6, <2>7 DEF Button
<1>2. CASE Message
  BY <1>2, EditValueKeeps, AdvanceWizardKeeps DEF Message
<1>3. CASE Crash
  BY <1>3, CrashKeeps
<1>4. CASE \E t \in Taps : RulesAgree(t) \/ SubmitStart(t) \/ Continue(t)
  <2> SUFFICES ASSUME NEW t \in Taps, RulesAgree(t) \/ SubmitStart(t) \/ Continue(t)
               PROVE  IInv'
    BY <1>4
  <2>1. CASE RulesAgree(t)
    BY <2>1, RulesAgreeKeeps
  <2>2. CASE SubmitStart(t)
    BY <2>2, SubmitStartKeeps
  <2>3. CASE BeginWizard(t)
    BY <2>3, BeginWizardKeeps
  <2>4. CASE RefuseWizard(t) \/ RefuseSubmit(t) \/ AnnounceFails(t)
    BY <2>4, EndKeeps DEF RefuseWizard, RefuseSubmit, AnnounceFails
  <2>5. CASE SubmitCreate(t)
    BY <2>5, SubmitCreateKeeps
  <2>6. CASE SubmitAnnounce(t)
    BY <2>6, SubmitAnnounceKeeps
  <2>7. CASE SubmitFinish(t)
    BY <2>7, SubmitFinishKeeps
  <2> QED BY <2>1, <2>2, <2>3, <2>4, <2>5, <2>6, <2>7 DEF Continue
<1>5. CASE UNCHANGED vars
  BY <1>5 DEF vars, IInv, Typed, PickedRanges, Numbered, ReadySound, SubmittedSound,
              Reviewed, Single, OnlyOne, SavedOnce
<1> QED BY <1>1, <1>2, <1>3, <1>4, <1>5 DEF Next

\* The strengthening is an invariant: the dialog, the handlers under way and
\* the table agree about which drafts have been saved.
THEOREM Invariant == Spec => []IInv
BY Start, Step, PTL DEF Spec

\* Every variable keeps its type.
THEOREM TypeCorrect == Spec => []TypeOK
<1>1. IInv => TypeOK
  <2> SUFFICES ASSUME IInv PROVE TypeOK
    OBVIOUS
  <2>1. \A t \in Taps : tap[t].request \in 0..Len(requests)
    BY Rows DEF IInv, Typed
  <2>2. \A t \in Taps : tap[t].at \in {"idle", "begin", "create", "announce", "finish"}
    BY Rows DEF Tap, Stages
  <2> QED BY <2>1, <2>2, Rows DEF IInv, Typed, TypeOK
<1> QED BY <1>1, Invariant, PTL

\* The ranges a member has picked are proper and disjoint and their text is
\* theirs, in whatever order buttons of old and new messages are tapped.
THEOREM RangesPicked == Spec => []PickedRanges
<1>1. IInv => PickedRanges
  BY DEF IInv
<1> QED BY <1>1, Invariant, PTL

\* A saved request is complete and its ranges are proper and disjoint,
\* although the handler saves what it read before its awaits.
THEOREM SubmissionSound == Spec => []SubmittedSound
<1>1. IInv => SubmittedSound
  BY DEF IInv
<1> QED BY <1>1, Invariant, PTL

\* A draft is saved at most once, but for a draft whose submission was repeated.
THEOREM SubmittedOnce == Spec => []DraftSubmittedOnce
<1>1. IInv => DraftSubmittedOnce
  <2> SUFFICES ASSUME IInv, NEW d \in 1..MaxDrafts, d \notin repeated
               PROVE  ~(Cardinality(Created(d)) > 1)
    BY DEF DraftSubmittedOnce
  <2>1. CASE Created(d) = {}
    <3>1. Cardinality(Created(d)) = 0
      BY <2>1, FS_EmptySet
    <3> QED BY <3>1
  <2>2. CASE Created(d) # {}
    <3>1. PICK q \in DOMAIN requests : requests[q].draft = d
      BY <2>2 DEF Created
    <3>2. Created(d) = {q}
      BY <3>1 DEF Created, IInv, SavedOnce
    <3>3. Cardinality(Created(d)) = 1
      BY <3>2, FS_Singleton
    <3> QED BY <3>3
  <2> QED BY <2>1, <2>2
<1> QED BY <1>1, Invariant, PTL
=============================================================================
