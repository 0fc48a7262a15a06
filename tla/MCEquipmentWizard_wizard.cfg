\* One draft, submitted by handlers that can overlap, ranges over three hours.
SPECIFICATION Spec
CONSTANTS
  CREATE_FLOW <- Flow
  t1 = t1
  t2 = t2
  Taps = {t1, t2}
  Hours = {1, 2, 3}
  MaxDrafts = 1
  MaxRequests = 2
  MaxRanges = 2
SYMMETRY Symmetry
INVARIANTS TypeOK PickedRanges SubmittedSound DraftSubmittedOnce
\* A member may leave the dialog.
CHECK_DEADLOCK FALSE
