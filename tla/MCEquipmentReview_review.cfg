\* Two handlers, one edit, one failure.
SPECIFICATION FairSpec
CONSTANTS
  a1 = a1
  i1 = i1
  i2 = i2
  Admins = {a1}
  NoAdmin = NoAdmin
  Handlers = {i1, i2}
  Lists <- TypedLists
  Requested <- Asked
  MaxEdits = 1
  MaxFaults = 1
INVARIANTS TypeOK VerdictStands RangesAgree ShownAsIs
PROPERTY DecisionTold
\* No admin has to look at the request.
CHECK_DEADLOCK FALSE
