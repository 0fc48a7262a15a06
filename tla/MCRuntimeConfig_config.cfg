\* Two readers, two writers, one typed text, one failure; settings live for two
\* steps of the clock, a query takes one at most.
SPECIFICATION Spec
CONSTANTS
  r1 = r1
  r2 = r2
  w1 = w1
  w2 = w2
  Numeric = {"weekly_limit"}
  ChatIds = {"admin_chat_id"}
  Days = {"Mon", "Tue"}
  Readers = {r1, r2}
  Writers = {w1, w2}
  Reads <- AskedFor
  NoOne = NoOne
  NoKey = NoKey
  TTL = 2
  Slow = 1
  MaxTime = 4
  MaxInputs = 1
  MaxFaults = 1
INVARIANTS TypeOK StaleBounded FreshAfterWrite
\* The clock stops at its bound.
CHECK_DEADLOCK FALSE
SYMMETRY Symmetry
CONSTRAINT DialogApart
