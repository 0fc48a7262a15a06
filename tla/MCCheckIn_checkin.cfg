\* A chain of two hours, two members, one crash; two of the three phases in
\* which an absence can be recorded may be missed.
SPECIFICATION Spec
CONSTANTS
  ann = ann
  ben = ben
  Users = {ann, ben}
  Nobody = Nobody
  Handlers = {p1}
  Hours = {1, 2}
  DayOf <- OneDay
  MaxBookings = 2
  MaxFaults = 1
  Horizon = 6
  MaxMissed = 2
SYMMETRY UserSymmetry
CONSTRAINT OneMishap
INVARIANTS TypeOK ColumnsAgree PromptedOnce ResolvedInTime
\* Nobody has to book, and time ends.
CHECK_DEADLOCK FALSE
