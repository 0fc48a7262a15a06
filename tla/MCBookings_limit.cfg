\* Two members, two handlers, one week of two hours, everything a member
\* can ask; limit 1, so that every second booking is one too many.
SPECIFICATION Spec
CONSTANTS
  ann = ann
  ben = ben
  Users = {ann, ben}
  Nobody = Nobody
  Handlers = {p1, p2}
  Slots = {1, 2}
  Weeks = {1}
  WeekOf <- OneWeek
  KeyOf <- KeyEach
  WeekOpens <- Opens1
  Limit = 1
  Requests <- LimitRequests
  MaxBookings = 3
  MaxGifts = 1
  MaxSwaps = 1
  Horizon = 1
SYMMETRY HandlerSymmetry
INVARIANTS TypeOK CountHolds WeeklyLimit
PROPERTIES ImplementsLedger ImplementsTable
\* Nobody has to send another request.
CHECK_DEADLOCK FALSE
