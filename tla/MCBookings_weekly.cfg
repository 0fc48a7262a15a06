\* The same weekday and hour in two weeks, and everything an admin can do to
\* it; the second week opens when the first slot has started.
SPECIFICATION Spec
CONSTANTS
  ann = ann
  ben = ben
  Users = {ann, ben}
  Nobody = Nobody
  Handlers = {p1, p2}
  Slots = {1, 2}
  Weeks = {1, 2}
  WeekOf <- TwoWeeks
  WeekOpens <- Opens2
  KeyOf <- KeyOne
  Limit = 1
  Requests <- AdminRequests
  MaxBookings = 3
  MaxGifts = 0
  MaxSwaps = 0
  Horizon = 2
SYMMETRY HandlerSymmetry
PROPERTY RemovedForCause
\* Nobody has to send another request.
CHECK_DEADLOCK FALSE
