\* A cancellation and a swap of the same booking.
SPECIFICATION Spec
CONSTANTS
  ann = ann
  ben = ben
  Users = {ann, ben}
  Nobody = Nobody
  Handlers = {p1, p2}
  Slots = {1, 2}
  Weeks = {1}
  WeekOf <- OneWeek
  WeekOpens <- Opens1
  KeyOf <- KeyEach
  Limit = 1
  Requests <- CancelRaceRequests
  MaxBookings = 2
  MaxGifts = 0
  MaxSwaps = 1
  Horizon = 0
SYMMETRY HandlerSymmetry
PROPERTY CancelsOwn
\* Nobody has to send another request.
CHECK_DEADLOCK FALSE
