\* Two members, one week, two swap offers over the same two slots in either
\* direction, so that two acceptances may lock the bookings in opposite orders,
\* while bookings are removed and slots start.
SPECIFICATION FairSpec
CONSTANTS
  ann = ann
  ben = ben
  Users = {ann, ben}
  Nobody = Nobody
  Handlers = {p1, p2}
  Slots = {1, 2}
  Weeks = {1}
  WeekOf <- OneWeek
  WeekOpens <- Opens1
  KeyOf <- KeyEach
  Limit = 1
  Requests <- SwapRequests
  MaxBookings = 3
  MaxGifts = 0
  MaxSwaps = 2
  Horizon = 1
INVARIANT SwapRowsStable
PROPERTIES SwapDecidedOnce SwapExchanges ConsentedMove RequestEnds
\* Nobody has to send another request.
CHECK_DEADLOCK FALSE
