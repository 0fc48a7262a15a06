\* Two consecutive hours, two members, one crash; the early reminder goes out
\* one hour ahead, so that both kinds are due before either hour.
SPECIFICATION ReminderFairSpec
CONSTANTS
  ann = ann
  ben = ben
  Users = {ann, ben}
  Nobody = Nobody
  Handlers = {p1}
  Blocked = {ben}
  Hours = {1, 2}
  DayOf <- OneDay
  Ahead = 1
  MaxBookings = 2
  MaxLost = 1
  Horizon = 4
INVARIANTS ReminderTypeOK ToldOnce
PROPERTY NoneLeftDue
\* Nobody has to book, and time may stand still.
CHECK_DEADLOCK FALSE
