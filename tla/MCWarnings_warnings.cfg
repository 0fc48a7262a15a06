\* One member, because no operation relates two; two handlers; requests enough
\* for three warnings, a ban, and a race with two more.
SPECIFICATION FairSpec
CONSTANTS
  p1 = p1
  p2 = p2
  Users = {ann}
  Handlers = {p1, p2}
  MaxRequests = 6
  Horizon = 2
INVARIANTS TypeOK BanCounted
PROPERTIES LimitBans BansEnd
\* Nobody has to make a request, and time may stand still.
CHECK_DEADLOCK FALSE
