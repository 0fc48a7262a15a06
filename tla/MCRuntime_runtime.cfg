SPECIFICATION Spec
CONSTANTS
  m1 = m1
  m2 = m2
  reset = reset
  geo = geo
  Requests = {m1, m2}
  ResetJob = reset
  OtherJobs = {geo}
  NoOne = NoOne
  Slots = 1
  Pool = 6
INVARIANTS PoolSuffices NothingLeaks JobExclusive
