\* Accounts, usernames, placeholders and grants, by two handlers.
SPECIFICATION Spec
CONSTANTS
  Accounts = {a, b}
  Names = {x, y}
  FullNames = {f, g}
  Handlers = {p, q}
  MaxRows = 3
  MaxRequests = 5
  NoAccount = NoAccount
  NoName = NoName
SYMMETRY Symmetry
INVARIANT AccessWasGranted
PROPERTY OutcomeAfterCommit
CHECK_DEADLOCK FALSE
