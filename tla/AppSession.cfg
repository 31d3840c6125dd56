SPECIFICATION SessionSpec
CONSTANTS
  Accounts = {a1}
  Requests = {r1, r2}
  MaxTokens = 4
  Devices = {d1, d2}
  NoRequest = NoRequest
  MaxUnheard = 1
SYMMETRY Symmetry
CONSTRAINT Bound
INVARIANTS
  SessionSurvives
CHECK_DEADLOCK FALSE
