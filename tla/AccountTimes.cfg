SPECIFICATION Spec
CONSTANTS
  Requests = {r1, r2}
  Accounts = {a1}
  Limits <- SmallLimits
  Calls = {c1, c2, c3}
  Statuses = {active, inactive}
  MaxRecords = 4
  MaxTime = 4
SYMMETRY Symmetry
INVARIANTS GuessesAreCounted HistoryIsOneLine CleanUnlessOvertaken
PROPERTY WindowsRunOut
CHECK_DEADLOCK FALSE
