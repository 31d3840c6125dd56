SPECIFICATION Spec
CONSTANTS
  Employees = {ann}
  Calls = {c1, c2}
  Readers = {r1}
  MaxId = 3
  MaxNotices = 4
  MaxLimit = 2
  Lists <- ReadLists
SYMMETRY Symmetry
CONSTRAINT Bound
INVARIANTS OneSeatOnePending DecidedOnce LastWordHolds PagesMissNothing
PROPERTY NewcomersBelong
