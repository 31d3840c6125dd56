SPECIFICATION ScreensSpec
CONSTANTS
  People = {ann, bob}
  Nobody = Nobody
  Calls = {c1, c2}
  PageSize = 1
  MaxExpenses = 2
  Dialogs = {d1, d2, d3}
  NoReference = NoReference
SYMMETRY Symmetry
CONSTRAINT Bound
INVARIANTS
  DecisionsShownWereMade
  HolesOnlyAfterTornPages
  ForeignRowsOutlivedASession
  SuccessIsTrue
  OnePayerAtATime
