SPECIFICATION MCSpec
CONSTANTS
  e1 = e1
  e2 = e2
  DaysInMonth = 2
  Days <- DayNumbers
  Months <- MonthNumbers
  Values = {1, 2}
  Payloads <- SentForms
  Calls = {p1, p2}
  MaxRows = 1
  Claims = {e1, e2}
  Attributes <- About
  Total <- Totals
  ChartLimit <- Limits
  Owner <- Owners
  Today = 24
  Windows <- AskedWindows
  MaxWindow = 12
SYMMETRY Symmetry
INVARIANTS PeriodsInOrder LogTellsTheChange FiguresAgree CalendarHolds
