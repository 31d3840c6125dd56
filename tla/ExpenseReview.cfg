SPECIFICATION Spec
CONSTANTS
  Users = {u1, u2, u3}
  Expenses = {e1}
  Requests = {r1, r2}
  NoUser = NoUser
  MaxQuestions = 1
SYMMETRY Symmetry
INVARIANTS
  LockedRowIsCurrent
  DecidedOnceByAnother
  QuestionAndAnswerMatch
  AuditIsThePath
  PayoutMatchesExpense
  InboxTellsTheTruth
PROPERTIES
  FrozenWithoutSubmitter
  KeepsTheClaim
