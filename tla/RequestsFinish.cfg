SPECIFICATION FairSpec
CONSTANTS
  Users = {u1, u2}
  Expenses = {e1}
  Requests = {r1, r2}
  NoUser = NoUser
  MaxQuestions = 0
PROPERTIES
  RequestsFinish
