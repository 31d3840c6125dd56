SPECIFICATION Spec
CONSTANTS
  s1 = s1
  a1 = a1
  a2 = a2
  Submissions <- TheSubmissions
  Attachments <- TheAttachments
  PoolSize = 2
  MaxFiles = 3
  MaxFaults = 3
INVARIANTS
  EveryRowHasItsFile
  OrphansAreExplained
  AnswersAreTrue
PROPERTY EveryRequestEnds
CHECK_DEADLOCK FALSE
