SPECIFICATION FairSpec
CONSTANTS
  Dialogs = {d1}
  NoReference = NoReference
PROPERTY TryingAgainPays
CHECK_DEADLOCK FALSE
