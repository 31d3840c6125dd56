SPECIFICATION Spec
CONSTANTS
  Accounts = {a1, a2}
  Requests = {r1, r2}
  MaxTokens = 4
SYMMETRY Symmetry
INVARIANTS
  ChainsStayInTheFamily
  ReplayIsReal
PROPERTIES
  QuietFamiliesStayEnded
  NobodyEndsAnothersSession
