SPECIFICATION MCSpec
CONSTANTS
  Users = {u1, u2, u3}
  Requests = {r1, r2, r3, r4}
  Roles = {"admin", "employee", "auditor"}
  Caps <- CapNames
  Shipped <- ShippedNames
  Rank <- Alphabet
  Ops <- AllOps
  Payloads <- ShortLists
SYMMETRY Symmetry
INVARIANTS
  AdministratorRemains
PROPERTIES
  ExactUnlessOvertaken
  InstallRespectsConfiguration
  LastSuperuserFallsToAStaleCheck
