SPECIFICATION OrganisationSpec
CONSTANTS
  a = a
  b = b
  r1 = r1
  r2 = r2
  r3 = r3
  r4 = r4
  Requests <- MCRequests
  Users = {a, b}
  None = None
  Roles = {"owner", "admin"}
  MaxNumber = 3
INVARIANTS
  ProvisionedHaveRows
  OwnedFromTheStart
  AuditReplaysMembership
PROPERTIES
  NumbersRise
SYMMETRY Symmetry
CHECK_DEADLOCK FALSE
