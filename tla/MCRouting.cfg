SPECIFICATION Spec
CONSTANTS
  u1 = u1
  u2 = u2
  s1 = s1
  s2 = s2
  Users = {u1, u2}
  Agents = {u1}
  None = None
  Sessions = {s1, s2}
  Worker = Worker
  MaxMessages = 2
  MaxHistory = 3
SYMMETRY MCSymmetry
INVARIANTS
  AssigneeInHistory
  UnreadCovers
  SerialAssignment
PROPERTIES
  NeverUnassigned
CHECK_DEADLOCK FALSE
