SPECIFICATION Spec
CONSTANTS
  r1 = r1
  r2 = r2
  p1 = p1
  q1 = q1
  p2 = p2
  k = k
  Requests <- MCRequests
  Posts <- MCPosts
  Row <- MCRow
  Keys = {k}
  NoKey = NoKey
  None = None
  DedupKey <- MCDedupKey
  ProviderStatuses = {"sent", "read", "failed"}
  MaxReceiveCount = 2
  MaxBatch = 2
  MaxAttempts = 2
INVARIANTS
  BoundedSends
  HonestStatus
  IdempotentReplies
PROPERTIES
  StatusRegressesOnlyOnResend
  
  EventuallyOffTheQueue
CHECK_DEADLOCK FALSE
